----------------------- MODULE CompactionHooks_proofs -----------------------
(***************************************************************************)
(* Proofs about CompactionHooks, for every number of sessions, every cap   *)
(* and time to live of the store and every value of the other constants.   *)
(* What depends on late events and on failures is proved of OneSpec, whose *)
(* history variables record them.                                          *)
(***************************************************************************)
EXTENDS MCCompactionHooks, AttemptStore_proofs

----------------------------------------------------------------------------
(* Types of the values *)

LEMMA ValueTypes ==
    /\ NoLedger \in Ledger
    /\ Blank \in Text /\ Prose \in Text
    /\ \A l \in Ledger : Json(l) \in Text /\ PluginText(l) \in Text
    /\ EmptySession \in Durable
    /\ IdleCall \in Call
    /\ NothingSent \in Sent
    /\ EmptyStore \in Stores(Attempt)
<1>1. NoLedger \in Ledger
  BY DEF NoLedger, Ledger
<1>2. Blank \in Text /\ Prose \in Text
  BY <1>1 DEF Blank, Prose, Text
<1>3. \A l \in Ledger : Json(l) \in Text /\ PluginText(l) \in Text
  BY DEF Json, PluginText, Text
<1>4. EmptySession \in Durable
  BY DEF EmptySession, Durable
<1>5. IdleCall \in Call
  BY <1>1, <1>2 DEF IdleCall, Call, HostPoints
<1>6. NothingSent \in Sent
  BY <1>1 DEF NothingSent, Sent
<1>7. EmptyStore \in Stores(Attempt)
  BY DEF EmptyStore, Stores
<1> QED BY <1>1, <1>2, <1>3, <1>4, <1>5, <1>6, <1>7

\* A ledger is built from the durable session; it chains the newest plugin-valid
\* compaction, or the one before.
LEMMA LedgerOfType ==
    ASSUME NEW d \in Durable, NEW x \in BOOLEAN
    PROVE  /\ LedgerOf(d, x) \in Ledger
           /\ LedgerOf(d, x).revision = d.revision
           /\ LedgerOf(d, x).prior \in {d.prior, d.compaction}
           /\ x => LedgerOf(d, x).prior = d.prior
BY DEF Durable, LedgerOf, NewestPrior, Ledger

LEMMA NewAttemptType ==
    ASSUME now \in Nat, NEW l \in Ledger, NEW n \in Nat
    PROVE  /\ NewAttempt(l, n) \in Attempt
           /\ NewAttempt(l, n).ledger = l
BY DEF NewAttempt, Attempt, Validation

LEMMA UnfitType ==
    ASSUME now \in Nat, NEW s \in Sessions, call[s].loaded \in Ledger,
           durable[s].compaction \in Nat, Part(s) \in Nat
    PROVE  /\ UnfitAttempt(s) \in Attempt
           /\ UnfitAttempt(s).ledger = call[s].loaded /\ UnfitAttempt(s).createdAt = now
<1>1. /\ NewAttempt(call[s].loaded, durable[s].compaction) \in Attempt
      /\ NewAttempt(call[s].loaded, durable[s].compaction).ledger = call[s].loaded
      /\ NewAttempt(call[s].loaded, durable[s].compaction).createdAt = now
  BY NewAttemptType DEF NewAttempt
<1> QED BY <1>1 DEF UnfitAttempt, Attempt, Validation

LEMMA GotoType ==
    ASSUME call \in [Sessions -> Call], NEW s \in Sessions,
           NEW p \in HostPoints \cup HookPoints, Goto(s, p)
    PROVE  /\ call' \in [Sessions -> Call]
           /\ call'[s].at = p
           /\ call'[s].born = call[s].born
           /\ call'[s].enabled = FALSE
           /\ \A t \in Sessions \ {s} : call'[t] = call[t]
<1>1. [IdleCall EXCEPT !.at = p, !.born = call[s].born] \in Call
  BY ValueTypes DEF Call
<1> QED BY <1>1 DEF Goto, Call, IdleCall

LEMMA EmitType ==
    ASSUME events \in [Sessions -> Seq(Event)], NEW s \in Sessions,
           NEW published \in Seq(Event), Emit(s, published)
    PROVE  events' \in [Sessions -> Seq(Event)]
<1>1. events[s] \o published \in Seq(Event)
  OBVIOUS
<1> QED BY <1>1 DEF Emit

----------------------------------------------------------------------------
(* Type correctness *)

\* The updates of a session, one field or two at a time.
LEMMA DurableUpdates ==
    ASSUME NEW d \in Durable, NEW r \in Nat, NEW b \in BOOLEAN, NEW x \in Text
    PROVE  /\ [d EXCEPT !.revision = r, !.later = b] \in Durable
           /\ [d EXCEPT !.later = TRUE] \in Durable
           /\ [d EXCEPT !.error = TRUE] \in Durable
           /\ [d EXCEPT !.parts = Append(@, x)] \in Durable
           /\ [d EXCEPT !.compaction = d.compaction + 1, !.prior = NewestPrior(d, FALSE),
                        !.parts = <<>>, !.error = FALSE, !.later = FALSE] \in Durable
<1>1. Append(d.parts, x) \in Seq(Text)
  BY DEF Durable
<1>2. /\ NewestPrior(d, FALSE) \in Nat
      /\ d.compaction + 1 \in Nat
  BY DEF Durable, NewestPrior
<1>3. [d EXCEPT !.revision = r, !.later = b] \in Durable
  BY DEF Durable
<1>4. [d EXCEPT !.later = TRUE] \in Durable
  BY DEF Durable
<1>5. [d EXCEPT !.error = TRUE] \in Durable
  BY DEF Durable
<1>6. [d EXCEPT !.parts = Append(@, x)] \in Durable
  BY <1>1 DEF Durable
<1>7. ASSUME NEW n \in Nat, NEW m \in Nat, NEW none \in Seq(Text), NEW f \in BOOLEAN
      PROVE  [d EXCEPT !.compaction = n, !.prior = m,
                       !.parts = none, !.error = f, !.later = f] \in Durable
  BY DEF Durable
<1>8. <<>> \in Seq(Text) /\ FALSE \in BOOLEAN
  OBVIOUS
<1>9. [d EXCEPT !.compaction = d.compaction + 1, !.prior = NewestPrior(d, FALSE),
                !.parts = <<>>, !.error = FALSE, !.later = FALSE] \in Durable
  BY <1>2, <1>7, <1>8
<1> QED BY <1>3, <1>4, <1>5, <1>6, <1>9

\* The updates of a call.
LEMMA CallUpdates ==
    ASSUME NEW c \in Call, NEW p \in HostPoints \cup HookPoints, NEW l \in Ledger,
           NEW a \in Attempt \cup {NoAttempt}, NEW b \in BOOLEAN, NEW x \in Text
    PROVE  /\ [c EXCEPT !.at = p, !.born = l] \in Call
           /\ [c EXCEPT !.at = p, !.loaded = l] \in Call
           /\ [c EXCEPT !.at = p, !.raw = x] \in Call
           /\ [c EXCEPT !.at = p, !.active = a] \in Call
           /\ [c EXCEPT !.at = p, !.active = a, !.loaded = l] \in Call
           /\ [c EXCEPT !.at = p, !.active = a, !.compacting = b] \in Call
           /\ [c EXCEPT !.at = p, !.enabled = b] \in Call
<1>1. [c EXCEPT !.at = p, !.born = l] \in Call
  BY DEF Call
<1>2. [c EXCEPT !.at = p, !.loaded = l] \in Call
  BY DEF Call
<1>3. [c EXCEPT !.at = p, !.raw = x] \in Call
  BY DEF Call
<1>4. [c EXCEPT !.at = p, !.active = a] \in Call
  BY DEF Call
<1>5. [c EXCEPT !.at = p, !.active = a, !.loaded = l] \in Call
  BY DEF Call
<1>6. [c EXCEPT !.at = p, !.active = a, !.compacting = b] \in Call
  BY DEF Call
<1>7. [c EXCEPT !.at = p, !.enabled = b] \in Call
  BY DEF Call
<1> QED BY <1>1, <1>2, <1>3, <1>4, <1>5, <1>6, <1>7

LEMMA HostTypes ==
    ASSUME TypeOK, NEW s \in Sessions, HostStep(s)
    PROVE  TypeOK'
<1> USE DEF TypeOK
<1>s. /\ durable[s] \in Durable
      /\ call[s] \in Call
      /\ events[s] \in Seq(Event)
      /\ {"idle", "turn", "stream", "model", "summary", "gone"} \subseteq HostPoints
  BY DEF HostPoints
<1>e. /\ <<"session.idle">> \in Seq(Event)
      /\ <<"session.compacted">> \in Seq(Event)
      /\ <<"session.deleted">> \in Seq(Event)
      /\ <<"session.compacted", "session.idle">> \in Seq(Event)
      /\ <<"session.error", "session.idle">> \in Seq(Event)
  BY DEF Event
<1>r. durable[s].revision + 1 \in Nat /\ (durable[s].compaction > 0) \in BOOLEAN
  BY <1>s DEF Durable
<1>1. CASE Prompt(s)
  <2>1. durable' = [durable EXCEPT ![s] = [durable[s] EXCEPT
                       !.revision = durable[s].revision + 1, !.later = durable[s].compaction > 0]]
    BY <1>1 DEF Prompt
  <2>2. durable' \in [Sessions -> Durable]
    BY <2>1, <1>s, <1>r, DurableUpdates, ValueTypes
  <2>3. call' \in [Sessions -> Call]
    BY <1>1, <1>s, GotoType DEF Prompt
  <2> QED BY <1>1, <2>2, <2>3 DEF Prompt
<1>2. CASE HistoryMoves(s)
  <2>1. PICK message \in BOOLEAN :
          durable' = [durable EXCEPT ![s] = [durable[s] EXCEPT
                         !.revision = durable[s].revision + 1,
                         !.later = durable[s].later \/ (message /\ durable[s].compaction > 0)]]
    BY <1>2 DEF HistoryMoves
  <2>2. (durable[s].later \/ (message /\ durable[s].compaction > 0)) \in BOOLEAN
    OBVIOUS
  <2>3. durable' \in [Sessions -> Durable]
    BY <2>1, <2>2, <1>s, <1>r, DurableUpdates, ValueTypes
  <2> QED BY <1>2, <2>3 DEF HistoryMoves
<1>3. CASE BeginCompaction(s)
  <2>1. call' = [call EXCEPT ![s] = [call[s] EXCEPT
                    !.at = "compacting", !.born = LedgerOf(durable[s], FALSE)]]
    BY <1>3 DEF BeginCompaction
  <2>2. call' \in [Sessions -> Call]
    BY <2>1, <1>s, LedgerOfType, CallUpdates, ValueTypes DEF HookPoints
  <2> QED BY <1>3, <2>2 DEF BeginCompaction
<1>4. CASE FinishTurn(s)
  <2>1. call' \in [Sessions -> Call]
    BY <1>4, <1>s, GotoType DEF FinishTurn
  <2>2. events' \in [Sessions -> Seq(Event)]
    BY <1>4, <1>e, EmitType DEF FinishTurn
  <2>3. recovered' \in [Sessions -> Recovered]
    BY <1>4 DEF FinishTurn, Recovered
  <2> QED BY <1>4, <2>1, <2>2, <2>3 DEF FinishTurn
<1>5. CASE FailTurn(s)
  <2>1. call' \in [Sessions -> Call]
    BY <1>5, <1>s, GotoType DEF FailTurn
  <2>2. events' \in [Sessions -> Seq(Event)]
    BY <1>5, <1>e, EmitType DEF FailTurn
  <2>3. recovered' \in [Sessions -> Recovered]
    BY <1>5 DEF FailTurn, Recovered
  <2> QED BY <1>5, <2>1, <2>2, <2>3 DEF FailTurn
<1>6. CASE WriteSummary(s)
  <2>1. durable' = [durable EXCEPT ![s] = [durable[s] EXCEPT
                       !.compaction = durable[s].compaction + 1,
                       !.prior = NewestPrior(durable[s], FALSE),
                       !.parts = <<>>, !.error = FALSE, !.later = FALSE]]
    BY <1>6 DEF WriteSummary
  <2>2. durable' \in [Sessions -> Durable]
    BY <2>1, <1>s, <1>r, DurableUpdates, ValueTypes
  <2>3. call' \in [Sessions -> Call]
    BY <1>6, <1>s, GotoType DEF WriteSummary
  <2>4. recovered' \in [Sessions -> Recovered]
    BY <1>6 DEF WriteSummary, Recovered
  <2> QED BY <1>6, <2>2, <2>3, <2>4 DEF WriteSummary
<1>7. CASE CancelCompaction(s)
  <2>1. call' \in [Sessions -> Call]
    BY <1>7, <1>s, GotoType DEF CancelCompaction
  <2>2. events' \in [Sessions -> Seq(Event)]
    BY <1>7, <1>e, EmitType DEF CancelCompaction
  <2> QED BY <1>7, <2>1, <2>2 DEF CancelCompaction
<1>8. CASE StreamText(s)
  <2>1. PICK raw \in {Prose, Json(call[s].born), PluginText(call[s].born), PluginText(NoLedger)} :
          call' = [call EXCEPT ![s] = [call[s] EXCEPT !.at = "text", !.raw = raw]]
    BY <1>8 DEF StreamText
  <2>2. call[s].born \in Ledger
    BY <1>s DEF Call
  <2>3. raw \in Text
    BY <2>1, <2>2, ValueTypes
  <2>4. call' \in [Sessions -> Call]
    BY <2>1, <2>2, <2>3, <1>s, CallUpdates DEF HookPoints
  <2> QED BY <1>8, <2>4 DEF StreamText
<1>9. CASE FinishSummary(s)
  <2>1. call' \in [Sessions -> Call]
    BY <1>9, <1>s, GotoType DEF FinishSummary
  <2>2. events' \in [Sessions -> Seq(Event)]
    BY <1>9, <1>e, EmitType DEF FinishSummary
  <2>3. durable' \in [Sessions -> Durable]
    BY <1>9, <1>s, <1>r, DurableUpdates, ValueTypes DEF FinishSummary
  <2> QED BY <1>9, <2>1, <2>2, <2>3 DEF FinishSummary
<1>10. CASE FailSummary(s)
  <2>1. durable' = [durable EXCEPT ![s] = [durable[s] EXCEPT !.error = TRUE]]
    BY <1>10 DEF FailSummary
  <2>2. durable' \in [Sessions -> Durable]
    BY <2>1, <1>s, <1>r, DurableUpdates, ValueTypes
  <2>3. call' \in [Sessions -> Call]
    BY <1>10, <1>s, GotoType DEF FailSummary
  <2>4. events' \in [Sessions -> Seq(Event)]
    BY <1>10, <1>e, EmitType DEF FailSummary
  <2> QED BY <1>10, <2>2, <2>3, <2>4 DEF FailSummary
<1>11. CASE ActOnVerdict(s)
  <2>1. call' \in [Sessions -> Call]
    BY <1>11, <1>s, GotoType DEF ActOnVerdict
  <2>2. events' \in [Sessions -> Seq(Event)]
    BY <1>11, <1>e, EmitType DEF ActOnVerdict
  <2>3. durable' \in [Sessions -> Durable]
    BY <1>11, <1>s, <1>r, DurableUpdates, ValueTypes DEF ActOnVerdict
  <2> QED BY <1>11, <2>1, <2>2, <2>3 DEF ActOnVerdict
<1>12. CASE DeleteSession(s)
  <2>1. call' \in [Sessions -> Call]
    BY <1>12, <1>s, GotoType DEF DeleteSession
  <2>2. events' \in [Sessions -> Seq(Event)]
    BY <1>12, <1>e, EmitType DEF DeleteSession
  <2> QED BY <1>12, <2>1, <2>2 DEF DeleteSession
<1> QED
  BY <1>1, <1>2, <1>3, <1>4, <1>5, <1>6, <1>7, <1>8, <1>9, <1>10, <1>11, <1>12 DEF HostStep

\* The updates of an attempt keep its ledger.
LEMMA AttemptUpdates ==
    ASSUME NEW a \in Attempt, NEW n \in Nat, NEW m \in Nat, NEW v \in Validation
    PROVE  /\ [a EXCEPT !.recoveryUserID = TRUE] \in Attempt
           /\ [a EXCEPT !.recoveryComplete = TRUE] \in Attempt
           /\ [a EXCEPT !.textPartID = n, !.summaryMessageID = m, !.validation = v] \in Attempt
           /\ [a EXCEPT !.textPartID = n, !.summaryMessageID = m, !.validation = v].ledger = a.ledger
           /\ [a EXCEPT !.summaryMessageID = m, !.validation = v, !.textPartID = n] \in Attempt
           /\ [a EXCEPT !.summaryMessageID = m, !.validation = v, !.textPartID = n].ledger = a.ledger
BY DEF Attempt

LEMMA CompleteTypes ==
    ASSUME TypeOK, NEW s \in Sessions, NEW st \in Stores(Attempt), NEW a \in Attempt,
           Complete(s, st, a)
    PROVE  /\ store' \in Stores(Attempt)
           /\ durable' \in [Sessions -> Durable]
           /\ \A t \in Sessions \ {s} : store'.map[t] = st.map[t] /\ durable'[t] = durable[t]
           /\ store'.map[s] = st.map[s] \/ store'.map[s].ledger = a.ledger
           /\ durable'[s] = [durable[s] EXCEPT !.parts = durable'[s].parts]
<1>1. durable[s] \in Durable /\ call[s] \in Call
  BY DEF TypeOK
<1>2. Part(s) \in Nat /\ durable[s].compaction \in Nat
  BY <1>1 DEF Part, Durable
<1>3. ASSUME NEW text \in Text, StoreText(s, text)
      PROVE  /\ durable' \in [Sessions -> Durable]
             /\ \A t \in Sessions \ {s} : durable'[t] = durable[t]
             /\ durable'[s] = [durable[s] EXCEPT !.parts = durable'[s].parts]
  <2>1. durable' = [durable EXCEPT ![s] = [durable[s] EXCEPT !.parts = Append(@, text)]]
    BY <1>3 DEF StoreText
  <2>2. [durable[s] EXCEPT !.parts = Append(@, text)] \in Durable
    BY <1>1, DurableUpdates
  <2>3. durable'[s] = [durable[s] EXCEPT !.parts = Append(@, text)]
    BY <2>1 DEF TypeOK
  <2>4. durable'[s].parts = Append(durable[s].parts, text)
    BY <2>3, <1>1 DEF Durable
  <2> QED BY <2>1, <2>2, <2>3, <2>4 DEF TypeOK
<1>4. CASE a.textPartID # 0 /\ a.textPartID # Part(s)
  BY <1>3, <1>4, ValueTypes DEF Complete
<1>5. CASE ~(a.textPartID # 0 /\ a.textPartID # Part(s))
  <2> DEFINE v == Judge(call[s].raw, a.ledger)
             b == [a EXCEPT !.textPartID = Part(s), !.summaryMessageID = durable[s].compaction,
                            !.validation = v]
  <2>1. v \in Validation
    BY DEF Judge, Validation
  <2> HIDE DEF v
  <2>2. b \in Attempt /\ b.ledger = a.ledger
    BY <2>1, <1>2 DEF Attempt
  <2>3. store' = Mutate(st, s, b) /\ StoreText(s, PluginText(a.ledger))
    BY <1>5 DEF Complete, v
  <2> HIDE DEF b
  <2>4. store' \in Stores(Attempt) /\ store'.map = [st.map EXCEPT ![s] = b]
    BY <2>2, <2>3, MutateStore
  <2>5. PluginText(a.ledger) \in Text
    BY ValueTypes DEF Attempt
  <2>6. store'.map[s] = b /\ \A t \in Sessions \ {s} : store'.map[t] = st.map[t]
    BY <2>4 DEF Stores
  <2> QED BY <1>3, <2>2, <2>3, <2>4, <2>5, <2>6
<1> QED BY <1>4, <1>5

\* The attempt that a lookup after cleanup finds, and what the lookup leaves.
LEMMA LookupTypes ==
    ASSUME TypeOK, NEW s \in Sessions
    PROVE  /\ Shrinks(Attempt, store, CleanupExpired(store, now))
           /\ CleanupExpired(store, now) \in Stores(Attempt)
           /\ CleanupExpired(store, now).map[s] \in Attempt \cup {NoAttempt}
           /\ CleanupExpired(store, now).map[s] \in {store.map[s], NoAttempt}
           /\ Shrinks(Attempt, store, Delete(CleanupExpired(store, now), s))
           /\ Shrinks(Attempt, store, Delete(store, s))
<1>1. Shrinks(Attempt, store, CleanupExpired(store, now))
  BY CleanupShrinks DEF TypeOK
<1>2. CleanupExpired(store, now).map[s] \in Attempt \cup {NoAttempt}
  BY <1>1 DEF Shrinks, Stores
<1>3. Shrinks(Attempt, CleanupExpired(store, now), Delete(CleanupExpired(store, now), s))
  BY <1>1, DeleteShrinks DEF Shrinks
<1>4. Shrinks(Attempt, store, Delete(store, s))
  BY DeleteShrinks DEF TypeOK
<1> QED BY <1>1, <1>2, <1>3, <1>4 DEF Shrinks

\* A transform that awaits isOverflowReplay holds an attempt.
ReplayHoldsAttempt(s) == call[s].at = "transform_replay" => call[s].active \in Attempt

LEMMA HookTypes ==
    ASSUME TypeOK, NEW s \in Sessions, ReplayHoldsAttempt(s), HookStep(s)
    PROVE  TypeOK'
<1> USE DEF TypeOK
<1>s. /\ durable[s] \in Durable
      /\ call[s] \in Call
      /\ {"request", "model", "summary", "stream", "verdict"} \subseteq HostPoints
      /\ {"compacting_prior", "transform_load", "transform_prior", "transform_replay",
          "text_prior", "auto", "auto_prior"} \subseteq HookPoints
  BY DEF HostPoints, HookPoints
<1>c. /\ call[s].loaded \in Ledger /\ call[s].raw \in Text
      /\ call[s].active \in Attempt \cup {NoAttempt} /\ call[s].compacting \in BOOLEAN
  BY <1>s DEF Call
<1>d. durable[s].compaction \in Nat /\ Part(s) \in Nat
  BY <1>s DEF Durable, Part
<1>l. ASSUME NEW h \in {"unchanged", "sanitized", "recovered", "failed"}, NEW l \in Ledger,
             NEW b \in BOOLEAN, Let(s, h, l, b)
      PROVE  /\ call' \in [Sessions -> Call]
             /\ sent' \in [Sessions -> Sent]
  <2>1. AfterTransform(b) \in HostPoints
    BY DEF AfterTransform, HostPoints
  <2>2. call' \in [Sessions -> Call]
    BY <1>l, <2>1, GotoType DEF Let
  <2>3. [history |-> h, ledger |-> l] \in Sent
    BY DEF Sent
  <2> QED BY <1>l, <2>2, <2>3 DEF Let
<1>1. CASE CompactingLoad(s)
  <2>1. call' = [call EXCEPT ![s] = [call[s] EXCEPT
                    !.at = "compacting_prior", !.loaded = LedgerOf(durable[s], FALSE)]]
    BY <1>1 DEF CompactingLoad
  <2>2. call' \in [Sessions -> Call]
    BY <2>1, <1>s, LedgerOfType, CallUpdates, ValueTypes
  <2> QED BY <1>1, <2>2 DEF CompactingLoad
<1>2. CASE CompactingStore(s)
  <2>1. call' \in [Sessions -> Call]
    BY <1>2, <1>s, GotoType DEF CompactingStore
  <2>2. NewAttempt(call[s].loaded, 0) \in Attempt
    BY <1>c, NewAttemptType
  <2>3. store' \in Stores(Attempt)
    BY <1>2, <2>2, SetStore DEF CompactingStore
  <2> QED BY <1>2, <2>1, <2>3 DEF CompactingStore
<1>3. CASE CompactingFail(s)
  <2>1. call' \in [Sessions -> Call]
    BY <1>3, <1>s, GotoType DEF CompactingFail
  <2>2. store' \in Stores(Attempt)
    BY <1>3, DeleteShrinks DEF CompactingFail, Shrinks
  <2>3. recovered' \in [Sessions -> Recovered]
    BY <1>3 DEF CompactingFail, Recovered
  <2> QED BY <1>3, <2>1, <2>2, <2>3 DEF CompactingFail
<1>4. CASE Transform(s)
  <2> DEFINE st == CleanupExpired(store, now)
             compacting == call[s].at = "request"
  <2>1. /\ st \in Stores(Attempt)
        /\ st.map[s] \in Attempt \cup {NoAttempt}
        /\ Delete(st, s) \in Stores(Attempt)
    BY LookupTypes DEF Shrinks
  <2>2. compacting \in BOOLEAN /\ PlainHistory \in {"unchanged", "sanitized", "recovered", "failed"}
    BY DEF PlainHistory
  <2> HIDE DEF compacting, st
  <2>3. store' \in {st, Delete(st, s)}
    BY <1>4 DEF Transform, st
  <2>4. \/ /\ sent' = sent
           /\ \E p \in {"transform_load", "transform_replay"} :
                call' = [call EXCEPT ![s].at = p, ![s].active = st.map[s],
                                     ![s].compacting = compacting]
        \/ \E h \in {"unchanged", "sanitized", "recovered", "failed"} : Let(s, h, NoLedger, compacting)
    BY <1>4, <2>2 DEF Transform, st, compacting
  <2>5. CASE /\ sent' = sent
             /\ \E p \in {"transform_load", "transform_replay"} :
                  call' = [call EXCEPT ![s].at = p, ![s].active = st.map[s],
                                       ![s].compacting = compacting]
    <3>1. PICK p \in {"transform_load", "transform_replay"} :
            call' = [call EXCEPT ![s] = [call[s] EXCEPT
                       !.at = p, !.active = st.map[s], !.compacting = compacting]]
      BY <2>5
    <3>2. call' \in [Sessions -> Call]
      BY <3>1, <2>1, <2>2, <1>s, CallUpdates, ValueTypes
    <3> QED BY <1>4, <2>1, <2>3, <2>5, <3>2 DEF Transform
  <2>6. CASE \E h \in {"unchanged", "sanitized", "recovered", "failed"} : Let(s, h, NoLedger, compacting)
    <3>1. call' \in [Sessions -> Call] /\ sent' \in [Sessions -> Sent]
      BY <2>2, <2>6, <1>l, ValueTypes
    <3> QED BY <1>4, <2>1, <2>3, <3>1 DEF Transform
  <2> QED BY <2>4, <2>5, <2>6
<1>5. CASE TransformLoad(s)
  <2>1. call' = [call EXCEPT ![s] = [call[s] EXCEPT
                    !.at = "transform_prior", !.loaded = LedgerOf(durable[s], TRUE)]]
    BY <1>5 DEF TransformLoad
  <2>2. call' \in [Sessions -> Call]
    BY <2>1, <1>s, LedgerOfType, CallUpdates, ValueTypes
  <2> QED BY <1>5, <2>2 DEF TransformLoad
<1>6. CASE TransformRebuilt(s)
  <2> DEFINE a == NewAttempt(call[s].loaded, durable[s].compaction)
  <2>1. a \in Attempt
    BY <1>c, <1>d, NewAttemptType
  <2>2. /\ store' = Set(store, s, a)
        /\ call' = [call EXCEPT ![s] = [call[s] EXCEPT !.at = "transform_replay", !.active = a]]
    BY <1>6 DEF TransformRebuilt
  <2> HIDE DEF a
  <2>3. store' \in Stores(Attempt)
    BY <2>1, <2>2, SetStore
  <2>4. call' \in [Sessions -> Call]
    BY <2>1, <2>2, <1>s, CallUpdates, ValueTypes
  <2> QED BY <1>6, <2>3, <2>4 DEF TransformRebuilt
<1>7. CASE TransformRecover(s)
  <2>1. Let(s, "recovered", call[s].active.ledger, call[s].compacting)
    BY <1>7 DEF TransformRecover
  <2>2. call[s].active \in Attempt
    BY <1>7 DEF TransformRecover, ReplayHoldsAttempt
  <2>3. call' \in [Sessions -> Call] /\ sent' \in [Sessions -> Sent]
    <3>1. call[s].active.ledger \in Ledger
      BY <2>2 DEF Attempt
    <3> QED BY <2>1, <3>1, <1>c, <1>l
  <2>4. store' \in Stores(Attempt)
    <3>1. CASE store.map[s] = NoAttempt
      BY <1>7, <3>1 DEF TransformRecover
    <3>2. CASE store.map[s] # NoAttempt
      <4>1. store.map[s] \in Attempt
        BY <3>2 DEF Stores
      <4>2. [store.map[s] EXCEPT !.recoveryUserID = TRUE] \in Attempt
        BY <4>1 DEF Attempt
      <4> QED BY <1>7, <3>2, <4>2, MutateStore DEF TransformRecover
    <3> QED BY <3>1, <3>2
  <2>5. recovered' \in [Sessions -> Recovered]
    BY <1>7 DEF TransformRecover, Recovered
  <2> QED BY <1>7, <2>3, <2>4, <2>5 DEF TransformRecover
<1>8. CASE TransformFail(s)
  <2>1. call' \in [Sessions -> Call] /\ sent' \in [Sessions -> Sent]
    BY <1>8, <1>c, <1>l, ValueTypes DEF TransformFail
  <2>2. store' \in Stores(Attempt)
    BY <1>8, LookupTypes DEF TransformFail, Shrinks
  <2>3. recovered' \in [Sessions -> Recovered]
    BY <1>8 DEF TransformFail, Recovered
  <2> QED BY <1>8, <2>1, <2>2, <2>3 DEF TransformFail
<1>9. CASE TextLoad(s)
  <2> DEFINE st == CleanupExpired(store, now)
             a == st.map[s]
  <2>1. st \in Stores(Attempt) /\ a \in Attempt \cup {NoAttempt}
    BY LookupTypes
  <2>2. CASE a = NoAttempt \/ BelongsElsewhere(s, a)
    <3>1. call' = [call EXCEPT ![s] = [call[s] EXCEPT
                      !.at = "text_prior", !.loaded = LedgerOf(durable[s], TRUE)]]
      BY <1>9, <2>2 DEF TextLoad
    <3>2. call' \in [Sessions -> Call]
      BY <3>1, <1>s, LedgerOfType, CallUpdates, ValueTypes
    <3>3. store' = st /\ UNCHANGED durable
      BY <1>9, <2>2 DEF TextLoad
    <3> QED BY <1>9, <2>1, <3>2, <3>3 DEF TextLoad
  <2>3. CASE ~(a = NoAttempt \/ BelongsElsewhere(s, a))
    <3>1. Complete(s, st, a) /\ Goto(s, "stream")
      BY <1>9, <2>3 DEF TextLoad
    <3> HIDE DEF st, a
    <3>2. store' \in Stores(Attempt) /\ durable' \in [Sessions -> Durable]
      BY <2>1, <2>3, <3>1, CompleteTypes
    <3>3. call' \in [Sessions -> Call]
      BY <3>1, <1>s, GotoType
    <3> QED BY <1>9, <3>2, <3>3 DEF TextLoad
  <2> QED BY <2>2, <2>3
<1>10. CASE TextRebuilt(s)
  <2> DEFINE a == NewAttempt(call[s].loaded, durable[s].compaction)
  <2>1. a \in Attempt
    BY <1>c, <1>d, NewAttemptType
  <2>2. Complete(s, Set(store, s, a), a) /\ Goto(s, "stream")
    BY <1>10 DEF TextRebuilt
  <2> HIDE DEF a
  <2>3. Set(store, s, a) \in Stores(Attempt)
    BY <2>1, SetStore
  <2>4. store' \in Stores(Attempt) /\ durable' \in [Sessions -> Durable]
    BY <2>1, <2>2, <2>3, CompleteTypes
  <2>5. call' \in [Sessions -> Call]
    BY <2>2, <1>s, GotoType
  <2> QED BY <1>10, <2>4, <2>5 DEF TextRebuilt
<1>11. CASE TextFail(s)
  <2> DEFINE st == CleanupExpired(store, now)
             a == st.map[s]
  <2>1. st \in Stores(Attempt) /\ a \in Attempt \cup {NoAttempt}
    BY LookupTypes
  <2>2. PICK bound \in BOOLEAN :
          store' = IF a = NoAttempt THEN st
                   ELSE Mutate(st, s, [a EXCEPT
                          !.summaryMessageID = durable[s].compaction, !.validation = "invalid",
                          !.textPartID = IF bound THEN Part(s) ELSE @])
    BY <1>11 DEF TextFail
  <2> HIDE DEF st, a
  <2>3. store' \in Stores(Attempt)
    <3>1. CASE a = NoAttempt
      BY <2>1, <2>2, <3>1
    <3>2. CASE a # NoAttempt
      <4> DEFINE part == IF bound THEN Part(s) ELSE a.textPartID
                 b == [a EXCEPT !.summaryMessageID = durable[s].compaction,
                                !.validation = "invalid", !.textPartID = part]
      <4>1. a \in Attempt /\ a.textPartID \in Nat
        BY <2>1, <3>2 DEF Attempt
      <4>2. part \in Nat
        BY <4>1, <1>d
      <4>3. store' = Mutate(st, s, b)
        BY <2>2, <3>2
      <4> HIDE DEF part
      <4>4. b \in Attempt
        BY <4>1, <4>2, <1>d DEF Attempt, Validation
      <4> QED BY <2>1, <4>3, <4>4, MutateStore
    <3> QED BY <3>1, <3>2
  <2>4. durable' = [durable EXCEPT ![s] = [durable[s] EXCEPT !.parts = Append(@, call[s].raw)]]
    BY <1>11 DEF TextFail, StoreText
  <2>5. durable' \in [Sessions -> Durable]
    BY <2>4, <1>s, <1>c, DurableUpdates
  <2>6. call' \in [Sessions -> Call]
    BY <1>11, <1>s, GotoType DEF TextFail
  <2> QED BY <1>11, <2>3, <2>5, <2>6 DEF TextFail
<1>12. CASE AutoLoad(s)
  <2>1. store' \in {store, Delete(store, s)}
    BY <1>12 DEF AutoLoad
  <2>2. store' \in Stores(Attempt)
    BY <2>1, LookupTypes DEF Shrinks
  <2>3. \/ Goto(s, "verdict")
        \/ call' = [call EXCEPT ![s] = [call[s] EXCEPT !.at = "auto_prior", !.active = NoAttempt,
                                          !.loaded = LedgerOf(durable[s], TRUE)]]
    BY <1>12 DEF AutoLoad
  <2>4. call' \in [Sessions -> Call]
    <3>1. LedgerOf(durable[s], TRUE) \in Ledger /\ NoAttempt \in Attempt \cup {NoAttempt}
      BY <1>s, LedgerOfType
    <3>2. [call[s] EXCEPT !.at = "auto_prior", !.active = NoAttempt,
                          !.loaded = LedgerOf(durable[s], TRUE)] \in Call
      BY <3>1, <1>s, CallUpdates, ValueTypes
    <3>3. CASE Goto(s, "verdict")
      BY <3>3, <1>s, GotoType
    <3> QED BY <2>3, <3>2, <3>3
  <2> QED BY <1>12, <2>2, <2>4 DEF AutoLoad
<1>13. CASE AutoRebuilt(s)
  <2> DEFINE b == SummaryLedger(durable[s].parts) = call[s].loaded
  <2>1. call' = [call EXCEPT ![s] = [call[s] EXCEPT !.at = "verdict", !.enabled = b]]
    BY <1>13 DEF AutoRebuilt
  <2>2. b \in BOOLEAN
    OBVIOUS
  <2> HIDE DEF b
  <2>3. call' \in [Sessions -> Call]
    BY <2>1, <2>2, <1>s, CallUpdates, ValueTypes
  <2>4. store' \in Stores(Attempt)
    BY <1>13, LookupTypes DEF AutoRebuilt, Shrinks
  <2> QED BY <1>13, <2>3, <2>4 DEF AutoRebuilt
<1>14. CASE AutoFail(s)
  <2>1. call' \in [Sessions -> Call]
    BY <1>14, <1>s, GotoType DEF AutoFail
  <2>2. store' \in Stores(Attempt)
    BY <1>14, LookupTypes DEF AutoFail, Shrinks
  <2> QED BY <1>14, <2>1, <2>2 DEF AutoFail
<1>15. CASE AutoStart(s)
  <2>1. Shrinks(Attempt, store, store') /\ store'.map[s] \in Attempt \cup {NoAttempt}
    BY <1>15, LookupTypes DEF AutoStart
  <2>2. call' = [call EXCEPT ![s] = [call[s] EXCEPT !.at = "auto", !.active = store'.map[s]]]
    BY <1>15 DEF AutoStart
  <2>3. call' \in [Sessions -> Call]
    BY <2>1, <2>2, <1>s, CallUpdates, ValueTypes
  <2> QED BY <1>15, <2>1, <2>3 DEF AutoStart, Shrinks
<1>16. CASE TextUnfit(s)
  <2>1. store' = Set(store, s, UnfitAttempt(s)) /\ UnfitAttempt(s) \in Attempt
    BY <1>16, <1>c, <1>d, UnfitType DEF TextUnfit
  <2>2. store' \in Stores(Attempt)
    BY <2>1, SetStore
  <2>3. durable' = [durable EXCEPT ![s] = [durable[s] EXCEPT !.parts = Append(@, call[s].raw)]]
    BY <1>16 DEF TextUnfit, StoreText
  <2>4. durable' \in [Sessions -> Durable]
    BY <2>3, <1>s, <1>c, DurableUpdates
  <2>5. call' \in [Sessions -> Call]
    BY <1>16, <1>s, GotoType DEF TextUnfit
  <2> QED BY <1>16, <2>2, <2>4, <2>5 DEF TextUnfit
<1> QED
  BY <1>1, <1>2, <1>3, <1>4, <1>5, <1>6, <1>7, <1>8, <1>9, <1>10, <1>11, <1>12, <1>13, <1>14,
     <1>15, <1>16
  DEF HookStep

----------------------------------------------------------------------------
(* The inductive invariant, session by session *)

\* A ledger built after the newest compaction of s began, that chains no summary
\* which does not exist yet.
Fresh(s, ledger) ==
    /\ ledger.revision >= call[s].born.revision
    /\ ledger.prior <= durable[s].compaction

SameAttempt(a, b) ==
    /\ a.createdAt = b.createdAt
    /\ a.ledger = b.ledger
    /\ a.summaryMessageID = b.summaryMessageID

DurableInOrder(s) ==
    /\ call[s].born.revision <= durable[s].revision
    /\ durable[s].prior <= durable[s].compaction

LoadedFresh(s) ==
    call[s].at \in {"compacting_prior", "transform_prior", "text_prior", "auto_prior"} =>
        Fresh(s, call[s].loaded)

AutoLoaded(s) ==
    call[s].at = "auto_prior" =>
        /\ Valid(durable[s].parts)
        /\ call[s].loaded.prior = durable[s].prior

\* The attempt of an earlier compaction survives only until the compacting hook
\* of the next one stores or deletes.
StoredFresh(s) ==
    /\ call[s].at \notin {"compacting", "compacting_prior"}
    /\ store.map[s] # NoAttempt
    => Fresh(s, store.map[s].ledger)

HeldFresh(s) ==
    call[s].at = "transform_replay" =>
        /\ Fresh(s, call[s].active.ledger)
        /\ store.map[s] # NoAttempt => SameAttempt(store.map[s], call[s].active)

AutoSound(s) ==
    call[s].at = "verdict" /\ call[s].enabled =>
        /\ Valid(durable[s].parts)
        /\ SummaryLedger(durable[s].parts).revision >= call[s].born.revision
        /\ SummaryLedger(durable[s].parts).prior = durable[s].prior

RecoverySound(s) ==
    sent[s].history = "recovered" /\ call[s].at \in {"model", "summary"} =>
        Fresh(s, sent[s].ledger)

SessionInv(s) ==
    /\ ReplayHoldsAttempt(s)
    /\ DurableInOrder(s)
    /\ LoadedFresh(s)
    /\ AutoLoaded(s)
    /\ StoredFresh(s)
    /\ HeldFresh(s)
    /\ AutoSound(s)
    /\ RecoverySound(s)

HooksInv == TypeOK /\ \A s \in Sessions : SessionInv(s)

\* The store of the next state holds for s what it holds now, or nothing.
KeepsAttempt(s) ==
    store'.map[s] # NoAttempt =>
        store.map[s] # NoAttempt /\ SameAttempt(store'.map[s], store.map[s])

----------------------------------------------------------------------------
(* Sessions that do not move *)

LEMMA Frame ==
    ASSUME TypeOK, NEW s \in Sessions, SessionInv(s), KeepsAttempt(s),
           call'[s] = call[s], durable'[s] = durable[s], sent'[s] = sent[s]
    PROVE  SessionInv(s)'
<1>1. \A l : Fresh(s, l)' <=> Fresh(s, l)
  BY DEF Fresh
<1>2. ReplayHoldsAttempt(s)' /\ DurableInOrder(s)' /\ AutoLoaded(s)'
  BY DEF SessionInv, ReplayHoldsAttempt, DurableInOrder, AutoLoaded
<1>3. LoadedFresh(s)' /\ RecoverySound(s)'
  BY DEF SessionInv, LoadedFresh, RecoverySound, Fresh
<1>4. AutoSound(s)'
  BY DEF SessionInv, AutoSound
<1>5. StoredFresh(s)'
  BY DEF SessionInv, StoredFresh, KeepsAttempt, SameAttempt, Fresh
<1>6. HeldFresh(s)'
  BY DEF SessionInv, HeldFresh, KeepsAttempt, SameAttempt, Fresh
<1> QED BY <1>2, <1>3, <1>4, <1>5, <1>6 DEF SessionInv

----------------------------------------------------------------------------
(* The session that moves *)

\* Going on at a point of the host: nothing a hook held survives.
LEMMA GotoKeeps ==
    ASSUME TypeOK, TypeOK', NEW s \in Sessions, SessionInv(s),
           NEW p \in HostPoints, Goto(s, p),
           durable'[s].revision >= durable[s].revision,
           durable'[s].prior <= durable'[s].compaction,
           StoredFresh(s)', RecoverySound(s)'
    PROVE  SessionInv(s)'
<1>1. /\ call'[s].at = p
      /\ call'[s].born = call[s].born
      /\ call'[s].enabled = FALSE
  BY GotoType DEF TypeOK
<1>2. p \notin {"transform_replay", "compacting_prior", "transform_prior", "text_prior", "auto_prior"}
  BY DEF HostPoints
<1>3. ReplayHoldsAttempt(s)' /\ LoadedFresh(s)' /\ AutoLoaded(s)' /\ HeldFresh(s)' /\ AutoSound(s)'
  BY <1>1, <1>2 DEF ReplayHoldsAttempt, LoadedFresh, AutoLoaded, HeldFresh, AutoSound
<1>4. /\ call[s].born.revision \in Nat /\ durable[s].revision \in Nat
      /\ durable'[s].revision \in Nat
  BY DEF TypeOK, Call, Ledger, Durable
<1>5. DurableInOrder(s)'
  BY <1>1, <1>4 DEF SessionInv, DurableInOrder
<1> QED BY <1>3, <1>5 DEF SessionInv

LEMMA HostMoves ==
    ASSUME TypeOK, TypeOK', NEW s \in Sessions, SessionInv(s), HostStep(s)
    PROVE  SessionInv(s)'
<1>s. /\ durable[s] \in Durable /\ durable'[s] \in Durable
      /\ call[s] \in Call /\ call'[s] \in Call
      /\ {"idle", "turn", "stream", "gone"} \subseteq HostPoints
  BY DEF TypeOK, HostPoints
<1>n. /\ durable[s].revision \in Nat /\ durable[s].compaction \in Nat /\ durable[s].prior \in Nat
      /\ call[s].born.revision \in Nat
      /\ call[s].born.revision <= durable[s].revision
      /\ durable[s].prior <= durable[s].compaction
      /\ store.map[s] # NoAttempt => store.map[s].ledger.prior \in Nat
  BY <1>s DEF Durable, Call, Ledger, SessionInv, DurableInOrder, TypeOK, Stores, Attempt
\* The host goes on, not to the model, with the store as it is.
<1>g. ASSUME NEW p \in {"idle", "turn", "stream", "gone"}, Goto(s, p),
             call[s].at \notin {"compacting", "compacting_prior"}, UNCHANGED store,
             durable'[s].revision >= durable[s].revision,
             durable'[s].compaction >= durable[s].compaction,
             durable'[s].prior <= durable'[s].compaction
      PROVE  SessionInv(s)'
  <2>1. call'[s].at = p /\ call'[s].born = call[s].born
    BY <1>g, <1>s, GotoType DEF TypeOK
  <2>2. RecoverySound(s)'
    BY <2>1 DEF RecoverySound
  <2>3. StoredFresh(s)'
    BY <1>g, <1>n, <1>s, <2>1, SMTT(30) DEF SessionInv, StoredFresh, Fresh, Durable
  <2> QED BY <1>g, <1>s, <2>2, <2>3, GotoKeeps
<1>1. CASE Prompt(s)
  <2>1. /\ durable'[s].revision >= durable[s].revision
        /\ durable'[s].compaction = durable[s].compaction
        /\ durable'[s].prior = durable[s].prior
    BY <1>1, <1>n DEF Prompt, TypeOK, Durable
  <2> QED BY <1>1, <1>g, <1>n, <2>1 DEF Prompt, HostAt
<1>2. CASE HistoryMoves(s)
  <2>1. /\ durable'[s].revision >= durable[s].revision
        /\ durable'[s].compaction = durable[s].compaction
        /\ durable'[s].prior = durable[s].prior
        /\ durable'[s].parts = durable[s].parts
    BY <1>2, <1>n DEF HistoryMoves, TypeOK, Durable
  <2>2. call' = call /\ store' = store /\ sent' = sent
    BY <1>2 DEF HistoryMoves
  <2>3. \A l : Fresh(s, l)' <=> Fresh(s, l)
    BY <2>1, <2>2 DEF Fresh
  <2>4. ReplayHoldsAttempt(s)' /\ AutoLoaded(s)' /\ AutoSound(s)'
    BY <2>1, <2>2 DEF SessionInv, ReplayHoldsAttempt, AutoLoaded, AutoSound
  <2>5. LoadedFresh(s)' /\ StoredFresh(s)' /\ RecoverySound(s)'
    BY <2>1, <2>2 DEF SessionInv, LoadedFresh, StoredFresh, RecoverySound, Fresh
  <2>6. HeldFresh(s)'
    BY <2>1, <2>2 DEF SessionInv, HeldFresh, Fresh
  <2>7. DurableInOrder(s)'
    BY <2>1, <2>2, <1>n, <1>s DEF DurableInOrder, Durable
  <2> QED BY <2>4, <2>5, <2>6, <2>7 DEF SessionInv
<1>3. CASE BeginCompaction(s)
  <2>1. /\ call'[s].at = "compacting"
        /\ call'[s].born = LedgerOf(durable[s], FALSE)
        /\ durable' = durable
    BY <1>3 DEF BeginCompaction, TypeOK, Call
  <2>2. durable'[s] = durable[s]
    BY <2>1
  <2>3. DurableInOrder(s)'
    <3>1. call'[s].born.revision = durable[s].revision
      BY <2>1, <1>s, LedgerOfType
    <3> QED BY <3>1, <2>2, <1>n DEF DurableInOrder
  <2> QED BY <2>1, <2>3
      DEF SessionInv, ReplayHoldsAttempt, LoadedFresh, AutoLoaded, StoredFresh, HeldFresh,
          AutoSound, RecoverySound
<1>4. CASE FinishTurn(s)
  BY <1>4, <1>g, <1>n DEF FinishTurn, HostAt
<1>5. CASE FailTurn(s)
  BY <1>5, <1>g, <1>n DEF FailTurn, HostAt
<1>6. CASE WriteSummary(s)
  <2>1. /\ durable'[s].revision = durable[s].revision
        /\ durable'[s].compaction = durable[s].compaction + 1
        /\ durable'[s].prior = NewestPrior(durable[s], FALSE)
    BY <1>6 DEF WriteSummary, TypeOK, Durable
  <2>2. durable'[s].prior <= durable'[s].compaction
    BY <2>1, <1>n DEF NewestPrior
  <2>3. /\ durable'[s].revision >= durable[s].revision
        /\ durable'[s].compaction >= durable[s].compaction
    BY <2>1, <1>n
  <2>4. /\ Goto(s, "stream") /\ UNCHANGED store
        /\ call[s].at \notin {"compacting", "compacting_prior"}
    BY <1>6 DEF WriteSummary, HostAt
  <2> QED BY <1>g, <2>2, <2>3, <2>4
<1>7. CASE CancelCompaction(s)
  BY <1>7, <1>g, <1>n DEF CancelCompaction, HostAt
<1>8. CASE StreamText(s)
  <2>1. /\ call[s].at = "stream" /\ call'[s].at = "text"
        /\ call'[s].born = call[s].born
        /\ durable' = durable /\ store' = store
    BY <1>8, <1>s DEF StreamText, HostAt, TypeOK, Call
  <2>2. DurableInOrder(s)' /\ StoredFresh(s)'
    BY <2>1 DEF SessionInv, DurableInOrder, StoredFresh, Fresh
  <2> QED BY <2>1, <2>2
      DEF SessionInv, ReplayHoldsAttempt, LoadedFresh, AutoLoaded, HeldFresh, AutoSound, RecoverySound
<1>9. CASE FinishSummary(s)
  <2>1. /\ durable'[s].revision = durable[s].revision
        /\ durable'[s].compaction = durable[s].compaction
        /\ durable'[s].prior = durable[s].prior
    BY <1>9 DEF FinishSummary, TypeOK, Durable
  <2> QED BY <1>9, <2>1, <1>g, <1>n DEF FinishSummary, HostAt
<1>10. CASE FailSummary(s)
  <2>1. /\ durable'[s].revision = durable[s].revision
        /\ durable'[s].compaction = durable[s].compaction
        /\ durable'[s].prior = durable[s].prior
    BY <1>10 DEF FailSummary, TypeOK, Durable
  <2> QED BY <1>10, <2>1, <1>g, <1>n DEF FailSummary, HostAt
<1>11. CASE ActOnVerdict(s)
  <2>1. /\ durable'[s].revision = durable[s].revision
        /\ durable'[s].compaction = durable[s].compaction
        /\ durable'[s].prior = durable[s].prior
    BY <1>11 DEF ActOnVerdict, TypeOK, Durable
  <2> QED BY <1>11, <2>1, <1>g, <1>n DEF ActOnVerdict, HostAt
<1>12. CASE DeleteSession(s)
  BY <1>12, <1>g, <1>n DEF DeleteSession, HostAt
<1> QED
  BY <1>1, <1>2, <1>3, <1>4, <1>5, <1>6, <1>7, <1>8, <1>9, <1>10, <1>11, <1>12 DEF HostStep

LEMMA HookMoves ==
    ASSUME TypeOK, TypeOK', NEW s \in Sessions, SessionInv(s), HookStep(s)
    PROVE  SessionInv(s)'
<1>s. /\ durable[s] \in Durable /\ durable'[s] \in Durable
      /\ call[s] \in Call /\ call'[s] \in Call
      /\ {"request", "summary", "model", "stream", "verdict"} \subseteq HostPoints
  BY DEF TypeOK, HostPoints
<1>n. /\ durable[s].revision \in Nat /\ durable[s].compaction \in Nat /\ durable[s].prior \in Nat
      /\ call[s].born.revision \in Nat
      /\ call[s].born.revision <= durable[s].revision
      /\ durable[s].prior <= durable[s].compaction
      /\ call[s].loaded \in Ledger
  BY <1>s DEF Durable, Call, Ledger, SessionInv, DurableInOrder
\* What a hook loads is fresh.
<1>f. \A x \in BOOLEAN : Fresh(s, LedgerOf(durable[s], x))
  <2>1. TAKE x \in BOOLEAN
  <2>2. /\ LedgerOf(durable[s], x).revision = durable[s].revision
        /\ LedgerOf(durable[s], x).prior \in {durable[s].prior, durable[s].compaction}
    BY <1>s, LedgerOfType
  <2> QED BY <2>2, <1>n DEF Fresh
\* The hook returns: the session and what is fresh stay, the store holds for s
\* nothing or an attempt with a fresh ledger.
<1>g. ASSUME NEW p \in {"request", "stream", "verdict"}, Goto(s, p),
             durable'[s] = [durable[s] EXCEPT !.parts = durable'[s].parts],
             store'.map[s] # NoAttempt => Fresh(s, store'.map[s].ledger)
      PROVE  SessionInv(s)'
  <2>1. call'[s].at = p /\ call'[s].born = call[s].born
    BY <1>g, <1>s, GotoType DEF TypeOK
  <2>2. /\ durable'[s].revision = durable[s].revision
        /\ durable'[s].compaction = durable[s].compaction
        /\ durable'[s].prior = durable[s].prior
    BY <1>g, <1>s DEF Durable
  <2>3. RecoverySound(s)'
    BY <2>1 DEF RecoverySound
  <2>4. StoredFresh(s)'
    BY <1>g, <2>1, <2>2 DEF StoredFresh, Fresh
  <2> QED BY <1>g, <1>n, <1>s, <2>2, <2>3, <2>4, GotoKeeps
\* A transform lets its history through.
<1>l. ASSUME NEW h, NEW l, NEW b \in BOOLEAN, Let(s, h, l, b), durable' = durable,
             h = "recovered" => Fresh(s, l),
             store'.map[s] # NoAttempt => Fresh(s, store'.map[s].ledger)
      PROVE  SessionInv(s)'
  <2>1. AfterTransform(b) \in {"summary", "model"}
    BY DEF AfterTransform
  <2>2. Goto(s, AfterTransform(b))
    BY <1>l DEF Let
  <2>3. /\ call'[s].at = AfterTransform(b) /\ call'[s].born = call[s].born
        /\ sent'[s] = [history |-> h, ledger |-> l]
    BY <1>l, <1>s, <2>1, <2>2, GotoType DEF Let, TypeOK
  <2>4. RecoverySound(s)'
    BY <1>l, <2>3 DEF RecoverySound, Fresh
  <2>5. StoredFresh(s)'
    BY <1>l, <2>3 DEF StoredFresh, Fresh
  <2> QED BY <1>l, <1>n, <1>s, <2>1, <2>2, <2>4, <2>5, GotoKeeps
\* The hook goes on to a point where it holds loaded data only.
<1>p. ASSUME NEW p \in {"compacting_prior", "transform_load", "transform_prior", "text_prior"},
             call'[s].at = p, call'[s].born = call[s].born, durable' = durable,
             p # "transform_load" => Fresh(s, call'[s].loaded),
             p # "compacting_prior" /\ store'.map[s] # NoAttempt => Fresh(s, store'.map[s].ledger)
      PROVE  SessionInv(s)'
  <2>1. ReplayHoldsAttempt(s)' /\ AutoLoaded(s)' /\ HeldFresh(s)' /\ AutoSound(s)' /\ RecoverySound(s)'
    BY <1>p DEF ReplayHoldsAttempt, AutoLoaded, HeldFresh, AutoSound, RecoverySound
  <2>2. DurableInOrder(s)'
    BY <1>p DEF SessionInv, DurableInOrder
  <2>3. LoadedFresh(s)' /\ StoredFresh(s)'
    BY <1>p DEF LoadedFresh, StoredFresh, Fresh
  <2> QED BY <2>1, <2>2, <2>3 DEF SessionInv
<1>1. CASE CompactingLoad(s)
  <2>1. /\ call'[s].at = "compacting_prior" /\ call'[s].born = call[s].born
        /\ call'[s].loaded = LedgerOf(durable[s], FALSE)
        /\ durable' = durable
    BY <1>1, <1>s DEF CompactingLoad, TypeOK, Call
  <2> QED BY <2>1, <1>f, <1>p
<1>2. CASE CompactingStore(s)
  <2> DEFINE a == NewAttempt(call[s].loaded, 0)
  <2>1. a \in Attempt /\ a.ledger = call[s].loaded
    BY <1>n, NewAttemptType DEF TypeOK
  <2>2. store' = Set(store, s, a) /\ Goto(s, "request") /\ durable' = durable
    BY <1>2 DEF CompactingStore
  <2>3. Fresh(s, call[s].loaded)
    BY <1>2 DEF CompactingStore, SessionInv, LoadedFresh
  <2> HIDE DEF a
  <2>4. store'.map[s] \in {a, NoAttempt}
    BY <2>1, <2>2, SetStore DEF TypeOK
  <2>5. durable'[s] = [durable[s] EXCEPT !.parts = durable'[s].parts]
    BY <2>2, <1>s DEF Durable
  <2> QED BY <1>g, <2>1, <2>2, <2>3, <2>4, <2>5
<1>3. CASE CompactingFail(s)
  <2>1. store'.map[s] = NoAttempt /\ Goto(s, "request") /\ durable' = durable
    BY <1>3, DeleteShrinks DEF CompactingFail, TypeOK
  <2>2. durable'[s] = [durable[s] EXCEPT !.parts = durable'[s].parts]
    BY <2>1, <1>s DEF Durable
  <2> QED BY <1>g, <2>1, <2>2
<1>4. CASE Transform(s)
  <2> DEFINE st == CleanupExpired(store, now)
             compacting == call[s].at = "request"
  <2>1. /\ st.map[s] \in {store.map[s], NoAttempt}
        /\ st.map[s] \in Attempt \cup {NoAttempt}
        /\ Delete(st, s).map[s] = NoAttempt
    BY LookupTypes, DeleteShrinks
  <2>2. durable' = durable /\ compacting \in BOOLEAN
    BY <1>4 DEF Transform
  <2>3. call[s].at \in {"turn", "request"}
    BY <1>4 DEF Transform, HostAt
  <2>4. store' \in {st, Delete(st, s)}
    BY <1>4 DEF Transform
  <2>5. store'.map[s] \in {store.map[s], NoAttempt}
    BY <2>1, <2>4
  <2>6. store'.map[s] # NoAttempt => Fresh(s, store'.map[s].ledger)
    BY <2>3, <2>5 DEF SessionInv, StoredFresh
  <2>7. \/ call' = [call EXCEPT ![s] = [call[s] EXCEPT !.at = "transform_load", !.active = st.map[s],
                                          !.compacting = compacting]]
        \/ /\ call' = [call EXCEPT ![s] = [call[s] EXCEPT !.at = "transform_replay", !.active = st.map[s],
                                             !.compacting = compacting]]
           /\ st.map[s] # NoAttempt
           /\ store' = st
        \/ \E h \in {"unchanged", PlainHistory} : Let(s, h, NoLedger, compacting)
    BY <1>4 DEF Transform
  <2> HIDE DEF compacting, st
  <2>8. CASE call' = [call EXCEPT ![s] = [call[s] EXCEPT !.at = "transform_load",
                         !.active = st.map[s], !.compacting = compacting]]
    <3>1. call'[s].at = "transform_load" /\ call'[s].born = call[s].born
      BY <2>8, <1>s DEF TypeOK, Call
    <3> QED BY <3>1, <2>2, <2>6, <1>p
  <2>9. CASE /\ call' = [call EXCEPT ![s] = [call[s] EXCEPT !.at = "transform_replay",
                            !.active = st.map[s], !.compacting = compacting]]
             /\ st.map[s] # NoAttempt
             /\ store' = st
    <3>1. /\ call'[s].at = "transform_replay" /\ call'[s].born = call[s].born
          /\ call'[s].active = st.map[s]
      BY <2>9, <1>s DEF TypeOK, Call
    <3>2. Fresh(s, st.map[s].ledger)
      BY <2>6, <2>9
    <3>3. HeldFresh(s)' /\ StoredFresh(s)'
      BY <3>1, <3>2, <2>2, <2>9 DEF HeldFresh, StoredFresh, Fresh, SameAttempt
    <3>4. DurableInOrder(s)'
      BY <3>1, <2>2 DEF SessionInv, DurableInOrder
    <3>5. ReplayHoldsAttempt(s)'
      BY <3>1, <2>1, <2>9 DEF ReplayHoldsAttempt
    <3> QED BY <3>1, <3>3, <3>4, <3>5
        DEF SessionInv, LoadedFresh, AutoLoaded, AutoSound, RecoverySound
  <2>10. CASE \E h \in {"unchanged", PlainHistory} : Let(s, h, NoLedger, compacting)
    <3>1. PICK h \in {"unchanged", PlainHistory} : Let(s, h, NoLedger, compacting)
      BY <2>10
    <3>2. h # "recovered"
      BY <3>1 DEF PlainHistory
    <3> QED BY <3>1, <3>2, <2>2, <2>6, <1>l
  <2> QED BY <2>7, <2>8, <2>9, <2>10
<1>5. CASE TransformLoad(s)
  <2>1. /\ call'[s].at = "transform_prior" /\ call'[s].born = call[s].born
        /\ call'[s].loaded = LedgerOf(durable[s], TRUE)
        /\ durable' = durable /\ store' = store /\ call[s].at = "transform_load"
    BY <1>5, <1>s DEF TransformLoad, TypeOK, Call
  <2>2. store'.map[s] # NoAttempt => Fresh(s, store'.map[s].ledger)
    BY <2>1 DEF SessionInv, StoredFresh
  <2> QED BY <2>1, <2>2, <1>f, <1>p
<1>6. CASE TransformRebuilt(s)
  <2> DEFINE a == NewAttempt(call[s].loaded, durable[s].compaction)
  <2>1. a \in Attempt /\ a.ledger = call[s].loaded
    BY <1>n, NewAttemptType DEF TypeOK
  <2>2. /\ store' = Set(store, s, a) /\ durable' = durable
        /\ call' = [call EXCEPT ![s] = [call[s] EXCEPT !.at = "transform_replay", !.active = a]]
    BY <1>6 DEF TransformRebuilt
  <2>3. Fresh(s, call[s].loaded)
    BY <1>6 DEF TransformRebuilt, SessionInv, LoadedFresh
  <2> HIDE DEF a
  <2>4. store'.map[s] \in {a, NoAttempt}
    BY <2>1, <2>2, SetStore DEF TypeOK
  <2>5. /\ call'[s].at = "transform_replay" /\ call'[s].born = call[s].born
        /\ call'[s].active = a
    BY <2>2, <1>s DEF TypeOK, Call
  <2>6. HeldFresh(s)' /\ StoredFresh(s)'
    BY <2>1, <2>2, <2>3, <2>4, <2>5 DEF HeldFresh, StoredFresh, Fresh, SameAttempt
  <2>7. DurableInOrder(s)' /\ ReplayHoldsAttempt(s)'
    BY <2>1, <2>2, <2>5 DEF SessionInv, DurableInOrder, ReplayHoldsAttempt
  <2> QED BY <2>5, <2>6, <2>7 DEF SessionInv, LoadedFresh, AutoLoaded, AutoSound, RecoverySound
<1>7. CASE TransformRecover(s)
  <2>1. /\ Let(s, "recovered", call[s].active.ledger, call[s].compacting)
        /\ durable' = durable /\ call[s].at = "transform_replay"
    BY <1>7 DEF TransformRecover
  <2>2. Fresh(s, call[s].active.ledger) /\ call[s].compacting \in BOOLEAN
    BY <2>1, <1>s DEF SessionInv, HeldFresh, Call
  <2>3. store'.map[s] # NoAttempt => Fresh(s, store'.map[s].ledger)
    <3>1. CASE store.map[s] = NoAttempt
      BY <1>7, <3>1 DEF TransformRecover
    <3>2. CASE store.map[s] # NoAttempt
      <4> DEFINE b == [store.map[s] EXCEPT !.recoveryUserID = TRUE]
      <4>1. store.map[s] \in Attempt
        BY <3>2 DEF TypeOK, Stores
      <4>2. b \in Attempt /\ b.ledger = store.map[s].ledger
        BY <4>1 DEF Attempt
      <4>3. store' = Mutate(store, s, b)
        BY <1>7, <3>2 DEF TransformRecover
      <4>4. Fresh(s, store.map[s].ledger)
        BY <2>1, <3>2 DEF SessionInv, StoredFresh
      <4> HIDE DEF b
      <4>5. store'.map[s] = b
        BY <4>3, MutateAny DEF TypeOK
      <4> QED BY <4>2, <4>4, <4>5
    <3> QED BY <3>1, <3>2
  <2> QED BY <2>1, <2>2, <2>3, <1>l
<1>8. CASE TransformFail(s)
  <2>1. /\ Let(s, "failed", NoLedger, call[s].compacting)
        /\ durable' = durable /\ store'.map[s] = NoAttempt /\ call[s].compacting \in BOOLEAN
    BY <1>8, <1>s, DeleteShrinks DEF TransformFail, TypeOK, Call
  <2> QED BY <2>1, <1>l
\* A text hook that completes a part with the attempt a.
<1>c. ASSUME NEW st \in Stores(Attempt), NEW a \in Attempt, Complete(s, st, a), Goto(s, "stream"),
             Fresh(s, a.ledger), st.map[s] \in {store.map[s], a, NoAttempt},
             call[s].at \in {"text", "text_prior"}
      PROVE  SessionInv(s)'
  <2>1. /\ store'.map[s] = st.map[s] \/ store'.map[s].ledger = a.ledger
        /\ durable'[s] = [durable[s] EXCEPT !.parts = durable'[s].parts]
    BY <1>c, CompleteTypes
  <2>2. store'.map[s] # NoAttempt => Fresh(s, store'.map[s].ledger)
    BY <1>c, <2>1 DEF SessionInv, StoredFresh
  <2> QED BY <1>c, <1>g, <2>1, <2>2
<1>9. CASE TextLoad(s)
  <2> DEFINE st == CleanupExpired(store, now)
             a == st.map[s]
  <2>1. /\ st \in Stores(Attempt) /\ a \in Attempt \cup {NoAttempt}
        /\ a \in {store.map[s], NoAttempt}
    BY LookupTypes
  <2>2. call[s].at = "text"
    BY <1>9 DEF TextLoad
  <2>3. a # NoAttempt => Fresh(s, a.ledger)
    BY <2>1, <2>2 DEF SessionInv, StoredFresh
  <2>4. CASE a = NoAttempt \/ BelongsElsewhere(s, a)
    <3>1. /\ store' = st /\ durable' = durable
          /\ call' = [call EXCEPT ![s] = [call[s] EXCEPT
                        !.at = "text_prior", !.loaded = LedgerOf(durable[s], TRUE)]]
      BY <1>9, <2>4 DEF TextLoad
    <3>2. /\ call'[s].at = "text_prior" /\ call'[s].born = call[s].born
          /\ call'[s].loaded = LedgerOf(durable[s], TRUE)
      BY <3>1, <1>s DEF TypeOK, Call
    <3> QED BY <3>1, <3>2, <2>3, <1>f, <1>p
  <2>5. CASE ~(a = NoAttempt \/ BelongsElsewhere(s, a))
    <3>1. Complete(s, st, a) /\ Goto(s, "stream")
      BY <1>9, <2>5 DEF TextLoad
    <3> QED BY <3>1, <2>1, <2>2, <2>3, <2>5, <1>c
  <2> QED BY <2>4, <2>5
<1>10. CASE TextRebuilt(s)
  <2> DEFINE a == NewAttempt(call[s].loaded, durable[s].compaction)
             st == Set(store, s, a)
  <2>1. a \in Attempt /\ a.ledger = call[s].loaded
    BY <1>n, NewAttemptType DEF TypeOK
  <2>2. /\ Complete(s, st, a) /\ Goto(s, "stream")
        /\ call[s].at = "text_prior"
    BY <1>10 DEF TextRebuilt
  <2>3. Fresh(s, a.ledger)
    BY <2>1, <2>2 DEF SessionInv, LoadedFresh
  <2> HIDE DEF a
  <2>4. st \in Stores(Attempt) /\ st.map[s] \in {a, NoAttempt}
    BY <2>1, SetStore DEF TypeOK
  <2> HIDE DEF st
  <2> QED BY <2>1, <2>2, <2>3, <2>4, <1>c
<1>11. CASE TextFail(s)
  <2> DEFINE st == CleanupExpired(store, now)
             a == st.map[s]
  <2>1. /\ st \in Stores(Attempt) /\ a \in Attempt \cup {NoAttempt}
        /\ a \in {store.map[s], NoAttempt}
    BY LookupTypes
  <2>2. PICK bound \in BOOLEAN :
          store' = IF a = NoAttempt THEN st
                   ELSE Mutate(st, s, [a EXCEPT
                          !.summaryMessageID = durable[s].compaction, !.validation = "invalid",
                          !.textPartID = IF bound THEN Part(s) ELSE @])
    BY <1>11 DEF TextFail
  <2>3. call[s].at \in {"text", "text_prior"} /\ Goto(s, "stream")
    BY <1>11 DEF TextFail
  <2>4. a # NoAttempt => Fresh(s, a.ledger)
    BY <2>1, <2>3 DEF SessionInv, StoredFresh
  <2>5. durable'[s] = [durable[s] EXCEPT !.parts = durable'[s].parts]
    <3>1. durable'[s] = [durable[s] EXCEPT !.parts = Append(durable[s].parts, call[s].raw)]
      BY <1>11 DEF TextFail, StoreText, TypeOK
    <3>2. durable'[s].parts = Append(durable[s].parts, call[s].raw)
      BY <3>1, <1>s DEF Durable
    <3> QED BY <3>1, <3>2
  <2> HIDE DEF st, a
  <2>6. store'.map[s] # NoAttempt => Fresh(s, store'.map[s].ledger)
    <3>1. CASE a = NoAttempt
      BY <2>2, <3>1 DEF a
    <3>2. CASE a # NoAttempt
      <4> DEFINE b == [a EXCEPT !.summaryMessageID = durable[s].compaction,
                                !.validation = "invalid",
                                !.textPartID = IF bound THEN Part(s) ELSE @]
      <4>1. a \in Attempt
        BY <2>1, <3>2
      <4>2. b.ledger = a.ledger
        BY <4>1 DEF Attempt
      <4>3. store' = Mutate(st, s, b)
        BY <2>2, <3>2
      <4> HIDE DEF b
      <4>4. store'.map[s] = b
        BY <4>3, MutateAny, <2>1
      <4> QED BY <2>4, <3>2, <4>2, <4>4
    <3> QED BY <3>1, <3>2
  <2> QED BY <1>g, <2>3, <2>5, <2>6
<1>12. CASE AutoLoad(s)
  <2>1. CASE /\ Valid(durable[s].parts)
             /\ call' = [call EXCEPT ![s] = [call[s] EXCEPT !.at = "auto_prior", !.active = NoAttempt,
                                               !.loaded = LedgerOf(durable[s], TRUE)]]
             /\ UNCHANGED store
    <3>1. /\ call'[s].at = "auto_prior" /\ call'[s].born = call[s].born
          /\ call'[s].loaded = LedgerOf(durable[s], TRUE)
          /\ durable' = durable /\ store' = store /\ call[s].at = "auto"
      BY <1>12, <2>1, <1>s DEF AutoLoad, TypeOK, Call
    <3>2. call'[s].loaded.prior = durable[s].prior
      BY <3>1, <1>s, LedgerOfType
    <3>3. LoadedFresh(s)' /\ StoredFresh(s)'
      BY <3>1, <1>f DEF SessionInv, LoadedFresh, StoredFresh, Fresh
    <3>4. AutoLoaded(s)' /\ DurableInOrder(s)'
      BY <3>1, <3>2, <2>1 DEF SessionInv, AutoLoaded, DurableInOrder
    <3> QED BY <3>1, <3>3, <3>4 DEF SessionInv, ReplayHoldsAttempt, HeldFresh, AutoSound, RecoverySound
  <2>2. CASE Goto(s, "verdict") /\ store' = Delete(store, s)
    <3>1. store'.map[s] = NoAttempt /\ durable' = durable
      BY <1>12, <2>2, DeleteShrinks DEF AutoLoad, TypeOK
    <3>2. durable'[s] = [durable[s] EXCEPT !.parts = durable'[s].parts]
      BY <3>1, <1>s DEF Durable
    <3> QED BY <1>g, <2>2, <3>1, <3>2
  <2> QED BY <1>12, <2>1, <2>2 DEF AutoLoad
<1>13. CASE AutoRebuilt(s)
  <2> DEFINE b == SummaryLedger(durable[s].parts) = call[s].loaded
  <2>1. /\ call' = [call EXCEPT ![s] = [call[s] EXCEPT !.at = "verdict", !.enabled = b]]
        /\ durable' = durable /\ store' = Delete(store, s) /\ call[s].at = "auto_prior"
    BY <1>13 DEF AutoRebuilt
  <2> HIDE DEF b
  <2>2. call'[s].at = "verdict" /\ call'[s].born = call[s].born /\ call'[s].enabled = b
    BY <2>1, <1>s DEF TypeOK, Call
  <2>3. store'.map[s] = NoAttempt
    BY <2>1, DeleteShrinks DEF TypeOK
  <2>4. /\ Valid(durable[s].parts)
        /\ call[s].loaded.prior = durable[s].prior
        /\ call[s].loaded.revision >= call[s].born.revision
    BY <2>1 DEF SessionInv, AutoLoaded, LoadedFresh, Fresh
  <2>5. b => SummaryLedger(durable[s].parts) = call[s].loaded
    BY DEF b
  <2>6. AutoSound(s)'
    BY <2>1, <2>2, <2>4, <2>5 DEF AutoSound
  <2>7. StoredFresh(s)' /\ DurableInOrder(s)'
    BY <2>1, <2>2, <2>3 DEF SessionInv, StoredFresh, DurableInOrder
  <2> QED BY <2>2, <2>6, <2>7
      DEF SessionInv, ReplayHoldsAttempt, LoadedFresh, AutoLoaded, HeldFresh, RecoverySound
<1>14. CASE AutoFail(s)
  <2>1. Goto(s, "verdict") /\ store'.map[s] = NoAttempt /\ durable' = durable
    BY <1>14, DeleteShrinks DEF AutoFail, TypeOK
  <2>2. durable'[s] = [durable[s] EXCEPT !.parts = durable'[s].parts]
    BY <2>1, <1>s DEF Durable
  <2> QED BY <1>g, <2>1, <2>2
<1>15. CASE AutoStart(s)
  <2>1. /\ store'.map[s] \in {store.map[s], NoAttempt} /\ durable' = durable
        /\ call' = [call EXCEPT ![s] = [call[s] EXCEPT !.at = "auto", !.active = store'.map[s]]]
        /\ call[s].at = "stream"
    BY <1>15, LookupTypes DEF AutoStart, HostAt
  <2>2. call'[s].at = "auto" /\ call'[s].born = call[s].born
    BY <2>1, <1>s DEF TypeOK, Call
  <2>3. DurableInOrder(s)' /\ StoredFresh(s)'
    BY <2>1, <2>2 DEF SessionInv, DurableInOrder, StoredFresh, Fresh
  <2> QED BY <2>2, <2>3
      DEF SessionInv, ReplayHoldsAttempt, LoadedFresh, AutoLoaded, HeldFresh, AutoSound, RecoverySound
<1>16. CASE TextUnfit(s)
  <2>1. /\ store' = Set(store, s, UnfitAttempt(s)) /\ Goto(s, "stream")
        /\ call[s].at = "text_prior" /\ StoreText(s, call[s].raw)
    BY <1>16 DEF TextUnfit
  <2>2. /\ UnfitAttempt(s) \in Attempt /\ UnfitAttempt(s).ledger = call[s].loaded
        /\ store'.map[s] \in {UnfitAttempt(s), NoAttempt}
    <3>1. call[s].loaded \in Ledger /\ durable[s].compaction \in Nat /\ Part(s) \in Nat
      BY <1>s DEF Call, Durable, Part
    <3>2. UnfitAttempt(s) \in Attempt /\ UnfitAttempt(s).ledger = call[s].loaded
      BY <3>1, UnfitType DEF TypeOK
    <3> QED BY <2>1, <3>2, SetStore DEF TypeOK
  <2>3. store'.map[s] # NoAttempt => Fresh(s, store'.map[s].ledger)
    BY <2>1, <2>2 DEF SessionInv, LoadedFresh
  <2>4. durable'[s] = [durable[s] EXCEPT !.parts = durable'[s].parts]
    <3>1. durable'[s] = [durable[s] EXCEPT !.parts = Append(durable[s].parts, call[s].raw)]
      BY <2>1 DEF StoreText, TypeOK
    <3>2. durable'[s].parts = Append(durable[s].parts, call[s].raw)
      BY <3>1, <1>s DEF Durable
    <3> QED BY <3>1, <3>2
  <2> QED BY <1>g, <2>1, <2>3, <2>4
<1> QED
  BY <1>1, <1>2, <1>3, <1>4, <1>5, <1>6, <1>7, <1>8, <1>9, <1>10, <1>11, <1>12, <1>13, <1>14,
     <1>15, <1>16
  DEF HookStep

----------------------------------------------------------------------------
(* The other sessions *)

LEMMA HostLeavesOthers ==
    ASSUME TypeOK, NEW s \in Sessions, HostStep(s), NEW t \in Sessions \ {s}
    PROVE  /\ call'[t] = call[t] /\ durable'[t] = durable[t] /\ sent'[t] = sent[t]
           /\ KeepsAttempt(t)
<1>1. store' = store
  BY DEF HostStep, Prompt, HistoryMoves, BeginCompaction, FinishTurn, FailTurn, WriteSummary,
         CancelCompaction, StreamText, FinishSummary, FailSummary, ActOnVerdict, DeleteSession
<1>2. KeepsAttempt(t)
  BY <1>1 DEF KeepsAttempt, SameAttempt
<1>3. call'[t] = call[t]
  BY DEF TypeOK, HostStep, Prompt, HistoryMoves, BeginCompaction, FinishTurn, FailTurn, WriteSummary,
         CancelCompaction, StreamText, FinishSummary, FailSummary, ActOnVerdict, DeleteSession, Goto
<1>4. durable'[t] = durable[t] /\ sent'[t] = sent[t]
  BY DEF TypeOK, HostStep, Prompt, HistoryMoves, BeginCompaction, FinishTurn, FailTurn, WriteSummary,
         CancelCompaction, StreamText, FinishSummary, FailSummary, ActOnVerdict, DeleteSession
<1> QED BY <1>2, <1>3, <1>4

LEMMA HookLeavesOthers ==
    ASSUME TypeOK, NEW s \in Sessions, SessionInv(s), HookStep(s), NEW t \in Sessions \ {s}
    PROVE  /\ call'[t] = call[t] /\ durable'[t] = durable[t] /\ sent'[t] = sent[t]
           /\ KeepsAttempt(t)
<1> DEFINE Spared == store'.map[t] \in {store.map[t], NoAttempt}
<1>s. /\ durable[s].compaction \in Nat /\ call[s].loaded \in Ledger
      /\ CleanupExpired(store, now) \in Stores(Attempt)
      /\ CleanupExpired(store, now).map[s] \in Attempt \cup {NoAttempt}
      /\ CleanupExpired(store, now).map[t] \in {store.map[t], NoAttempt}
      /\ Delete(store, s).map[t] \in {store.map[t], NoAttempt}
      /\ Delete(CleanupExpired(store, now), s).map[t] \in {store.map[t], NoAttempt}
  BY LookupTypes DEF TypeOK, Durable, Call, Shrinks
<1>m. ASSUME NEW st \in Stores(Attempt), NEW a PROVE Mutate(st, s, a).map[t] = st.map[t]
  BY DEF Mutate, Stores
<1>a. /\ NewAttempt(call[s].loaded, 0) \in Attempt
      /\ NewAttempt(call[s].loaded, durable[s].compaction) \in Attempt
  BY <1>s, NewAttemptType DEF TypeOK
<1>c. ASSUME NEW st \in Stores(Attempt), NEW a \in Attempt, Complete(s, st, a),
             st.map[t] \in {store.map[t], NoAttempt}
      PROVE  Spared /\ durable'[t] = durable[t]
  BY <1>c, CompleteTypes, ZenonT(30)
<1>1. CASE CompactingLoad(s) \/ TransformLoad(s) \/ AutoStart(s) \/ AutoRebuilt(s) \/ AutoLoad(s)
  <2>1. Spared
    BY <1>1, <1>s DEF CompactingLoad, TransformLoad, AutoStart, AutoRebuilt, AutoLoad
  <2> QED BY <1>1, <2>1 DEF KeepsAttempt, SameAttempt, CompactingLoad, TransformLoad, AutoStart,
                            AutoRebuilt, AutoLoad, Goto, TypeOK
<1>2. CASE CompactingStore(s)
  <2>1. Spared
    BY <1>2, <1>a, SetStore DEF CompactingStore, TypeOK
  <2> QED BY <1>2, <2>1 DEF KeepsAttempt, SameAttempt, CompactingStore, Goto, TypeOK
<1>3. CASE CompactingFail(s) \/ TransformFail(s) \/ AutoFail(s)
  <2>1. Spared
    BY <1>3, <1>s DEF CompactingFail, TransformFail, AutoFail
  <2> QED BY <1>3, <2>1 DEF KeepsAttempt, SameAttempt, CompactingFail, TransformFail, AutoFail,
                            Let, Goto, TypeOK
<1>4. CASE Transform(s)
  <2>1. Spared
    BY <1>4, <1>s DEF Transform
  <2>2. call'[t] = call[t] /\ sent'[t] = sent[t]
    BY <1>4 DEF Transform, Let, Goto, TypeOK
  <2> QED BY <1>4, <2>1, <2>2 DEF KeepsAttempt, SameAttempt, Transform, TypeOK
<1>5. CASE TransformRebuilt(s)
  <2>1. Spared
    BY <1>5, <1>a, SetStore DEF TransformRebuilt, TypeOK
  <2> QED BY <1>5, <2>1 DEF KeepsAttempt, SameAttempt, TransformRebuilt, TypeOK
<1>6. CASE TransformRecover(s)
  <2>1. Spared
    BY <1>6, <1>m DEF TransformRecover, TypeOK
  <2> QED BY <1>6, <2>1 DEF KeepsAttempt, SameAttempt, TransformRecover, Let, Goto, TypeOK
<1>7. CASE TextLoad(s)
  <2>1. Spared /\ durable'[t] = durable[t]
    BY <1>7, <1>s, <1>c DEF TextLoad
  <2> QED BY <1>7, <2>1 DEF KeepsAttempt, SameAttempt, TextLoad, Goto, TypeOK
<1>8. CASE TextRebuilt(s)
  <2> DEFINE a == NewAttempt(call[s].loaded, durable[s].compaction)
  <2>1. Complete(s, Set(store, s, a), a)
    BY <1>8 DEF TextRebuilt
  <2>2. Set(store, s, a) \in Stores(Attempt) /\ Set(store, s, a).map[t] \in {store.map[t], NoAttempt}
    BY <1>a, SetStore DEF TypeOK
  <2>3. Spared /\ durable'[t] = durable[t]
    BY <2>1, <2>2, <1>a, <1>c
  <2> QED BY <1>8, <2>3 DEF KeepsAttempt, SameAttempt, TextRebuilt, Goto, TypeOK
<1>9. CASE TextFail(s)
  <2>1. Spared
    BY <1>9, <1>s, <1>m DEF TextFail
  <2>2. durable'[t] = durable[t] /\ call'[t] = call[t]
    BY <1>9 DEF TextFail, StoreText, Goto, TypeOK
  <2> QED BY <1>9, <2>1, <2>2 DEF KeepsAttempt, SameAttempt, TextFail
<1>10. CASE TextUnfit(s)
  <2>1. UnfitAttempt(s) \in Attempt
    BY <1>s, UnfitType DEF TypeOK, Durable, Part
  <2>2. Spared
    BY <1>10, <2>1, SetStore DEF TextUnfit, TypeOK
  <2>3. durable'[t] = durable[t] /\ call'[t] = call[t]
    BY <1>10 DEF TextUnfit, StoreText, Goto, TypeOK
  <2> QED BY <1>10, <2>2, <2>3 DEF KeepsAttempt, SameAttempt, TextUnfit
<1> QED
  BY <1>1, <1>2, <1>3, <1>4, <1>5, <1>6, <1>7, <1>8, <1>9, <1>10 DEF HookStep

----------------------------------------------------------------------------
(* The steps that are no session's own *)

\* An event changes attempts of its session only, and never their ledgers.
LEMMA EventKeeps ==
    ASSUME HooksInv, NEW s \in Sessions, DeliverEvent(s)
    PROVE  HooksInv'
<1> DEFINE st == CleanupExpired(store, now)
           a == st.map[s]
           b == [a EXCEPT !.recoveryComplete = TRUE]
<1>1. TypeOK
  BY DEF HooksInv
<1>2. /\ st \in Stores(Attempt) /\ a \in Attempt \cup {NoAttempt}
      /\ Shrinks(Attempt, store, st) /\ Shrinks(Attempt, store, Delete(st, s)) /\ Shrinks(Attempt, store, Delete(store, s))
  BY <1>1, LookupTypes
<1>3. \/ store' \in {Delete(st, s), Delete(store, s)}
      \/ a # NoAttempt /\ store' = Mutate(st, s, b)
  BY DEF DeliverEvent, AfterIdle
<1>4. a # NoAttempt => b \in Attempt /\ SameAttempt(b, a)
  BY <1>2 DEF Attempt, SameAttempt
<1> HIDE DEF st, a, b
<1>5. store' \in Stores(Attempt)
  <2>1. CASE store' \in {Delete(st, s), Delete(store, s)}
    BY <1>2, <2>1 DEF Shrinks
  <2>2. CASE a # NoAttempt /\ store' = Mutate(st, s, b)
    BY <1>2, <1>4, <2>2, MutateStore
  <2> QED BY <1>3, <2>1, <2>2
<1>6. ASSUME NEW t \in Sessions PROVE KeepsAttempt(t)
  <2>1. CASE store' \in {Delete(st, s), Delete(store, s)}
    BY <1>2, <2>1 DEF KeepsAttempt, SameAttempt, Shrinks
  <2>2. CASE a # NoAttempt /\ store' = Mutate(st, s, b)
    <3>1. store'.map = [st.map EXCEPT ![s] = b]
      BY <1>2, <1>4, <2>2, MutateStore
    <3>2. store'.map[t] = IF t = s THEN b ELSE st.map[t]
      BY <1>2, <3>1 DEF Stores
    <3>3. a \in {store.map[s], NoAttempt} /\ st.map[t] \in {store.map[t], NoAttempt}
      BY <1>2 DEF Shrinks, a
    <3> QED BY <1>4, <2>2, <3>2, <3>3 DEF KeepsAttempt, SameAttempt
  <2> QED BY <1>3, <2>1, <2>2
<1>7. /\ UNCHANGED <<now, durable, call, sent, recovered, restarts>>
      /\ events' = [events EXCEPT ![s] = Tail(@)] /\ events[s] # <<>>
  BY DEF DeliverEvent
<1>8. events' \in [Sessions -> Seq(Event)]
  <2>1. Tail(events[s]) \in Seq(Event)
    BY <1>1, <1>7 DEF TypeOK
  <2> QED BY <1>1, <1>7, <2>1 DEF TypeOK
<1>9. TypeOK'
  BY <1>1, <1>5, <1>7, <1>8 DEF TypeOK
<1>10. \A t \in Sessions : SessionInv(t)'
  BY <1>1, <1>6, <1>7, Frame DEF HooksInv
<1> QED BY <1>9, <1>10 DEF HooksInv

LEMMA RestartKeeps ==
    ASSUME HooksInv, Restart
    PROVE  HooksInv'
<1>1. TypeOK'
  <2>1. call' \in [Sessions -> Call]
    BY ValueTypes DEF Restart, HooksInv, TypeOK
  <2> QED BY <2>1, ValueTypes DEF Restart, HooksInv, TypeOK, Recovered
<1>2. ASSUME NEW s \in Sessions PROVE SessionInv(s)'
  <2>1. /\ durable'[s] = durable[s] /\ store'.map[s] = NoAttempt
        /\ sent'[s].history = "unchanged"
    BY DEF Restart, EmptyStore, NothingSent
  <2>2. \/ call'[s].at = "gone" /\ call'[s].born = call[s].born
        \/ call'[s].at = "idle" /\ call'[s].born.revision = 0
    BY DEF Restart, IdleCall, NoLedger
  <2>3. durable[s].revision \in Nat
    BY DEF HooksInv, TypeOK, Durable
  <2>4. DurableInOrder(s)'
    BY <2>1, <2>2, <2>3 DEF HooksInv, SessionInv, DurableInOrder
  <2> QED BY <2>1, <2>2, <2>4
      DEF SessionInv, ReplayHoldsAttempt, LoadedFresh, AutoLoaded, StoredFresh, HeldFresh,
          AutoSound, RecoverySound
<1> QED BY <1>1, <1>2 DEF HooksInv

----------------------------------------------------------------------------
(* The theorems *)

LEMMA InitInv == Init => HooksInv
<1> SUFFICES ASSUME Init PROVE HooksInv
  OBVIOUS
<1>1. TypeOK
  BY ValueTypes DEF Init, TypeOK, Recovered
<1>2. ASSUME NEW s \in Sessions PROVE SessionInv(s)
  BY <1>2 DEF Init, IdleCall, EmptySession, EmptyStore, NothingSent, NoLedger, SessionInv,
      ReplayHoldsAttempt, DurableInOrder, LoadedFresh, AutoLoaded, StoredFresh, HeldFresh,
      AutoSound, RecoverySound
<1> QED BY <1>1, <1>2 DEF HooksInv

LEMMA NextInv == HooksInv /\ [Next]_vars => HooksInv'
<1> SUFFICES ASSUME HooksInv, [Next]_vars PROVE HooksInv'
  OBVIOUS
<1>1. ASSUME NEW s \in Sessions, HostStep(s) PROVE HooksInv'
  <2>1. TypeOK'
    BY <1>1, HostTypes DEF HooksInv
  <2>2. SessionInv(s)'
    BY <1>1, <2>1, HostMoves DEF HooksInv
  <2>3. ASSUME NEW t \in Sessions \ {s} PROVE SessionInv(t)'
    BY <1>1, HostLeavesOthers, Frame DEF HooksInv
  <2> QED BY <2>1, <2>2, <2>3 DEF HooksInv
<1>2. ASSUME NEW s \in Sessions, HookStep(s) PROVE HooksInv'
  <2>1. TypeOK'
    BY <1>2, HookTypes DEF HooksInv, SessionInv
  <2>2. SessionInv(s)'
    BY <1>2, <2>1, HookMoves DEF HooksInv
  <2>3. ASSUME NEW t \in Sessions \ {s} PROVE SessionInv(t)'
    BY <1>2, HookLeavesOthers, Frame DEF HooksInv
  <2> QED BY <2>1, <2>2, <2>3 DEF HooksInv
<1>3. ASSUME NEW s \in Sessions, DeliverEvent(s) PROVE HooksInv'
  BY <1>3, EventKeeps
<1>4. CASE DeliverOtherEvent
  <2>1. Shrinks(Attempt, store, store')
    BY <1>4, CleanupShrinks DEF DeliverOtherEvent, HooksInv, TypeOK
  <2>2. TypeOK'
    BY <1>4, <2>1 DEF DeliverOtherEvent, HooksInv, TypeOK, Shrinks
  <2>3. ASSUME NEW t \in Sessions PROVE SessionInv(t)'
    BY <1>4, <2>1, Frame DEF DeliverOtherEvent, HooksInv, KeepsAttempt, SameAttempt, Shrinks
  <2> QED BY <2>2, <2>3 DEF HooksInv
<1>5. CASE Tick \/ UNCHANGED vars
  <2>1. UNCHANGED <<store, durable, call, sent>>
    BY <1>5 DEF Tick, vars
  <2>2. TypeOK'
    BY <1>5 DEF Tick, vars, HooksInv, TypeOK
  <2>3. ASSUME NEW t \in Sessions PROVE SessionInv(t)'
    BY <2>1, Frame DEF HooksInv, KeepsAttempt, SameAttempt
  <2> QED BY <2>2, <2>3 DEF HooksInv
<1>6. CASE Restart
  BY <1>6, RestartKeeps
<1> QED
  BY <1>1, <1>2, <1>3, <1>4, <1>5, <1>6 DEF Next

THEOREM HooksInvariant == Spec => []HooksInv
BY InitInv, NextInv, PTL DEF Spec

\* Every variable of the hooks keeps its type; the proof needs that a transform which
\* awaits isOverflowReplay holds an attempt (server.ts:222-261).
THEOREM TypeCorrect == Spec => []TypeOK
<1>1. HooksInv => TypeOK
  BY DEF HooksInv
<1> QED BY <1>1, HooksInvariant, PTL

\* The attempt object that a transform holds over an await is the stored one, or
\* nothing is stored (server.ts:222-261).
THEOREM HeldAttempt == Spec => []HeldAttemptIsStored
<1>1. HooksInv => HeldAttemptIsStored
  BY DEF HooksInv, SessionInv, HeldFresh, SameAttempt, HeldAttemptIsStored
<1> QED BY <1>1, HooksInvariant, PTL

\* Auto-continuation fails closed (server.ts:372-403): it is enabled only on a single
\* plugin summary whose ledger is not older than its compaction and chains the one before.
THEOREM ContinuationSound == Spec => []AutoContinueSound
<1>1. HooksInv => AutoContinueSound
  BY DEF HooksInv, SessionInv, AutoSound, AutoContinueSound
<1> QED BY <1>1, HooksInvariant, PTL

\* Recovery context is never that of an earlier compaction (server.ts:215-261).
THEOREM RecoveryFresh == Spec => []RecoveryLedgerFresh
<1>1. HooksInv => RecoveryLedgerFresh
  BY DEF HooksInv, SessionInv, RecoverySound, Fresh, RecoveryLedgerFresh
<1> QED BY <1>1, HooksInvariant, PTL

----------------------------------------------------------------------------
(* Sessions do not disturb each other's attempts *)

\* What one hook or event of s may do to the store before its next await: clean up or
\* set, and then delete or assign to the attempt of s.
StoreCall(s) ==
    \/ store' \in {Delete(store, s), Delete(CleanupExpired(store, now), s)}
    \/ \E base \in {store, CleanupExpired(store, now)} \cup
                   {Set(store, s, a) : a \in {b \in Attempt : b.createdAt = now}} :
         \/ store' = base
         \/ base.map[s] # NoAttempt /\ \E b \in Attempt : store' = Mutate(base, s, b)

\* What a step of another session may do to the attempt of t.
Spared(t) ==
    store'.map[t] # store.map[t] =>
        /\ store'.map[t] = NoAttempt
        /\ Expired(store.map[t], now) \/ Cardinality(Live(store')) >= MaxAttempts

LEMMA StoreCallManaged ==
    ASSUME Managed(Attempt, store), NEW s \in Sessions, StoreCall(s)
    PROVE  /\ Managed(Attempt, store')
           /\ \A t \in Sessions \ {s} : Spared(t)
<1> DEFINE Loses(st, t) ==
      st.map[t] # store.map[t] =>
        /\ st.map[t] = NoAttempt
        /\ Expired(store.map[t], now) \/ Cardinality(Live(st)) >= MaxAttempts
           Bases == {store, CleanupExpired(store, now)} \cup
                    {Set(store, s, a) : a \in {b \in Attempt : b.createdAt = now}}
<1>1. CASE store' \in {Delete(store, s), Delete(CleanupExpired(store, now), s)}
  <2>1. CASE store' = Delete(store, s)
    BY <2>1, DeleteManaged DEF Spared
  <2>2. CASE store' = Delete(CleanupExpired(store, now), s)
    <3>1. Managed(Attempt, store')
      BY <2>2, CleanupManaged, DeleteManaged
    <3>2. \A t \in Sessions \ {s} : store'.map[t] = CleanupExpired(store, now).map[t]
      BY <2>2, CleanupManaged, DeleteManaged
    <3> QED BY <3>1, <3>2, CleanupManaged DEF Spared
  <2> QED BY <1>1, <2>1, <2>2
<1>2. ASSUME NEW base \in Bases
      PROVE  Managed(Attempt, base) /\ \A t \in Sessions \ {s} : Loses(base, t)
  <2>1. CASE base = store
    BY <2>1
  <2>2. CASE base = CleanupExpired(store, now)
    BY <2>2, CleanupManaged
  <2>3. ASSUME NEW a \in Attempt, a.createdAt = now, base = Set(store, s, a)
        PROVE  Managed(Attempt, base) /\ \A t \in Sessions \ {s} : Loses(base, t)
    BY <2>3, SetManaged, AttemptAssumption
  <2> QED BY <1>2, <2>1, <2>2, <2>3
<1>3. ASSUME NEW base \in Bases, store' = base
      PROVE  Managed(Attempt, store') /\ \A t \in Sessions \ {s} : Spared(t)
  BY <1>2, <1>3 DEF Spared
<1>4. ASSUME NEW base \in Bases, NEW b \in Attempt, base.map[s] # NoAttempt, store' = Mutate(base, s, b)
      PROVE  Managed(Attempt, store') /\ \A t \in Sessions \ {s} : Spared(t)
  <2>1. /\ Managed(Attempt, store') /\ Live(store') = Live(base)
        /\ \A t \in Sessions \ {s} : store'.map[t] = base.map[t]
    BY <1>2, <1>4, MutateManaged, AttemptAssumption
  <2> QED BY <1>2, <2>1 DEF Spared
<1> HIDE DEF Bases
<1>5. \/ store' \in {Delete(store, s), Delete(CleanupExpired(store, now), s)}
      \/ \E base \in Bases :
           \/ store' = base
           \/ base.map[s] # NoAttempt /\ \E b \in Attempt : store' = Mutate(base, s, b)
  BY DEF StoreCall, Bases
<1> QED BY <1>1, <1>3, <1>4, <1>5

\* A hook moves its session's call, whatever it does to the store.
LEMMA HookStores ==
    ASSUME TypeOK, NEW s \in Sessions, HookStep(s)
    PROVE  StoreCall(s) /\ call'[s] # call[s]
<1> DEFINE st == CleanupExpired(store, now)
<1>t. /\ call[s].loaded \in Ledger /\ durable[s].compaction \in Nat /\ Part(s) \in Nat
      /\ store.map[s] \in Attempt \cup {NoAttempt}
      /\ st.map[s] \in Attempt \cup {NoAttempt}
  <2>1. call[s] \in Call /\ durable[s] \in Durable /\ store \in Stores(Attempt)
    BY DEF TypeOK
  <2>2. call[s].loaded \in Ledger /\ durable[s].compaction \in Nat /\ Part(s) \in Nat
    BY <2>1 DEF Call, Durable, Part
  <2>3. store.map[s] \in Attempt \cup {NoAttempt}
    BY <2>1 DEF Stores
  <2> QED BY <2>2, <2>3, LookupTypes
<1>u. ASSUME NEW p, NEW l, NEW a, NEW b,
             \/ call' = [call EXCEPT ![s].at = p, ![s].loaded = l]
             \/ call' = [call EXCEPT ![s].at = p, ![s].active = a]
             \/ call' = [call EXCEPT ![s].at = p, ![s].active = a, ![s].compacting = b]
             \/ call' = [call EXCEPT ![s].at = p, ![s].active = a, ![s].loaded = l]
             \/ call' = [call EXCEPT ![s].at = p, ![s].enabled = b]
      PROVE  call'[s].at = p
  BY <1>u DEF TypeOK, Call
<1>g. ASSUME NEW p \in HostPoints, Goto(s, p) PROVE call'[s].at = p
  BY <1>g DEF Goto, TypeOK, IdleCall
<1>n. ASSUME NEW n \in Nat
      PROVE  LET a == NewAttempt(call[s].loaded, n) IN a \in Attempt /\ a.createdAt = now
  BY <1>t, NewAttemptType DEF TypeOK, NewAttempt
<1>c. ASSUME NEW a \in Attempt, NEW base, Complete(s, base, a)
      PROVE  store' = base \/ \E b \in Attempt : store' = Mutate(base, s, b)
  <2>1. [a EXCEPT !.textPartID = Part(s), !.summaryMessageID = durable[s].compaction,
                  !.validation = Judge(call[s].raw, a.ledger)] \in Attempt
    <3>1. Judge(call[s].raw, a.ledger) \in Validation
      BY DEF Judge, Validation
    <3> QED BY <3>1, <1>t, AttemptUpdates
  <2> QED BY <1>c, <2>1 DEF Complete
<1>1. CASE CompactingLoad(s) \/ TransformLoad(s)
  <2>1. call[s].at \in {"compacting", "transform_load"}
        /\ call'[s].at \in {"compacting_prior", "transform_prior"}
    BY <1>1, <1>u DEF CompactingLoad, TransformLoad
  <2> QED BY <1>1, <2>1 DEF CompactingLoad, TransformLoad, StoreCall
<1>2. CASE CompactingStore(s)
  <2>1. call'[s].at = "request"
    BY <1>2, <1>g DEF CompactingStore, HostPoints
  <2> QED BY <1>2, <2>1, <1>n DEF CompactingStore, StoreCall
<1>3. CASE CompactingFail(s)
  <2>1. call'[s].at = "request"
    BY <1>3, <1>g DEF CompactingFail, HostPoints
  <2> QED BY <1>3, <2>1 DEF CompactingFail, StoreCall
<1>4. CASE Transform(s)
  <2>1. store' \in {st, Delete(st, s)}
    BY <1>4 DEF Transform
  <2>2. call[s].at \in {"turn", "request"} /\ call'[s].at \notin {"turn", "request"}
    <3>1. call[s].at \in {"turn", "request"}
      BY <1>4 DEF Transform, HostAt
    <3> DEFINE compacting == call[s].at = "request"
    <3> HIDE DEF compacting, st
    <3>2. \/ \E b \in BOOLEAN : Goto(s, AfterTransform(b))
          \/ call'[s].at \in {"transform_load", "transform_replay"}
      <4>1. \/ \E p \in {"transform_load", "transform_replay"} :
                 call' = [call EXCEPT ![s].at = p, ![s].active = st.map[s],
                                      ![s].compacting = compacting]
            \/ Goto(s, AfterTransform(compacting))
        BY <1>4 DEF Transform, Let, st, compacting
      <4>2. compacting \in BOOLEAN
        BY DEF compacting
      <4>3. ASSUME NEW p \in {"transform_load", "transform_replay"},
                   call' = [call EXCEPT ![s].at = p, ![s].active = st.map[s],
                                        ![s].compacting = compacting]
            PROVE  call'[s].at = p
        BY <4>3, <1>u
      <4> QED BY <4>1, <4>2, <4>3
    <3>3. \A b \in BOOLEAN : AfterTransform(b) \in {"summary", "model"}
      BY DEF AfterTransform
    <3> QED BY <3>1, <3>2, <3>3, <1>g DEF HostPoints
  <2> QED BY <2>1, <2>2 DEF StoreCall
<1>5. CASE TransformRebuilt(s)
  <2>1. call'[s].at = "transform_replay"
    BY <1>5 DEF TransformRebuilt, TypeOK
  <2> QED BY <1>5, <2>1, <1>n, <1>t DEF TransformRebuilt, StoreCall
<1>6. CASE TransformRecover(s) \/ TransformFail(s)
  <2>1. /\ \E b \in BOOLEAN : Goto(s, AfterTransform(b))
        /\ call[s].at \in {"transform_load", "transform_prior", "transform_replay"}
    BY <1>6 DEF TransformRecover, TransformFail, Let, TypeOK, Call
  <2>2. \A b \in BOOLEAN : AfterTransform(b) \in {"summary", "model"}
    BY DEF AfterTransform
  <2>3. call'[s] # call[s]
    BY <2>1, <2>2, <1>g DEF HostPoints
  <2>4. CASE TransformFail(s)
    BY <2>3, <2>4 DEF TransformFail, StoreCall
  <2>5. CASE TransformRecover(s)
    <3>1. store.map[s] # NoAttempt => [store.map[s] EXCEPT !.recoveryUserID = TRUE] \in Attempt
      BY <1>t DEF Attempt
    <3> QED BY <2>3, <2>5, <3>1 DEF TransformRecover, StoreCall
  <2> QED BY <1>6, <2>4, <2>5
<1>7. CASE TextLoad(s)
  <2>1. call[s].at = "text" /\ call'[s].at \in {"text_prior", "stream"}
    <3>1. /\ call[s].at = "text"
          /\ \/ call' = [call EXCEPT ![s].at = "text_prior", ![s].loaded = LedgerOf(durable[s], TRUE)]
             \/ Goto(s, "stream")
      BY <1>7 DEF TextLoad
    <3>2. Goto(s, "stream") => call'[s].at = "stream"
      BY <1>g DEF HostPoints
    <3>3. call' = [call EXCEPT ![s].at = "text_prior", ![s].loaded = LedgerOf(durable[s], TRUE)]
            => call'[s].at = "text_prior"
      BY <1>u
    <3> QED BY <3>1, <3>2, <3>3
  <2>2. store' = st \/ (st.map[s] # NoAttempt /\ \E b \in Attempt : store' = Mutate(st, s, b))
    BY <1>7, <1>c, <1>t DEF TextLoad
  <2> QED BY <2>1, <2>2 DEF StoreCall
<1>8. CASE TextRebuilt(s)
  <2> DEFINE a == NewAttempt(call[s].loaded, durable[s].compaction)
             base == Set(store, s, a)
  <2>1. call[s].at = "text_prior" /\ call'[s].at = "stream" /\ Complete(s, base, a)
    BY <1>8, <1>g DEF TextRebuilt, HostPoints
  <2>2. a \in Attempt /\ a.createdAt = now
    BY <1>n, <1>t
  <2>3. base.map[s] # NoAttempt
    BY <2>2, SetStore, AttemptAssumption DEF TypeOK
  <2> HIDE DEF a
  <2>4. store' = base \/ \E b \in Attempt : store' = Mutate(base, s, b)
    BY <2>1, <2>2, <1>c
  <2> QED BY <2>1, <2>2, <2>3, <2>4 DEF StoreCall
<1>9. CASE TextFail(s)
  <2>1. call[s].at \in {"text", "text_prior"} /\ call'[s].at = "stream"
    BY <1>9, <1>g DEF TextFail, HostPoints
  <2>2. store' = st \/ (st.map[s] # NoAttempt /\ \E b \in Attempt : store' = Mutate(st, s, b))
    <3>1. ASSUME NEW a \in Attempt, NEW bound \in BOOLEAN
          PROVE  [a EXCEPT !.summaryMessageID = durable[s].compaction, !.validation = "invalid",
                           !.textPartID = IF bound THEN Part(s) ELSE @] \in Attempt
      BY <1>t DEF Attempt, Validation
    <3> QED BY <1>9, <3>1, <1>t DEF TextFail
  <2> QED BY <2>1, <2>2 DEF StoreCall
<1>10. CASE AutoStart(s)
  <2>1. call[s].at = "stream" /\ call'[s].at = "auto"
    BY <1>10, <1>u DEF AutoStart, HostAt
  <2> QED BY <1>10, <2>1 DEF AutoStart, StoreCall
<1>11. CASE AutoLoad(s) \/ AutoRebuilt(s) \/ AutoFail(s)
  <2>1. call[s].at \in {"auto", "auto_prior"} /\ call'[s].at # call[s].at
    <3>1. CASE AutoLoad(s)
      <4>1. /\ call[s].at = "auto"
            /\ \/ \E a, l : call' = [call EXCEPT ![s].at = "auto_prior", ![s].active = a, ![s].loaded = l]
               \/ Goto(s, "verdict")
        BY <3>1 DEF AutoLoad
      <4> QED BY <4>1, <1>g, <1>u DEF HostPoints
    <3>2. CASE AutoRebuilt(s)
      BY <3>2, <1>u DEF AutoRebuilt
    <3>3. CASE AutoFail(s)
      BY <3>3, <1>g DEF AutoFail, HostPoints
    <3> QED BY <1>11, <3>1, <3>2, <3>3
  <2>2. store' \in {store, Delete(store, s)}
    BY <1>11 DEF AutoLoad, AutoRebuilt, AutoFail
  <2> QED BY <2>1, <2>2 DEF StoreCall
<1>12. CASE TextUnfit(s)
  <2>1. call[s].at = "text_prior" /\ call'[s].at = "stream"
    BY <1>12, <1>g DEF TextUnfit, HostPoints
  <2>2. UnfitAttempt(s) \in Attempt /\ UnfitAttempt(s).createdAt = now
    BY <1>t, UnfitType DEF TypeOK
  <2>3. store' = Set(store, s, UnfitAttempt(s))
    BY <1>12 DEF TextUnfit
  <2> QED BY <2>1, <2>2, <2>3 DEF StoreCall
<1> QED
  BY <1>1, <1>2, <1>3, <1>4, <1>5, <1>6, <1>7, <1>8, <1>9, <1>10, <1>11, <1>12 DEF HookStep

\* So do an event, which takes itself off the queue, and the calls of no session.
LEMMA EventStores ==
    ASSUME TypeOK, NEW s \in Sessions, DeliverEvent(s)
    PROVE  StoreCall(s) /\ events'[s] # events[s]
<1> DEFINE st == CleanupExpired(store, now)
<1>1. events'[s] # events[s]
  <2>1. events[s] \in Seq(Event) /\ events[s] # <<>> /\ events'[s] = Tail(events[s])
    BY DEF DeliverEvent, TypeOK
  <2>2. Len(events'[s]) = Len(events[s]) - 1 /\ Len(events[s]) \in Nat
    BY <2>1
  <2> HIDE DEF st
  <2> QED BY <2>2
<1>2. \/ store' \in {Delete(st, s), Delete(store, s)}
      \/ st.map[s] # NoAttempt /\ store' = Mutate(st, s, [st.map[s] EXCEPT !.recoveryComplete = TRUE])
  BY DEF DeliverEvent, AfterIdle
<1>3. st.map[s] # NoAttempt => [st.map[s] EXCEPT !.recoveryComplete = TRUE] \in Attempt
  BY LookupTypes DEF Attempt
<1> QED BY <1>1, <1>2, <1>3 DEF StoreCall

LEMMA StoreStep ==
    ASSUME TypeOK, Managed(Attempt, store), [Next]_vars
    PROVE  /\ Managed(Attempt, store')
           /\ \A t \in Sessions :
                 \/ call'[t] # call[t] \/ events'[t] # events[t] \/ restarts' # restarts
                 \/ Spared(t)
<1>1. ASSUME NEW s \in Sessions, HostStep(s)
      PROVE  store' = store
  BY <1>1 DEF HostStep, Prompt, HistoryMoves, BeginCompaction, FinishTurn, FailTurn, WriteSummary,
         CancelCompaction, StreamText, FinishSummary, FailSummary, ActOnVerdict, DeleteSession
<1>2. ASSUME NEW s \in Sessions, HookStep(s) \/ DeliverEvent(s)
      PROVE  /\ Managed(Attempt, store')
             /\ call'[s] # call[s] \/ events'[s] # events[s]
             /\ \A t \in Sessions \ {s} : Spared(t)
  BY <1>2, HookStores, EventStores, StoreCallManaged
<1>3. CASE DeliverOtherEvent
  BY <1>3, CleanupManaged DEF DeliverOtherEvent, Spared
<1>4. CASE Restart
  <2>1. restarts' # restarts
    BY <1>4 DEF Restart, TypeOK
  <2> QED BY <1>4, <2>1, EmptyManaged DEF Restart
<1>5. CASE Tick \/ UNCHANGED vars
  BY <1>5 DEF Tick, vars, Spared
<1> QED BY <1>1, <1>2, <1>3, <1>4, <1>5 DEF Next, Spared

\* The store stays a Map within its cap, whatever hooks and events interleave on it
\* (state.ts:79-118).
THEOREM StoreManaged == Spec => []Managed(Attempt, store)
<1>1. Init => Managed(Attempt, store)
  BY EmptyManaged DEF Init
<1>2. TypeOK /\ Managed(Attempt, store) /\ [Next]_vars => Managed(Attempt, store)'
  BY StoreStep
<1> QED BY <1>1, <1>2, TypeCorrect, PTL DEF Spec

\* A session loses its attempt to its own hooks and events, to its age, or to a full
\* store, and to nothing else (server.ts:405-453, state.ts:79-118).
THEOREM Isolation == Spec => AttemptsIsolated
<1>1. TypeOK /\ Managed(Attempt, store) /\ [Next]_vars =>
        [\A s \in Sessions :
          store'.map[s] # store.map[s] =>
            \/ call'[s] # call[s] \/ events'[s] # events[s] \/ restarts' # restarts
            \/ /\ store'.map[s] = NoAttempt
               /\ Expired(store.map[s], now) \/ Cardinality(Live(store')) >= MaxAttempts]_vars
  BY StoreStep DEF Spared
<1> QED BY <1>1, StoreManaged, TypeCorrect, PTL DEF Spec, AttemptsIsolated

----------------------------------------------------------------------------
(* What an action makes of its session *)

HistoryStays(s) ==
    /\ durable'[s].compaction = durable[s].compaction
    /\ durable'[s].prior = durable[s].prior
    /\ durable'[s].parts = durable[s].parts
    /\ durable[s].error => durable'[s].error
    /\ durable[s].later => durable'[s].later
    /\ durable'[s].revision >= durable[s].revision

Goes(s, from, to) ==
    /\ call[s].at \in from
    /\ call'[s].at \in to
    /\ call'[s].born = call[s].born

LEMMA GotoGoes ==
    ASSUME TypeOK, NEW s \in Sessions, NEW p \in HostPoints, Goto(s, p)
    PROVE  call'[s].at = p /\ call'[s].born = call[s].born
BY GotoType DEF TypeOK

LEMMA EmitAdds ==
    ASSUME TypeOK, NEW s \in Sessions, NEW published \in Seq(Event), published # <<>>,
           Emit(s, published)
    PROVE  events'[s] = events[s] \o published /\ events'[s] # <<>>
<1>1. events[s] \in Seq(Event) /\ events'[s] = events[s] \o published
  BY DEF Emit, TypeOK
<1>2. Len(published) > 0 /\ Len(events[s]) >= 0
  BY <1>1
<1>3. Len(events'[s]) = Len(events[s]) + Len(published)
  BY <1>1
<1>4. Len(events'[s]) > 0
  BY <1>2, <1>3, <1>1
<1> QED BY <1>1, <1>4

LEMMA Published ==
    /\ <<"session.idle">> \in Seq(Event) /\ <<"session.idle">> # <<>>
    /\ <<"session.compacted">> \in Seq(Event) /\ <<"session.compacted">> # <<>>
    /\ <<"session.deleted">> \in Seq(Event) /\ <<"session.deleted">> # <<>>
    /\ <<"session.compacted", "session.idle">> \in Seq(Event)
    /\ <<"session.compacted", "session.idle">> # <<>>
    /\ <<"session.error", "session.idle">> \in Seq(Event)
    /\ <<"session.error", "session.idle">> # <<>>
BY DEF Event

\* A loop that ends or goes on without a compaction.
LEMMA TurnFields ==
    ASSUME TypeOK, NEW s \in Sessions
    PROVE  /\ Prompt(s) =>
                /\ Goes(s, {"idle"}, {"turn"}) /\ HistoryStays(s)
                /\ events' = events /\ recovered' = recovered
           /\ HistoryMoves(s) =>
                /\ call[s].at \notin {"idle", "gone"} /\ call' = call /\ HistoryStays(s)
                /\ durable'[s].revision # durable[s].revision
                /\ events' = events /\ recovered' = recovered
           /\ FinishTurn(s) =>
                /\ durable' = durable
                /\ \/ /\ Goes(s, {"model"}, {"turn"})
                      /\ events' = events /\ recovered' = recovered
                   \/ /\ Goes(s, {"model"}, {"idle"})
                      /\ events'[s] # <<>>
                      /\ events[s] = <<>> => events'[s] = <<"session.idle">>
                      /\ recovered'[s] = IF recovered[s] = "turn" THEN "done" ELSE recovered[s]
           /\ FailTurn(s) =>
                /\ durable' = durable /\ Goes(s, {"model"}, {"idle"})
                /\ events'[s] # <<>> /\ recovered'[s] = "none"
           /\ DeleteSession(s) =>
                /\ durable' = durable /\ Goes(s, {"idle"}, {"gone"})
                /\ events'[s] # <<>> /\ recovered' = recovered
<1>t. /\ durable[s] \in Durable /\ events[s] \in Seq(Event)
      /\ durable[s].revision \in Nat
      /\ {"idle", "turn", "gone"} \subseteq HostPoints
      /\ DOMAIN recovered = Sessions /\ DOMAIN durable = Sessions
  BY DEF TypeOK, HostPoints, Durable
<1>1. ASSUME Prompt(s)
      PROVE  /\ Goes(s, {"idle"}, {"turn"}) /\ HistoryStays(s)
             /\ events' = events /\ recovered' = recovered
  <2>1. Goes(s, {"idle"}, {"turn"})
    BY <1>1, <1>t, GotoGoes DEF Prompt, HostAt, Goes
  <2>2. durable'[s] = [durable[s] EXCEPT !.revision = durable[s].revision + 1,
                                         !.later = durable[s].compaction > 0]
    BY <1>1, <1>t DEF Prompt
  <2> QED BY <1>1, <2>1, <2>2, <1>t DEF Prompt, HistoryStays, Durable
<1>2. ASSUME HistoryMoves(s)
      PROVE  /\ call[s].at \notin {"idle", "gone"} /\ call' = call /\ HistoryStays(s)
             /\ durable'[s].revision # durable[s].revision
             /\ events' = events /\ recovered' = recovered
  <2>1. PICK message \in BOOLEAN :
          durable'[s] = [durable[s] EXCEPT !.revision = durable[s].revision + 1,
                           !.later = durable[s].later \/ (message /\ durable[s].compaction > 0)]
    BY <1>2, <1>t DEF HistoryMoves
  <2> QED BY <1>2, <2>1, <1>t DEF HistoryMoves, HistoryStays, Durable
<1>3. ASSUME FinishTurn(s)
      PROVE  /\ durable' = durable
             /\ \/ /\ Goes(s, {"model"}, {"turn"})
                   /\ events' = events /\ recovered' = recovered
                \/ /\ Goes(s, {"model"}, {"idle"})
                   /\ events'[s] # <<>>
                   /\ events[s] = <<>> => events'[s] = <<"session.idle">>
                   /\ recovered'[s] = IF recovered[s] = "turn" THEN "done" ELSE recovered[s]
  <2>1. CASE Goto(s, "turn") /\ UNCHANGED <<events, recovered>>
    BY <1>3, <2>1, <1>t, GotoGoes DEF FinishTurn, HostAt, Goes
  <2>2. CASE /\ Goto(s, "idle") /\ Emit(s, <<"session.idle">>)
             /\ recovered' = [recovered EXCEPT ![s] = IF @ = "turn" THEN "done" ELSE @]
    <3>1. events'[s] = events[s] \o <<"session.idle">> /\ events'[s] # <<>>
      BY <2>2, Published, EmitAdds
    <3>2. events[s] = <<>> => events'[s] = <<"session.idle">>
      BY <3>1
    <3> QED BY <1>3, <2>2, <3>1, <3>2, <1>t, GotoGoes DEF FinishTurn, HostAt, Goes
  <2> QED BY <1>3, <2>1, <2>2 DEF FinishTurn
<1>4. ASSUME FailTurn(s)
      PROVE  /\ durable' = durable /\ Goes(s, {"model"}, {"idle"})
             /\ events'[s] # <<>> /\ recovered'[s] = "none"
  BY <1>4, <1>t, Published, EmitAdds, GotoGoes DEF FailTurn, HostAt, Goes
<1>5. ASSUME DeleteSession(s)
      PROVE  /\ durable' = durable /\ Goes(s, {"idle"}, {"gone"})
             /\ events'[s] # <<>> /\ recovered' = recovered
  BY <1>5, <1>t, Published, EmitAdds, GotoGoes DEF DeleteSession, HostAt, Goes
<1> QED BY <1>1, <1>2, <1>3, <1>4, <1>5

\* A compaction, as far as the host takes it.
LEMMA CompactionFields ==
    ASSUME TypeOK, NEW s \in Sessions
    PROVE  /\ BeginCompaction(s) =>
                /\ call[s].at \in {"idle", "turn", "model"}
                /\ call'[s].at = "compacting" /\ call'[s].born = LedgerOf(durable[s], FALSE)
                /\ durable' = durable /\ events' = events /\ recovered' = recovered
           /\ WriteSummary(s) =>
                /\ Goes(s, {"summary"}, {"stream"})
                /\ durable'[s].revision = durable[s].revision
                /\ durable'[s].prior = NewestPrior(durable[s], FALSE)
                /\ durable'[s].parts = <<>>
                /\ events' = events /\ recovered'[s] = "none"
           /\ CancelCompaction(s) =>
                /\ Goes(s, {"summary"}, {"idle"})
                /\ durable' = durable
                /\ events'[s] # <<>> /\ recovered' = recovered
                /\ events[s] = <<>> => events'[s] = <<"session.idle">>
           /\ StreamText(s) =>
                /\ Goes(s, {"stream"}, {"text"})
                /\ durable' = durable /\ events' = events /\ recovered' = recovered
           /\ FinishSummary(s) \/ FailSummary(s) =>
                /\ Goes(s, {"stream"}, {"idle", "turn"})
                /\ events'[s] # <<>> /\ recovered' = recovered
           /\ ActOnVerdict(s) =>
                /\ Goes(s, {"verdict"}, {"idle", "turn"})
                /\ events'[s] # <<>> /\ recovered' = recovered
<1>t. /\ durable[s] \in Durable /\ call[s] \in Call /\ events[s] \in Seq(Event)
      /\ {"idle", "turn", "stream"} \subseteq HostPoints
      /\ DOMAIN recovered = Sessions /\ DOMAIN durable = Sessions /\ DOMAIN call = Sessions
  BY DEF TypeOK, HostPoints
<1>1. ASSUME BeginCompaction(s)
      PROVE  /\ call[s].at \in {"idle", "turn", "model"}
             /\ call'[s].at = "compacting" /\ call'[s].born = LedgerOf(durable[s], FALSE)
             /\ durable' = durable /\ events' = events /\ recovered' = recovered
  BY <1>1, <1>t DEF BeginCompaction, HostAt, Call
<1>2. ASSUME WriteSummary(s)
      PROVE  /\ Goes(s, {"summary"}, {"stream"})
             /\ durable'[s].revision = durable[s].revision
             /\ durable'[s].prior = NewestPrior(durable[s], FALSE)
             /\ durable'[s].parts = <<>>
             /\ events' = events /\ recovered'[s] = "none"
  <2>1. durable'[s] = [durable[s] EXCEPT !.compaction = durable[s].compaction + 1,
                         !.prior = NewestPrior(durable[s], FALSE),
                         !.parts = <<>>, !.error = FALSE, !.later = FALSE]
    BY <1>2, <1>t DEF WriteSummary
  <2>2. Goes(s, {"summary"}, {"stream"})
    BY <1>2, <1>t, GotoGoes DEF WriteSummary, HostAt, Goes
  <2> QED BY <1>2, <2>1, <2>2, <1>t DEF WriteSummary, Durable
<1>3. ASSUME CancelCompaction(s)
      PROVE  /\ Goes(s, {"summary"}, {"idle"})
             /\ durable' = durable
             /\ events'[s] # <<>> /\ recovered' = recovered
             /\ events[s] = <<>> => events'[s] = <<"session.idle">>
  <2>1. events'[s] = events[s] \o <<"session.idle">> /\ events'[s] # <<>>
    BY <1>3, Published, EmitAdds DEF CancelCompaction
  <2>2. events[s] = <<>> => events'[s] = <<"session.idle">>
    BY <2>1
  <2> QED BY <1>3, <2>1, <2>2, <1>t, GotoGoes DEF CancelCompaction, HostAt, Goes
<1>4. ASSUME StreamText(s)
      PROVE  /\ Goes(s, {"stream"}, {"text"})
             /\ durable' = durable /\ events' = events /\ recovered' = recovered
  BY <1>4, <1>t DEF StreamText, HostAt, Goes, Call
<1>5. ASSUME FinishSummary(s) \/ FailSummary(s)
      PROVE  /\ Goes(s, {"stream"}, {"idle", "turn"})
             /\ events'[s] # <<>> /\ recovered' = recovered
  BY <1>5, <1>t, Published, EmitAdds, GotoGoes DEF FinishSummary, FailSummary, HostAt, Goes
<1>6. ASSUME ActOnVerdict(s)
      PROVE  /\ Goes(s, {"verdict"}, {"idle", "turn"})
             /\ events'[s] # <<>> /\ recovered' = recovered
  BY <1>6, <1>t, Published, EmitAdds, GotoGoes DEF ActOnVerdict, HostAt, Goes
<1> QED BY <1>1, <1>2, <1>3, <1>4, <1>5, <1>6

\* What a lookup finds.
Found(s) == CleanupExpired(store, now).map[s]

Stays(s) ==
    /\ durable' = durable /\ events' = events /\ recovered' = recovered

LEMMA FoundStores ==
    ASSUME TypeOK, NEW s \in Sessions
    PROVE  /\ store.map[s] \in Attempt \cup {NoAttempt}
           /\ Found(s) \in {store.map[s], NoAttempt}
           /\ Delete(store, s).map[s] = NoAttempt
           /\ Delete(CleanupExpired(store, now), s).map[s] = NoAttempt
           /\ \A n \in Nat : LET a == NewAttempt(call[s].loaded, n) IN
                a \in Attempt /\ Set(store, s, a).map[s] = a /\ Set(store, s, a) \in Stores(Attempt)
<1>1. store \in Stores(Attempt) /\ CleanupExpired(store, now) \in Stores(Attempt)
  BY LookupTypes DEF TypeOK
<1>2. store.map[s] \in Attempt \cup {NoAttempt} /\ Found(s) \in {store.map[s], NoAttempt}
  BY <1>1, LookupTypes DEF Stores, Found
<1>3. ASSUME NEW n \in Nat
      PROVE  LET a == NewAttempt(call[s].loaded, n) IN
               a \in Attempt /\ Set(store, s, a).map[s] = a /\ Set(store, s, a) \in Stores(Attempt)
  <2>1. NewAttempt(call[s].loaded, n) \in Attempt
    BY NewAttemptType DEF TypeOK, Call
  <2> QED BY <1>1, <2>1, SetStore, AttemptAssumption
<1> QED BY <1>1, <1>2, <1>3, DeleteShrinks

\* The hook that starts a compaction.
LEMMA CompactingFields ==
    ASSUME TypeOK, NEW s \in Sessions
    PROVE  /\ CompactingLoad(s) =>
                /\ Goes(s, {"compacting"}, {"compacting_prior"}) /\ Stays(s)
                /\ call'[s].loaded = LedgerOf(durable[s], FALSE)
                /\ store' = store
           /\ CompactingStore(s) =>
                /\ Goes(s, {"compacting_prior"}, {"request"}) /\ Stays(s)
                /\ store'.map[s] = NewAttempt(call[s].loaded, 0)
           /\ CompactingFail(s) =>
                /\ Goes(s, {"compacting", "compacting_prior"}, {"request"})
                /\ durable' = durable /\ events' = events /\ recovered'[s] = "none"
                /\ store'.map[s] = NoAttempt
<1>t. call[s] \in Call /\ DOMAIN call = Sessions /\ DOMAIN recovered = Sessions /\ "request" \in HostPoints
  BY DEF TypeOK, HostPoints
<1>1. ASSUME CompactingLoad(s)
      PROVE  /\ Goes(s, {"compacting"}, {"compacting_prior"}) /\ Stays(s)
             /\ call'[s].loaded = LedgerOf(durable[s], FALSE)
             /\ store' = store
  BY <1>1, <1>t DEF CompactingLoad, Goes, Call, Stays
<1>2. ASSUME CompactingStore(s)
      PROVE  /\ Goes(s, {"compacting_prior"}, {"request"}) /\ Stays(s)
             /\ store'.map[s] = NewAttempt(call[s].loaded, 0)
  BY <1>2, <1>t, GotoGoes, FoundStores DEF CompactingStore, Goes, Stays
<1>3. ASSUME CompactingFail(s)
      PROVE  /\ Goes(s, {"compacting", "compacting_prior"}, {"request"})
             /\ durable' = durable /\ events' = events /\ recovered'[s] = "none"
             /\ store'.map[s] = NoAttempt
  BY <1>3, <1>t, GotoGoes, FoundStores DEF CompactingFail, Goes
<1> QED BY <1>1, <1>2, <1>3

\* The hook that lets the history through: what it does until its first await.
LetsPass(s, history) ==
    /\ call'[s].at = AfterTransform(call[s].at = "request") /\ call'[s].born = call[s].born
    /\ sent'[s].history = history

Awaits(s, p) ==
    /\ call'[s].at = p /\ call'[s].born = call[s].born
    /\ call'[s].compacting = (call[s].at = "request")
    /\ store'.map[s] = Found(s)

TransformEnds(s) ==
    LET invalid == InvalidBeforeNewestUser(durable[s]) IN
    \/ Found(s) = NoAttempt /\ invalid /\ Awaits(s, "transform_load")
    \/ Found(s) = NoAttempt /\ ~invalid /\ LetsPass(s, "unchanged") /\ store'.map[s] = NoAttempt
    \/ /\ Found(s) # NoAttempt /\ Found(s).summaryMessageID # 0 /\ ~invalid
       /\ LetsPass(s, "unchanged") /\ store'.map[s] = NoAttempt
    \/ /\ Found(s) # NoAttempt /\ Found(s).recoveryComplete
       /\ LetsPass(s, "unchanged") /\ store'.map[s] = Found(s)
    \/ /\ Found(s) # NoAttempt /\ ~Found(s).recoveryComplete /\ invalid
       /\ Awaits(s, "transform_replay")
    \/ /\ Found(s) # NoAttempt /\ ~Found(s).recoveryComplete /\ ~invalid
       /\ Found(s).summaryMessageID = 0
       /\ LetsPass(s, PlainHistory) /\ store'.map[s] = Found(s)

LEMMA TransformFields ==
    ASSUME TypeOK, NEW s \in Sessions, Transform(s)
    PROVE  call[s].at \in {"turn", "request"} /\ Stays(s) /\ TransformEnds(s)
<1> DEFINE st == CleanupExpired(store, now)
           compacting == call[s].at = "request"
           invalid == InvalidBeforeNewestUser(durable[s])
<1>1. call[s].at \in {"turn", "request"} /\ Stays(s)
  BY DEF Transform, HostAt, Stays
<1>2. Delete(st, s).map[s] = NoAttempt
  BY FoundStores
<1>3. ASSUME NEW history, Let(s, history, NoLedger, compacting) PROVE LetsPass(s, history)
  <2>1. AfterTransform(compacting) \in HostPoints
    BY DEF AfterTransform, HostPoints
  <2>2. call'[s].at = AfterTransform(compacting) /\ call'[s].born = call[s].born
    BY <1>3, <2>1, GotoGoes DEF Let
  <2>3. sent'[s].history = history
    BY <1>3 DEF Let, TypeOK
  <2> QED BY <2>2, <2>3 DEF LetsPass
<1>4. ASSUME NEW p, store' = st,
             call' = [call EXCEPT ![s].at = p, ![s].active = st.map[s], ![s].compacting = compacting]
      PROVE  Awaits(s, p)
  <2>1. call[s] \in Call /\ s \in DOMAIN call
    BY DEF TypeOK
  <2>2. call'[s] = [call[s] EXCEPT !.at = p, !.active = st.map[s], !.compacting = compacting]
    BY <1>4, <2>1
  <2> QED BY <1>4, <2>1, <2>2 DEF Awaits, Found, Call
<1> HIDE DEF st, compacting, invalid
<1>5. LET attempt == st.map[s]
          Await(p) == call' = [call EXCEPT ![s].at = p, ![s].active = attempt,
                                           ![s].compacting = compacting]
      IN \/ attempt = NoAttempt /\ invalid /\ store' = st /\ Await("transform_load")
         \/ attempt = NoAttempt /\ ~invalid /\ store' = st /\ Let(s, "unchanged", NoLedger, compacting)
         \/ /\ attempt # NoAttempt /\ attempt.summaryMessageID # 0 /\ ~invalid
            /\ store' = Delete(st, s) /\ Let(s, "unchanged", NoLedger, compacting)
         \/ /\ attempt # NoAttempt /\ attempt.recoveryComplete
            /\ store' = st /\ Let(s, "unchanged", NoLedger, compacting)
         \/ /\ attempt # NoAttempt /\ ~attempt.recoveryComplete /\ invalid
            /\ store' = st /\ Await("transform_replay")
         \/ /\ attempt # NoAttempt /\ ~attempt.recoveryComplete /\ ~invalid
            /\ attempt.summaryMessageID = 0
            /\ store' = st /\ Let(s, PlainHistory, NoLedger, compacting)
  BY Zenon DEF Transform, st, compacting, invalid
<1>6. Found(s) = st.map[s]
  BY DEF Found, st
<1>7. TransformEnds(s)
  BY <1>2, <1>3, <1>4, <1>5, <1>6 DEF TransformEnds, invalid
<1> QED BY <1>1, <1>7

\* Its ends after an await.
LEMMA RecoveryFields ==
    ASSUME TypeOK, NEW s \in Sessions
    PROVE  /\ TransformLoad(s) =>
                /\ Goes(s, {"transform_load"}, {"transform_prior"}) /\ Stays(s)
                /\ call'[s].compacting = call[s].compacting /\ store' = store
           /\ TransformRebuilt(s) =>
                /\ Goes(s, {"transform_prior"}, {"transform_replay"}) /\ Stays(s)
                /\ call'[s].compacting = call[s].compacting
                /\ store'.map[s] = NewAttempt(call[s].loaded, durable[s].compaction)
           /\ TransformRecover(s) =>
                /\ Goes(s, {"transform_replay"}, {AfterTransform(call[s].compacting)})
                /\ durable' = durable /\ events' = events
                /\ store'.map[s] = IF store.map[s] = NoAttempt THEN NoAttempt
                                   ELSE [store.map[s] EXCEPT !.recoveryUserID = TRUE]
                /\ recovered'[s] = IF call[s].compacting THEN recovered[s] ELSE "turn"
                /\ sent'[s].history = "recovered"
           /\ TransformFail(s) =>
                /\ Goes(s, {"transform_load", "transform_prior", "transform_replay"},
                           {AfterTransform(call[s].compacting)})
                /\ durable' = durable /\ events' = events
                /\ store'.map[s] = NoAttempt /\ recovered'[s] = "none"
                /\ sent'[s].history = "failed"
<1>t. /\ call[s] \in Call /\ DOMAIN call = Sessions /\ DOMAIN recovered = Sessions
      /\ DOMAIN sent = Sessions
      /\ durable[s].compaction \in Nat /\ store \in Stores(Attempt)
      /\ AfterTransform(call[s].compacting) \in HostPoints
  BY DEF TypeOK, HostPoints, Durable, AfterTransform
<1>1. ASSUME TransformLoad(s)
      PROVE  /\ Goes(s, {"transform_load"}, {"transform_prior"}) /\ Stays(s)
             /\ call'[s].compacting = call[s].compacting /\ store' = store
  BY <1>1, <1>t DEF TransformLoad, Goes, Call, Stays
<1>2. ASSUME TransformRebuilt(s)
      PROVE  /\ Goes(s, {"transform_prior"}, {"transform_replay"}) /\ Stays(s)
             /\ call'[s].compacting = call[s].compacting
             /\ store'.map[s] = NewAttempt(call[s].loaded, durable[s].compaction)
  <2>1. PICK a : /\ call' = [call EXCEPT ![s].at = "transform_replay", ![s].active = a]
                 /\ a = NewAttempt(call[s].loaded, durable[s].compaction)
                 /\ store' = Set(store, s, a)
    BY <1>2 DEF TransformRebuilt
  <2>2. Goes(s, {"transform_prior"}, {"transform_replay"}) /\ call'[s].compacting = call[s].compacting
    BY <1>2, <2>1, <1>t DEF TransformRebuilt, Goes, Call
  <2> QED BY <1>2, <2>1, <2>2, <1>t, FoundStores DEF TransformRebuilt, Stays
<1>3. ASSUME NEW history, NEW l, Let(s, history, l, call[s].compacting)
      PROVE  /\ call'[s].at = AfterTransform(call[s].compacting) /\ call'[s].born = call[s].born
             /\ sent'[s].history = history
  BY <1>3, <1>t, GotoGoes DEF Let
<1>4. ASSUME TransformRecover(s)
      PROVE  /\ Goes(s, {"transform_replay"}, {AfterTransform(call[s].compacting)})
             /\ durable' = durable /\ events' = events
             /\ store'.map[s] = IF store.map[s] = NoAttempt THEN NoAttempt
                                ELSE [store.map[s] EXCEPT !.recoveryUserID = TRUE]
             /\ recovered'[s] = IF call[s].compacting THEN recovered[s] ELSE "turn"
             /\ sent'[s].history = "recovered"
  <2>1. store'.map[s] = IF store.map[s] = NoAttempt THEN NoAttempt
                        ELSE [store.map[s] EXCEPT !.recoveryUserID = TRUE]
    BY <1>4, <1>t, MutateAny DEF TransformRecover
  <2> QED BY <1>3, <1>4, <2>1, <1>t DEF TransformRecover, Goes
<1>5. ASSUME TransformFail(s)
      PROVE  /\ Goes(s, {"transform_load", "transform_prior", "transform_replay"},
                        {AfterTransform(call[s].compacting)})
             /\ durable' = durable /\ events' = events
             /\ store'.map[s] = NoAttempt /\ recovered'[s] = "none"
             /\ sent'[s].history = "failed"
  BY <1>3, <1>5, <1>t, FoundStores DEF TransformFail, Goes
<1> QED BY <1>1, <1>2, <1>4, <1>5

\* A part of the summary: the attempt in hand decides what becomes of it.
Judged(s, a) ==
    [a EXCEPT !.textPartID = Part(s), !.summaryMessageID = durable[s].compaction,
              !.validation = Judge(call[s].raw, a.ledger)]

Completed(s, a) ==
    IF a.textPartID # 0 /\ a.textPartID # Part(s)
    THEN /\ store'.map[s] = a
         /\ durable'[s].parts = Append(durable[s].parts, Blank)
    ELSE /\ store'.map[s] = Judged(s, a)
         /\ durable'[s].parts = Append(durable[s].parts, PluginText(a.ledger))

PartAdded(s) ==
    /\ durable'[s].revision = durable[s].revision
    /\ durable'[s].compaction = durable[s].compaction
    /\ durable'[s].prior = durable[s].prior
    /\ events' = events /\ recovered' = recovered

LEMMA PartFields ==
    ASSUME TypeOK, NEW s \in Sessions, NEW x, StoreText(s, x)
    PROVE  /\ durable'[s].parts = Append(durable[s].parts, x)
           /\ durable'[s].revision = durable[s].revision
           /\ durable'[s].compaction = durable[s].compaction
           /\ durable'[s].prior = durable[s].prior
<1>1. durable'[s] = [durable[s] EXCEPT !.parts = Append(durable[s].parts, x)]
  BY DEF StoreText, TypeOK
<1>2. durable[s] \in Durable
  BY DEF TypeOK
<1> QED BY <1>1, <1>2 DEF Durable

LEMMA CompletedFields ==
    ASSUME TypeOK, NEW s \in Sessions, NEW st \in Stores(Attempt), NEW a, st.map[s] = a,
           Complete(s, st, a)
    PROVE  /\ Completed(s, a)
           /\ durable'[s].revision = durable[s].revision
           /\ durable'[s].compaction = durable[s].compaction
           /\ durable'[s].prior = durable[s].prior
<1>1. CASE a.textPartID # 0 /\ a.textPartID # Part(s)
  BY <1>1, PartFields DEF Complete, Completed
<1>2. CASE ~(a.textPartID # 0 /\ a.textPartID # Part(s))
  <2>1. store' = Mutate(st, s, Judged(s, a)) /\ StoreText(s, PluginText(a.ledger))
    BY <1>2 DEF Complete, Judged
  <2>2. store'.map[s] = Judged(s, a)
    BY <2>1, MutateAny
  <2> QED BY <1>2, <2>1, <2>2, PartFields DEF Completed
<1> QED BY <1>1, <1>2

LEMMA TextFields ==
    ASSUME TypeOK, NEW s \in Sessions
    PROVE  /\ TextLoad(s) =>
                \/ /\ Found(s) = NoAttempt \/ BelongsElsewhere(s, Found(s))
                   /\ Goes(s, {"text"}, {"text_prior"}) /\ Stays(s)
                   /\ store'.map[s] = Found(s)
                \/ /\ Found(s) # NoAttempt /\ ~BelongsElsewhere(s, Found(s))
                   /\ Goes(s, {"text"}, {"stream"}) /\ PartAdded(s)
                   /\ Completed(s, Found(s))
           /\ TextRebuilt(s) =>
                /\ Goes(s, {"text_prior"}, {"stream"}) /\ PartAdded(s)
                /\ Completed(s, NewAttempt(call[s].loaded, durable[s].compaction))
           /\ TextFail(s) =>
                /\ Goes(s, {"text", "text_prior"}, {"stream"}) /\ PartAdded(s)
                /\ store'.map[s] # NoAttempt =>
                      Found(s) # NoAttempt /\ store'.map[s].createdAt = Found(s).createdAt
           /\ TextUnfit(s) =>
                /\ Goes(s, {"text_prior"}, {"stream"}) /\ PartAdded(s)
                /\ store'.map[s] # NoAttempt => store'.map[s].createdAt = now
<1>t. /\ call[s] \in Call /\ DOMAIN call = Sessions /\ "stream" \in HostPoints
      /\ CleanupExpired(store, now) \in Stores(Attempt)
      /\ durable[s].compaction \in Nat
  BY LookupTypes DEF TypeOK, HostPoints, Durable
<1>1. ASSUME TextLoad(s)
      PROVE  \/ /\ Found(s) = NoAttempt \/ BelongsElsewhere(s, Found(s))
                /\ Goes(s, {"text"}, {"text_prior"}) /\ Stays(s)
                /\ store'.map[s] = Found(s)
             \/ /\ Found(s) # NoAttempt /\ ~BelongsElsewhere(s, Found(s))
                /\ Goes(s, {"text"}, {"stream"}) /\ PartAdded(s)
                /\ Completed(s, Found(s))
  <2>1. CASE Found(s) = NoAttempt \/ BelongsElsewhere(s, Found(s))
    <3>1. /\ call' = [call EXCEPT ![s].at = "text_prior", ![s].loaded = LedgerOf(durable[s], TRUE)]
          /\ store' = CleanupExpired(store, now)
          /\ call[s].at = "text" /\ Stays(s)
      BY <1>1, <2>1 DEF TextLoad, Found, Stays
    <3> QED BY <2>1, <3>1, <1>t DEF Goes, Call, Found
  <2>2. CASE ~(Found(s) = NoAttempt \/ BelongsElsewhere(s, Found(s)))
    <3>1. /\ Complete(s, CleanupExpired(store, now), Found(s)) /\ Goto(s, "stream")
          /\ call[s].at = "text" /\ UNCHANGED <<events, recovered>>
      BY <1>1, <2>2 DEF TextLoad, Found
    <3>2. Completed(s, Found(s)) /\ PartAdded(s)
      BY <3>1, <1>t, CompletedFields DEF Found, PartAdded
    <3> QED BY <2>2, <3>1, <3>2, <1>t, GotoGoes DEF Goes
  <2> QED BY <2>1, <2>2
<1>2. ASSUME TextRebuilt(s)
      PROVE  /\ Goes(s, {"text_prior"}, {"stream"}) /\ PartAdded(s)
             /\ Completed(s, NewAttempt(call[s].loaded, durable[s].compaction))
  <2> DEFINE a == NewAttempt(call[s].loaded, durable[s].compaction)
  <2>1. Set(store, s, a) \in Stores(Attempt) /\ Set(store, s, a).map[s] = a
    BY <1>t, FoundStores
  <2>2. /\ Complete(s, Set(store, s, a), a) /\ Goto(s, "stream") /\ call[s].at = "text_prior"
        /\ UNCHANGED <<events, recovered>>
    BY <1>2 DEF TextRebuilt
  <2> HIDE DEF a
  <2>3. Goes(s, {"text_prior"}, {"stream"}) /\ PartAdded(s) /\ Completed(s, a)
    BY <2>1, <2>2, <1>t, GotoGoes, CompletedFields DEF Goes, PartAdded
  <2> QED BY <2>3 DEF a
<1>3. ASSUME TextFail(s)
      PROVE  /\ Goes(s, {"text", "text_prior"}, {"stream"}) /\ PartAdded(s)
             /\ store'.map[s] # NoAttempt =>
                   Found(s) # NoAttempt /\ store'.map[s].createdAt = Found(s).createdAt
  <2>1. /\ StoreText(s, call[s].raw) /\ Goto(s, "stream") /\ call[s].at \in {"text", "text_prior"}
        /\ UNCHANGED <<events, recovered>>
    BY <1>3 DEF TextFail
  <2>2. Goes(s, {"text", "text_prior"}, {"stream"}) /\ PartAdded(s)
    BY <2>1, <1>t, GotoGoes, PartFields DEF Goes, PartAdded
  <2>3. CASE Found(s) = NoAttempt
    BY <1>3, <2>2, <2>3 DEF TextFail, Found
  <2>4. CASE Found(s) # NoAttempt
    <3>1. PICK bound \in BOOLEAN :
            store' = Mutate(CleanupExpired(store, now), s, [Found(s) EXCEPT
                       !.summaryMessageID = durable[s].compaction, !.validation = "invalid",
                       !.textPartID = IF bound THEN Part(s) ELSE @])
      BY <1>3, <2>4 DEF TextFail, Found
    <3>2. store'.map[s] = [Found(s) EXCEPT
                       !.summaryMessageID = durable[s].compaction, !.validation = "invalid",
                       !.textPartID = IF bound THEN Part(s) ELSE @]
      BY <3>1, <1>t, MutateAny
    <3>3. Found(s) \in Attempt
      BY <2>4, FoundStores
    <3>4. store'.map[s].createdAt = Found(s).createdAt
      BY <3>2, <3>3 DEF Attempt
    <3> QED BY <2>2, <2>4, <3>4
  <2> QED BY <2>3, <2>4
<1>4. ASSUME TextUnfit(s)
      PROVE  /\ Goes(s, {"text_prior"}, {"stream"}) /\ PartAdded(s)
             /\ store'.map[s] # NoAttempt => store'.map[s].createdAt = now
  <2>1. /\ StoreText(s, call[s].raw) /\ Goto(s, "stream") /\ call[s].at = "text_prior"
        /\ store' = Set(store, s, UnfitAttempt(s)) /\ UNCHANGED <<events, recovered>>
    BY <1>4 DEF TextUnfit
  <2>2. Goes(s, {"text_prior"}, {"stream"}) /\ PartAdded(s)
    BY <2>1, <1>t, GotoGoes, PartFields DEF Goes, PartAdded
  <2>3. UnfitAttempt(s) \in Attempt /\ UnfitAttempt(s).createdAt = now
    <3>1. durable[s] \in Durable /\ call[s].loaded \in Ledger /\ now \in Nat
      BY <1>t DEF TypeOK, Call
    <3>2. Part(s) \in Nat
      BY <3>1 DEF Durable, Part
    <3> QED BY <1>t, <3>1, <3>2, UnfitType
  <2>4. store'.map[s] \in {UnfitAttempt(s), NoAttempt}
    BY <2>1, <2>3, SetStore DEF TypeOK
  <2> QED BY <2>2, <2>3, <2>4
<1> QED BY <1>1, <1>2, <1>3, <1>4

\* The verdict on the summary.
LEMMA AutoFields ==
    ASSUME TypeOK, NEW s \in Sessions
    PROVE  /\ AutoStart(s) =>
                /\ Goes(s, {"stream"}, {"auto"}) /\ Stays(s)
                /\ call'[s].active = Found(s) /\ store'.map[s] = Found(s)
           /\ AutoLoad(s) =>
                LET active == call[s].active
                    refused == /\ active # NoAttempt
                               /\ active.summaryMessageID = durable[s].compaction
                               /\ active.validation = "invalid"
                IN /\ Stays(s)
                   /\ \/ /\ ~refused /\ Valid(durable[s].parts)
                         /\ Goes(s, {"auto"}, {"auto_prior"})
                         /\ call'[s].loaded = LedgerOf(durable[s], TRUE)
                         /\ store' = store
                      \/ /\ refused \/ ~Valid(durable[s].parts)
                         /\ Goes(s, {"auto"}, {"verdict"})
                         /\ store'.map[s] = NoAttempt
           /\ AutoRebuilt(s) =>
                /\ Goes(s, {"auto_prior"}, {"verdict"}) /\ Stays(s)
                /\ call'[s].enabled = (SummaryLedger(durable[s].parts) = call[s].loaded)
                /\ store'.map[s] = NoAttempt
           /\ AutoFail(s) =>
                /\ Goes(s, {"auto", "auto_prior"}, {"verdict"}) /\ Stays(s)
                /\ store'.map[s] = NoAttempt
<1>t. /\ call[s] \in Call /\ DOMAIN call = Sessions /\ "verdict" \in HostPoints
      /\ Delete(store, s).map[s] = NoAttempt
  BY FoundStores DEF TypeOK, HostPoints
<1>1. ASSUME AutoStart(s)
      PROVE  /\ Goes(s, {"stream"}, {"auto"}) /\ Stays(s)
             /\ call'[s].active = Found(s) /\ store'.map[s] = Found(s)
  <2>1. /\ call' = [call EXCEPT ![s].at = "auto", ![s].active = Found(s)]
        /\ store' = CleanupExpired(store, now) /\ call[s].at = "stream"
    BY <1>1 DEF AutoStart, HostAt, Found
  <2> QED BY <1>1, <2>1, <1>t DEF AutoStart, Goes, Call, Found, Stays
<1>2. ASSUME AutoLoad(s)
      PROVE  LET active == call[s].active
                 refused == /\ active # NoAttempt
                            /\ active.summaryMessageID = durable[s].compaction
                            /\ active.validation = "invalid"
             IN /\ Stays(s)
                /\ \/ /\ ~refused /\ Valid(durable[s].parts)
                      /\ Goes(s, {"auto"}, {"auto_prior"})
                      /\ call'[s].loaded = LedgerOf(durable[s], TRUE)
                      /\ store' = store
                   \/ /\ refused \/ ~Valid(durable[s].parts)
                      /\ Goes(s, {"auto"}, {"verdict"})
                      /\ store'.map[s] = NoAttempt
  <2> DEFINE refused == /\ call[s].active # NoAttempt
                        /\ call[s].active.summaryMessageID = durable[s].compaction
                        /\ call[s].active.validation = "invalid"
  <2> HIDE DEF refused
  <2>0. call[s].at = "auto" /\ Stays(s)
    BY <1>2 DEF AutoLoad, Stays
  <2>1. CASE ~refused /\ Valid(durable[s].parts)
    <3>1. /\ call' = [call EXCEPT ![s].at = "auto_prior", ![s].active = NoAttempt,
                                  ![s].loaded = LedgerOf(durable[s], TRUE)]
          /\ store' = store
      BY <1>2, <2>1 DEF AutoLoad, refused
    <3>2. Goes(s, {"auto"}, {"auto_prior"}) /\ call'[s].loaded = LedgerOf(durable[s], TRUE)
      BY <3>1, <2>0, <1>t DEF Goes, Call
    <3> QED BY <2>0, <2>1, <3>1, <3>2 DEF refused
  <2>2. CASE ~(~refused /\ Valid(durable[s].parts))
    <3>1. Goto(s, "verdict") /\ store' = Delete(store, s)
      BY <1>2, <2>2 DEF AutoLoad, refused
    <3>2. Goes(s, {"auto"}, {"verdict"})
      BY <3>1, <2>0, <1>t, GotoGoes DEF Goes
    <3> QED BY <2>0, <2>2, <3>1, <3>2, <1>t DEF refused
  <2> QED BY <2>1, <2>2
<1>3. ASSUME AutoRebuilt(s)
      PROVE  /\ Goes(s, {"auto_prior"}, {"verdict"}) /\ Stays(s)
             /\ call'[s].enabled = (SummaryLedger(durable[s].parts) = call[s].loaded)
             /\ store'.map[s] = NoAttempt
  <2> DEFINE e == SummaryLedger(durable[s].parts) = call[s].loaded
  <2>1. call' = [call EXCEPT ![s].at = "verdict", ![s].enabled = e]
    BY <1>3 DEF AutoRebuilt
  <2> HIDE DEF e
  <2>2. /\ call'[s].at = "verdict" /\ call'[s].born = call[s].born /\ call'[s].enabled = e
    BY <2>1, <1>t DEF Call
  <2>3. e = (SummaryLedger(durable[s].parts) = call[s].loaded)
    BY DEF e
  <2> QED BY <1>3, <2>2, <2>3, <1>t DEF AutoRebuilt, Goes, Stays
<1>4. ASSUME AutoFail(s)
      PROVE  /\ Goes(s, {"auto", "auto_prior"}, {"verdict"}) /\ Stays(s)
             /\ store'.map[s] = NoAttempt
  BY <1>4, <1>t, GotoGoes DEF AutoFail, Goes, Stays
<1> QED BY <1>1, <1>2, <1>3, <1>4

\* An event completes the attempt or removes it.
LEMMA EventFields ==
    ASSUME TypeOK, NEW s \in Sessions, DeliverEvent(s)
    PROVE  /\ events[s] # <<>> /\ events'[s] = Tail(events[s])
           /\ UNCHANGED <<call, durable, recovered, now>>
           /\ \/ store'.map[s] = NoAttempt
              \/ /\ Head(events[s]) = "session.idle" /\ Found(s) # NoAttempt
                 /\ Found(s).recoveryUserID
                 /\ store'.map[s] = [Found(s) EXCEPT !.recoveryComplete = TRUE]
           /\ Head(events[s]) = "session.idle" /\ Found(s) # NoAttempt /\ Found(s).recoveryUserID =>
                 store'.map[s] = [Found(s) EXCEPT !.recoveryComplete = TRUE]
<1>1. /\ events[s] # <<>> /\ events'[s] = Tail(events[s])
      /\ UNCHANGED <<call, durable, recovered, now>>
  BY DEF DeliverEvent, TypeOK
<1>2. CleanupExpired(store, now) \in Stores(Attempt)
  BY LookupTypes
<1>3. CASE Head(events[s]) = "session.idle"
  <2>1. store' = AfterIdle(CleanupExpired(store, now), s)
    BY <1>3 DEF DeliverEvent
  <2>2. CASE Found(s) # NoAttempt /\ Found(s).recoveryUserID
    <3>1. store' = Mutate(CleanupExpired(store, now), s, [Found(s) EXCEPT !.recoveryComplete = TRUE])
      BY <2>1, <2>2 DEF AfterIdle, Found
    <3>2. store'.map[s] = [Found(s) EXCEPT !.recoveryComplete = TRUE]
      BY <1>2, <3>1, MutateAny
    <3> QED BY <1>1, <1>3, <2>2, <3>2
  <2>3. CASE ~(Found(s) # NoAttempt /\ Found(s).recoveryUserID)
    BY <1>1, <2>1, <2>3, FoundStores DEF AfterIdle, Found
  <2> QED BY <2>2, <2>3
<1>4. CASE Head(events[s]) # "session.idle"
  BY <1>1, <1>4, FoundStores DEF DeliverEvent
<1> QED BY <1>3, <1>4

----------------------------------------------------------------------------
(* Nothing late: what the events and the attempts left over may do *)

\* As long as the host waits for them, events are underway only between its hooks.
EventsSettle(s) == events[s] # <<>> => call[s].at \in {"idle", "turn", "gone"}

\* The attempt of a compaction that has not been judged yet.
Bare(s) ==
    /\ store.map[s] # NoAttempt
    /\ store.map[s].summaryMessageID = 0
    /\ ~store.map[s].recoveryComplete

\* It is there only during its compaction, or an event is underway that removes or
\* completes it.
BareGoes(s) ==
    Bare(s) =>
        \/ events[s] # <<>>
        \/ call[s].at \in {"request", "summary", "stream", "text", "text_prior", "auto", "auto_prior"}
        \/ call[s].at = "transform_replay" /\ call[s].compacting

\* A transform rebuilds an attempt for a summary that exists.
RebuildsFor(s) ==
    call[s].at \in {"transform_load", "transform_prior"} => durable[s].compaction # 0

Prompted(s) == EventsSettle(s) /\ BareGoes(s) /\ RebuildsFor(s)

PromptInv == "late" \notin trouble => \A s \in Sessions : Prompted(s)

----------------------------------------------------------------------------
(* One step of the history variables *)

\* A step of s, in time as far as the events of s go.
InTime(s) == HostStep(s) \/ Transform(s) \/ AutoStart(s) => events[s] = <<>>

LEMMA LateStep ==
    ASSUME OneNext
    PROVE  /\ "late" \notin trouble' => "late" \notin trouble /\ \A s \in Sessions : InTime(s)
           /\ trouble' = {} => trouble = {} /\ ~Failing
           /\ study' = study
<1>1. trouble' = trouble \cup (IF Late THEN {"late"} ELSE {}) \cup (IF Failing THEN {"fault"} ELSE {})
  BY DEF OneNext
<1>2. "late" \notin trouble' => ~Late
  BY <1>1
<1>3. "late" \notin trouble' => \A s \in Sessions : InTime(s)
  BY <1>2 DEF Late, InTime
<1>4. "late" \notin trouble' => "late" \notin trouble
  BY <1>1
<1>5. trouble' = {} => trouble = {} /\ ~Failing
  BY <1>1
<1>6. study' = study
  BY DEF OneNext
<1> QED BY <1>3, <1>4, <1>5, <1>6

OthersStay(s) ==
    \A t \in Sessions \ {s} :
        /\ call'[t] = call[t] /\ durable'[t] = durable[t] /\ events'[t] = events[t]
        /\ recovered'[t] = recovered[t]
        /\ store'.map[t] \in {store.map[t], NoAttempt}

LEMMA StepLeavesOthers ==
    ASSUME HooksInv, Managed(Attempt, store), NEW s \in Sessions,
           HostStep(s) \/ HookStep(s) \/ DeliverEvent(s)
    PROVE  OthersStay(s)
<1> SUFFICES ASSUME NEW t \in Sessions \ {s}
             PROVE  /\ call'[t] = call[t] /\ durable'[t] = durable[t] /\ events'[t] = events[t]
                    /\ recovered'[t] = recovered[t]
                    /\ store'.map[t] \in {store.map[t], NoAttempt}
  BY DEF OthersStay
<1>t. TypeOK /\ SessionInv(s)
  BY DEF HooksInv
<1>1. CASE HostStep(s)
  <2>1. call'[t] = call[t] /\ durable'[t] = durable[t]
    BY <1>1, <1>t, HostLeavesOthers
  <2>2. store' = store
    BY <1>1 DEF HostStep, Prompt, HistoryMoves, BeginCompaction, FinishTurn, FailTurn, WriteSummary,
         CancelCompaction, StreamText, FinishSummary, FailSummary, ActOnVerdict, DeleteSession
  <2>3. events'[t] = events[t] /\ recovered'[t] = recovered[t]
    BY <1>1, <1>t DEF TypeOK, HostStep, Prompt, HistoryMoves, BeginCompaction, FinishTurn, FailTurn,
         WriteSummary, CancelCompaction, StreamText, FinishSummary, FailSummary, ActOnVerdict,
         DeleteSession, Emit
  <2> QED BY <2>1, <2>2, <2>3
<1>2. CASE HookStep(s)
  <2>1. call'[t] = call[t] /\ durable'[t] = durable[t]
    BY <1>2, <1>t, HookLeavesOthers
  <2>2. StoreCall(s)
    BY <1>2, <1>t, HookStores
  <2>3. Spared(t)
    BY <2>2, StoreCallManaged
  <2>4. events' = events
    BY <1>2, <1>t, CompactingFields, TransformFields, RecoveryFields, TextFields, AutoFields
       DEF HookStep, Stays, PartAdded
  <2>5. recovered'[t] = recovered[t]
    <3>1. CASE CompactingFail(s) \/ TransformFail(s) \/ TransformRecover(s)
      BY <3>1, <1>t DEF TypeOK, CompactingFail, TransformFail, TransformRecover
    <3>2. CASE ~(CompactingFail(s) \/ TransformFail(s) \/ TransformRecover(s))
      BY <3>2, <1>2, <1>t, CompactingFields, TransformFields, RecoveryFields, TextFields, AutoFields
       DEF HookStep, Stays, PartAdded
    <3> QED BY <3>1, <3>2
  <2> QED BY <2>1, <2>3, <2>4, <2>5 DEF Spared
<1>3. CASE DeliverEvent(s)
  <2>1. StoreCall(s)
    BY <1>3, <1>t, EventStores
  <2>2. Spared(t)
    BY <2>1, StoreCallManaged
  <2>3. UNCHANGED <<call, durable, recovered>> /\ events'[t] = events[t]
    BY <1>3, <1>t DEF DeliverEvent, TypeOK
  <2> QED BY <2>2, <2>3 DEF Spared
<1> QED BY <1>1, <1>2, <1>3

----------------------------------------------------------------------------
(* A session whose events are not late *)

LEMMA PromptedStays ==
    ASSUME NEW s \in Sessions, Prompted(s),
           call'[s] = call[s], durable'[s] = durable[s], events'[s] = events[s],
           store'.map[s] \in {store.map[s], NoAttempt}
    PROVE  Prompted(s)'
BY DEF Prompted, EventsSettle, BareGoes, Bare, RebuildsFor

LEMMA PromptedHost ==
    ASSUME HooksInv, NEW s \in Sessions, Prompted(s), HostStep(s), events[s] = <<>>
    PROVE  Prompted(s)'
<1>1. TypeOK
  BY DEF HooksInv
<1>2. store' = store
  BY DEF HostStep, Prompt, HistoryMoves, BeginCompaction, FinishTurn, FailTurn, WriteSummary,
         CancelCompaction, StreamText, FinishSummary, FailSummary, ActOnVerdict, DeleteSession
<1>3. Bare(s)' <=> Bare(s)
  BY <1>2 DEF Bare
<1>4. EventsSettle(s)'
  BY <1>1, TurnFields, CompactionFields DEF HostStep, EventsSettle, Goes
<1>5. BareGoes(s)'
  <2>1. Bare(s) => \/ call[s].at \in {"request", "summary", "stream", "text", "text_prior", "auto", "auto_prior"}
                   \/ call[s].at = "transform_replay"
    BY DEF Prompted, BareGoes
  <2>2. CASE HistoryMoves(s)
    BY <1>1, <1>3, <2>2, TurnFields DEF Prompted, BareGoes
  <2>3. CASE ~HistoryMoves(s)
    BY <1>1, <1>3, <2>1, <2>3, TurnFields, CompactionFields DEF HostStep, BareGoes, Goes
  <2> QED BY <2>2, <2>3
<1>6. RebuildsFor(s)'
  <2>1. CASE HistoryMoves(s)
    BY <1>1, <2>1, TurnFields DEF Prompted, RebuildsFor, HistoryStays
  <2>2. CASE ~HistoryMoves(s)
    BY <1>1, <2>2, TurnFields, CompactionFields DEF HostStep, RebuildsFor, Goes
  <2> QED BY <2>1, <2>2
<1> QED BY <1>4, <1>5, <1>6 DEF Prompted

LEMMA PromptedHook ==
    ASSUME HooksInv, NEW s \in Sessions, Prompted(s), HookStep(s),
           Transform(s) \/ AutoStart(s) => events[s] = <<>>
    PROVE  Prompted(s)'
<1>1. TypeOK
  BY DEF HooksInv
<1>2. events' = events
  BY <1>1, CompactingFields, TransformFields, RecoveryFields, TextFields, AutoFields
     DEF HookStep, Stays, PartAdded
<1>3. events[s] = <<>>
  BY <1>1, CompactingFields, TransformFields, RecoveryFields, TextFields, AutoFields
     DEF HookStep, Prompted, EventsSettle, Goes
<1>4. EventsSettle(s)'
  BY <1>2, <1>3 DEF EventsSettle
<1>5. ASSUME call'[s].at \notin {"transform_load", "transform_prior"} PROVE RebuildsFor(s)'
  BY <1>5 DEF RebuildsFor
<1>6. ASSUME ~Bare(s)' \/ call'[s].at \in {"request", "summary", "stream", "text", "text_prior", "auto", "auto_prior"}
      PROVE BareGoes(s)'
  BY <1>6 DEF BareGoes
<1>7. ASSUME store'.map[s] = NoAttempt PROVE ~Bare(s)'
  BY <1>7 DEF Bare
<1>8. CASE CompactingLoad(s)
  <2>1. /\ Goes(s, {"compacting"}, {"compacting_prior"}) /\ store' = store
    BY <1>1, <1>8, CompactingFields
  <2>2. ~Bare(s)
    BY <1>3, <2>1 DEF Prompted, BareGoes, Goes
  <2> QED BY <1>4, <1>5, <1>6, <2>1, <2>2 DEF Prompted, Goes, Bare
<1>9. CASE CompactingStore(s) \/ CompactingFail(s)
  <2>1. call'[s].at = "request"
    BY <1>1, <1>9, CompactingFields DEF Goes
  <2> QED BY <1>4, <1>5, <1>6, <2>1 DEF Prompted
<1>10. CASE Transform(s)
  <2>1. call[s].at \in {"turn", "request"} /\ Stays(s) /\ TransformEnds(s)
    BY <1>1, <1>10, TransformFields
  <2>2. call[s].at = "turn" => ~Bare(s)
    BY <1>3 DEF Prompted, BareGoes
  <2>3. Found(s) \in {store.map[s], NoAttempt}
    BY <1>1, FoundStores
  <2>4. durable[s].compaction \in Nat
    BY <1>1 DEF TypeOK, Durable
  <2>5. RebuildsFor(s)'
    BY <2>1, <2>4 DEF TransformEnds, RebuildsFor, Stays, LetsPass, Awaits, AfterTransform,
                      InvalidBeforeNewestUser
  <2>6. Bare(s)' => /\ store.map[s] # NoAttempt /\ store'.map[s] = store.map[s]
    BY <2>1, <2>3 DEF TransformEnds, Awaits, Bare
  <2>7. Bare(s)' => call[s].at = "request"
    BY <2>1, <2>2, <2>6 DEF Bare
  <2>8. Bare(s)' => \/ call'[s].at = "summary"
                    \/ call'[s].at = "transform_replay" /\ call'[s].compacting
    BY <2>1, <2>6, <2>7 DEF TransformEnds, Awaits, LetsPass, AfterTransform, Bare
  <2> QED BY <1>4, <2>5, <2>8 DEF Prompted, BareGoes
<1>11. CASE TransformLoad(s)
  <2>1. /\ Goes(s, {"transform_load"}, {"transform_prior"}) /\ store' = store /\ durable' = durable
    BY <1>1, <1>11, RecoveryFields DEF Stays
  <2>2. ~Bare(s)
    BY <1>3, <2>1 DEF Prompted, BareGoes, Goes
  <2>3. RebuildsFor(s)'
    BY <2>1 DEF Prompted, RebuildsFor, Goes
  <2> QED BY <1>4, <1>6, <2>1, <2>2, <2>3 DEF Prompted, Bare
<1>12. CASE TransformRebuilt(s)
  <2>1. /\ Goes(s, {"transform_prior"}, {"transform_replay"})
        /\ store'.map[s] = NewAttempt(call[s].loaded, durable[s].compaction)
    BY <1>1, <1>12, RecoveryFields
  <2>2. durable[s].compaction # 0
    BY <2>1 DEF Prompted, RebuildsFor, Goes
  <2>3. ~Bare(s)'
    BY <2>1, <2>2 DEF Bare, NewAttempt
  <2> QED BY <1>4, <1>5, <1>6, <2>1, <2>3 DEF Prompted, Goes
<1>13. CASE TransformRecover(s)
  <2>1. /\ Goes(s, {"transform_replay"}, {AfterTransform(call[s].compacting)})
        /\ store'.map[s] = IF store.map[s] = NoAttempt THEN NoAttempt
                           ELSE [store.map[s] EXCEPT !.recoveryUserID = TRUE]
    BY <1>1, <1>13, RecoveryFields
  <2>2. store.map[s] \in Attempt \cup {NoAttempt}
    BY <1>1, FoundStores
  <2>3. Bare(s)' => Bare(s)
    BY <2>1, <2>2 DEF Bare, Attempt
  <2>4. Bare(s) => call[s].compacting
    BY <1>3, <2>1 DEF Prompted, BareGoes, Goes
  <2>5. call'[s].at \in {"summary", "model"} /\ (call[s].compacting => call'[s].at = "summary")
    BY <2>1 DEF Goes, AfterTransform
  <2> QED BY <1>4, <1>5, <1>6, <2>3, <2>4, <2>5 DEF Prompted
<1>14. CASE TransformFail(s)
  <2>1. call'[s].at \in {"summary", "model"} /\ store'.map[s] = NoAttempt
    BY <1>1, <1>14, RecoveryFields DEF Goes, AfterTransform
  <2> QED BY <1>4, <1>5, <1>6, <1>7, <2>1 DEF Prompted
<1>15. CASE TextLoad(s) \/ TextRebuilt(s) \/ TextUnfit(s) \/ TextFail(s) \/ AutoStart(s)
  <2>1. call'[s].at \in {"text_prior", "stream", "auto"}
    BY <1>1, <1>15, TextFields, AutoFields DEF Goes
  <2> QED BY <1>4, <1>5, <1>6, <2>1 DEF Prompted
<1>16. CASE AutoLoad(s) \/ AutoRebuilt(s) \/ AutoFail(s)
  <2>1. call'[s].at = "auto_prior" \/ (call'[s].at = "verdict" /\ store'.map[s] = NoAttempt)
    BY <1>1, <1>16, AutoFields DEF Goes
  <2> QED BY <1>4, <1>5, <1>6, <1>7, <2>1 DEF Prompted
<1> QED
  BY <1>8, <1>9, <1>10, <1>11, <1>12, <1>13, <1>14, <1>15, <1>16 DEF HookStep

\* An event leaves no attempt of a compaction behind.
LEMMA PromptedEvent ==
    ASSUME HooksInv, NEW s \in Sessions, Prompted(s), DeliverEvent(s)
    PROVE  Prompted(s)'
<1>1. TypeOK
  BY DEF HooksInv
<1>2. /\ events[s] # <<>> /\ UNCHANGED <<call, durable>>
      /\ \/ store'.map[s] = NoAttempt
         \/ Found(s) # NoAttempt /\ store'.map[s] = [Found(s) EXCEPT !.recoveryComplete = TRUE]
  BY <1>1, EventFields
<1>3. Found(s) \in Attempt \cup {NoAttempt}
  BY <1>1, FoundStores
<1>4. ~Bare(s)'
  BY <1>2, <1>3 DEF Bare, Attempt
<1> QED BY <1>2, <1>4 DEF Prompted, EventsSettle, BareGoes, RebuildsFor

LEMMA PromptNext ==
    ASSUME HooksInv, Managed(Attempt, store), PromptInv,
           [OneNext]_<<vars, trouble, study>>
    PROVE  PromptInv'
<1>1. CASE UNCHANGED <<vars, trouble, study>>
  BY <1>1, PromptedStays DEF PromptInv, vars
<1>2. CASE OneNext
  <2> SUFFICES ASSUME "late" \notin trouble', NEW t \in Sessions PROVE Prompted(t)'
    BY DEF PromptInv
  <2>1. (\A s \in Sessions : Prompted(s)) /\ \A s \in Sessions : InTime(s)
    BY <1>2, LateStep DEF PromptInv
  <2>2. ASSUME NEW s \in Sessions, HostStep(s) \/ HookStep(s) \/ DeliverEvent(s) PROVE Prompted(t)'
    <3>1. CASE t = s
      BY <2>1, <2>2, <3>1, PromptedHost, PromptedHook, PromptedEvent DEF InTime
    <3>2. CASE t # s
      BY <2>1, <2>2, <3>2, StepLeavesOthers, PromptedStays DEF OthersStay
    <3> QED BY <3>1, <3>2
  <2>3. CASE DeliverOtherEvent
    BY <2>1, <2>3, FoundStores, PromptedStays DEF DeliverOtherEvent, Found, HooksInv
  <2>4. CASE Tick
    BY <2>1, <2>4, PromptedStays DEF Tick
  <2>5. CASE Restart
    <3>1. call'[t].at \in {"idle", "gone"} /\ events'[t] = <<>> /\ store'.map[t] = NoAttempt
      BY <2>5 DEF Restart, IdleCall, EmptyStore
    <3> QED BY <3>1 DEF Prompted, EventsSettle, BareGoes, Bare, RebuildsFor
  <2> QED BY <1>2, <2>2, <2>3, <2>4, <2>5 DEF OneNext, Next
<1> QED BY <1>1, <1>2

LEMMA OneIsSpec == OneSpec => Spec
<1>1. OneInit => Init
  BY DEF OneInit
<1>2. [OneNext]_<<vars, trouble, study>> => [Next]_vars
  BY DEF OneNext
<1> QED BY <1>1, <1>2, PTL DEF OneSpec, Spec

LEMMA PromptInvariant == OneSpec => []PromptInv
<1>1. OneInit => PromptInv
  BY DEF OneInit, Init, PromptInv, Prompted, EventsSettle, BareGoes, Bare, RebuildsFor,
         EmptyStore, IdleCall
<1>2. HooksInv /\ Managed(Attempt, store) /\ PromptInv /\ [OneNext]_<<vars, trouble, study>> => PromptInv'
  BY PromptNext
<1> QED BY <1>1, <1>2, OneIsSpec, HooksInvariant, StoreManaged, PTL DEF OneSpec

\* Outside compaction and recovery a model turn gets its history unchanged
\* (README.md:282), as long as no event of the host is late.
THEOREM TurnUnchanged == OneSpec => NormalTurnUnchanged
<1>1. HooksInv /\ PromptInv /\ [OneNext]_<<vars, trouble, study>> =>
        [\A s \in Sessions :
           call'[s].at = "model" /\ call[s].at # "model" /\ "late" \notin trouble'
             => sent'[s].history # "sanitized"]_vars
  <2> SUFFICES ASSUME HooksInv, PromptInv, OneNext, NEW s \in Sessions,
                      call'[s].at = "model", call[s].at # "model", "late" \notin trouble'
               PROVE  sent'[s].history # "sanitized"
    BY DEF vars
  <2>1. Prompted(s) /\ \A t \in Sessions : InTime(t)
    BY LateStep DEF PromptInv
  <2>2. HostStep(s) \/ HookStep(s)
    <3>1. ASSUME NEW t \in Sessions, HostStep(t) \/ HookStep(t) PROVE t = s
      BY <3>1, HostLeavesOthers, HookLeavesOthers DEF HooksInv
    <3>2. ASSUME NEW t \in Sessions, DeliverEvent(t) PROVE FALSE
      BY <3>2 DEF DeliverEvent
    <3>3. ~DeliverOtherEvent /\ ~Tick
      BY DEF DeliverOtherEvent, Tick
    <3>4. ~Restart
      BY DEF Restart, IdleCall
    <3> QED BY <3>1, <3>2, <3>3, <3>4 DEF OneNext, Next
  <2>3. TypeOK
    BY DEF HooksInv
  <2>4. ~HostStep(s)
    BY <2>3, TurnFields, CompactionFields DEF HostStep, Goes
  <2>5. Transform(s) \/ TransformRecover(s) \/ TransformFail(s)
    BY <2>2, <2>3, <2>4, CompactingFields, RecoveryFields, TextFields, AutoFields DEF HookStep, Goes
  <2>6. CASE Transform(s)
    <3>1. call[s].at \in {"turn", "request"} /\ TransformEnds(s)
      BY <2>3, <2>6, TransformFields
    <3>2. events[s] = <<>>
      BY <2>1, <2>6 DEF InTime
    <3>3. call[s].at = "turn"
      BY <3>1 DEF TransformEnds, LetsPass, Awaits, AfterTransform
    <3>4. ~Bare(s)
      BY <2>1, <3>2, <3>3 DEF Prompted, BareGoes
    <3>5. Found(s) \in {store.map[s], NoAttempt}
      BY <2>3, FoundStores
    <3> QED BY <3>1, <3>4, <3>5 DEF TransformEnds, LetsPass, Awaits, Bare
  <2>7. CASE TransformRecover(s) \/ TransformFail(s)
    BY <2>3, <2>7, RecoveryFields
  <2> QED BY <2>5, <2>6, <2>7
<1> QED BY <1>1, OneIsSpec, HooksInvariant, PromptInvariant, PTL DEF OneSpec, NormalTurnUnchanged

----------------------------------------------------------------------------
(* One session alone *)

\* No time passes, the others rest.
AtRest ==
    study = "alone" =>
        /\ now = 0
        /\ \A s \in Sessions :
              /\ store.map[s] # NoAttempt => store.map[s].createdAt = 0
              /\ s # s1 => call[s].at = "idle" /\ events[s] = <<>> /\ recovered[s] = "none"

Stored(s) == store.map[s] # NoAttempt

\* What a transform prepares, and what got recovery, is a summary that is not valid.
RecoveryFor(s) ==
    recovered[s] # "none" \/ call[s].at \in {"transform_load", "transform_prior", "transform_replay"} =>
        InvalidBeforeNewestUser(durable[s])

\* A session that had recovery has only the end of a turn underway, and no new summary.
OnlyIdle(s) ==
    recovered[s] # "none" =>
        /\ events[s] \in {<<>>, <<"session.idle">>} \/ call[s].at = "gone"
        /\ call[s].at \notin {"stream", "text", "text_prior", "auto", "auto_prior", "verdict",
                             "transform_load", "transform_prior"}

\* The attempt that gave recovery, or that of a compaction since, is in the store.
RecoveryStored(s) ==
    /\ call[s].at = "transform_replay" => Stored(s)
    /\ recovered[s] # "none" =>
          /\ call[s].at \in {"idle", "turn", "model", "summary"} =>
                Stored(s) /\ store.map[s].recoveryUserID
          /\ call[s].at = "request" => Stored(s) /\ ~store.map[s].recoveryComplete

\* It is a tombstone once the end of the turn arrived; a new recovery is of a compaction.
Tombstone(s) ==
    /\ recovered[s] = "done" /\ call[s].at \in {"turn", "model"} => store.map[s].recoveryComplete
    /\ recovered[s] # "none" /\ call[s].at = "idle" /\ events[s] = <<>> =>
          store.map[s].recoveryComplete
    /\ recovered[s] = "done" /\ call[s].at = "transform_replay" => call[s].compacting

Recovering(s) == RecoveryFor(s) /\ OnlyIdle(s) /\ RecoveryStored(s) /\ Tombstone(s)

RecoveryInv ==
    study = "alone" /\ "late" \notin trouble /\ s1 \in Sessions => Recovering(s1)

\* An attempt that a step of s leaves is the one that was there, changed or not, or of now.
LEMMA AgeStays ==
    ASSUME TypeOK, NEW s \in Sessions, HookStep(s) \/ DeliverEvent(s), store'.map[s] # NoAttempt
    PROVE  \/ store.map[s] # NoAttempt /\ store'.map[s].createdAt = store.map[s].createdAt
           \/ store'.map[s].createdAt = now
<1>1. /\ store.map[s] \in Attempt \cup {NoAttempt}
      /\ Found(s) \in {store.map[s], NoAttempt}
      /\ durable[s].compaction \in Nat
  BY FoundStores DEF TypeOK, Durable
<1>n. \A n : NewAttempt(call[s].loaded, n).createdAt = now
  BY DEF NewAttempt
<1>c. ASSUME NEW a \in Attempt, Completed(s, a) PROVE store'.map[s].createdAt = a.createdAt
  BY <1>c DEF Completed, Judged, Attempt
<1>e. ASSUME NEW a \in Attempt
      PROVE  /\ [a EXCEPT !.recoveryUserID = TRUE].createdAt = a.createdAt
             /\ [a EXCEPT !.recoveryComplete = TRUE].createdAt = a.createdAt
  BY DEF Attempt
<1>2. CASE CompactingLoad(s) \/ CompactingStore(s) \/ CompactingFail(s)
  BY <1>2, <1>n, CompactingFields
<1>3. CASE Transform(s)
  BY <1>1, <1>3, TransformFields DEF TransformEnds, Awaits
<1>4. CASE TransformLoad(s) \/ TransformRebuilt(s) \/ TransformFail(s)
  <2>1. CASE TransformLoad(s)
    BY <1>1, <2>1, RecoveryFields
  <2>2. CASE TransformRebuilt(s)
    <3>1. store'.map[s] = NewAttempt(call[s].loaded, durable[s].compaction)
      BY <2>2, RecoveryFields
    <3> QED BY <3>1, <1>n
  <2>3. CASE TransformFail(s)
    BY <2>3, RecoveryFields
  <2> QED BY <1>4, <2>1, <2>2, <2>3
<1>5. CASE TransformRecover(s)
  <2>1. store'.map[s] = [store.map[s] EXCEPT !.recoveryUserID = TRUE] /\ store.map[s] # NoAttempt
    BY <1>5, RecoveryFields
  <2> QED BY <1>1, <1>e, <2>1
<1>6. CASE TextLoad(s)
  BY <1>1, <1>6, <1>c, TextFields
<1>7. CASE TextRebuilt(s)
  BY <1>1, <1>7, <1>c, <1>n, FoundStores, TextFields
<1>8. CASE TextFail(s) \/ TextUnfit(s)
  BY <1>1, <1>8, TextFields
<1>9. CASE AutoStart(s) \/ AutoLoad(s) \/ AutoRebuilt(s) \/ AutoFail(s)
  BY <1>1, <1>9, AutoFields
<1>10. CASE DeliverEvent(s)
  <2>1. store'.map[s] = [Found(s) EXCEPT !.recoveryComplete = TRUE] /\ Found(s) # NoAttempt
    BY <1>10, EventFields
  <2> QED BY <1>1, <1>e, <2>1
<1> QED
  BY <1>2, <1>3, <1>4, <1>5, <1>6, <1>7, <1>8, <1>9, <1>10 DEF HookStep

\* Only the session under study moves, or no session.
LEMMA AloneStep ==
    ASSUME HooksInv, AtRest, OneNext, study = "alone"
    PROVE  /\ now' = now /\ study' = study
           /\ \A s \in Sessions \ {s1} : call'[s] = call[s] /\ events'[s] = events[s]
           /\ \/ s1 \in Sessions /\ (HostStep(s1) \/ HookStep(s1) \/ DeliverEvent(s1))
              \/ DeliverOtherEvent
              \/ Restart
<1>1. /\ now' = now /\ study' = study /\ Next
      /\ \A s \in Sessions \ {s1} : call'[s] = call[s] /\ events'[s] = events[s]
  BY DEF OneNext, Alone
<1>2. TypeOK
  BY DEF HooksInv
<1>3. ASSUME NEW s \in Sessions \ {s1} PROVE ~HostStep(s) /\ ~HookStep(s) /\ ~DeliverEvent(s)
  <2>1. call[s].at = "idle" /\ call'[s] = call[s] /\ events'[s] = events[s]
    BY <1>1 DEF AtRest
  <2>2. ~HostStep(s)
    BY <1>2, <2>1, TurnFields, CompactionFields DEF HostStep, Goes
  <2> QED BY <1>2, <2>1, <2>2, HookStores, EventStores
<1>4. ~Tick
  BY <1>1, <1>2 DEF Tick, TypeOK
<1> QED BY <1>1, <1>3, <1>4 DEF Next

LEMMA AtRestNext ==
    ASSUME HooksInv, Managed(Attempt, store), AtRest, [OneNext]_<<vars, trouble, study>>
    PROVE  AtRest'
<1>t. TypeOK /\ \A s \in Sessions : Found(s) \in {store.map[s], NoAttempt}
  BY FoundStores DEF HooksInv
<1>1. CASE UNCHANGED <<vars, trouble, study>>
  BY <1>1 DEF AtRest, vars
<1>2. CASE OneNext
  <2> SUFFICES ASSUME study' = "alone" PROVE AtRest'
    BY DEF AtRest
  <2>1. study = "alone"
    BY <1>2, LateStep
  <2>2. /\ now' = now
        /\ \A s \in Sessions \ {s1} : call'[s] = call[s] /\ events'[s] = events[s]
    BY <1>2, <2>1, AloneStep
  <2>3. CASE s1 \in Sessions /\ (HostStep(s1) \/ HookStep(s1) \/ DeliverEvent(s1))
    <3>1. OthersStay(s1)
      BY <2>3, StepLeavesOthers
    <3>2. CASE HostStep(s1)
      <4>1. store' = store
        BY <3>2 DEF HostStep, Prompt, HistoryMoves, BeginCompaction, FinishTurn, FailTurn, WriteSummary,
             CancelCompaction, StreamText, FinishSummary, FailSummary, ActOnVerdict, DeleteSession
      <4> QED BY <2>1, <2>2, <3>1, <4>1 DEF AtRest, OthersStay
    <3>3. CASE HookStep(s1) \/ DeliverEvent(s1)
      <4>1. store'.map[s1] # NoAttempt => store'.map[s1].createdAt = 0
        BY <1>t, <2>1, <2>3, <3>3, AgeStays DEF AtRest
      <4> QED BY <2>1, <2>2, <3>1, <4>1 DEF AtRest, OthersStay
    <3> QED BY <2>3, <3>2, <3>3
  <2>4. CASE DeliverOtherEvent
    BY <1>t, <2>1, <2>2, <2>4 DEF AtRest, DeliverOtherEvent, Found
  <2>5. CASE Restart
    BY <1>t, <2>1, <2>2, <2>5 DEF AtRest, Restart, EmptyStore
  <2> QED BY <1>2, <2>1, <2>3, <2>4, <2>5, AloneStep
<1> QED BY <1>1, <1>2

LEMMA RestInvariant == OneSpec => []AtRest
<1>1. OneInit => AtRest
  BY DEF OneInit, Init, AtRest, EmptyStore, IdleCall
<1>2. HooksInv /\ Managed(Attempt, store) /\ AtRest /\ [OneNext]_<<vars, trouble, study>> => AtRest'
  BY AtRestNext
<1> QED BY <1>1, <1>2, OneIsSpec, HooksInvariant, StoreManaged, PTL DEF OneSpec

\* In one instant nothing expires.
LEMMA FoundIsStored ==
    ASSUME TypeOK, AtRest, study = "alone", NEW s \in Sessions
    PROVE  Found(s) = store.map[s]
<1>1. CASE store.map[s] = NoAttempt
  BY <1>1, FoundStores
<1>2. CASE store.map[s] # NoAttempt
  <2>1. ~Expired(store.map[s], now) /\ s \in Live(store)
    BY <1>2, StoreAssumption DEF AtRest, Expired, Live
  <2> QED BY <2>1 DEF Found, CleanupExpired, KeepOnly
<1> QED BY <1>1, <1>2

----------------------------------------------------------------------------
(* A recovery is not repeated *)

LEMMA InvalidStays ==
    ASSUME NEW s \in Sessions, InvalidBeforeNewestUser(durable[s]),
           durable'[s].compaction = durable[s].compaction, durable'[s].parts = durable[s].parts,
           durable[s].error => durable'[s].error, durable[s].later => durable'[s].later
    PROVE  InvalidBeforeNewestUser(durable'[s])
BY DEF InvalidBeforeNewestUser

LEMMA RecoveringHost ==
    ASSUME TypeOK, NEW s \in Sessions, Recovering(s), HostStep(s), events[s] = <<>>
    PROVE  Recovering(s)'
<1>1. store' = store
  BY DEF HostStep, Prompt, HistoryMoves, BeginCompaction, FinishTurn, FailTurn, WriteSummary,
         CancelCompaction, StreamText, FinishSummary, FailSummary, ActOnVerdict, DeleteSession
<1>2. CASE Prompt(s)
  <2>1. /\ Goes(s, {"idle"}, {"turn"}) /\ HistoryStays(s)
        /\ events' = events /\ recovered' = recovered
    BY <1>2, TurnFields
  <2>2. RecoveryFor(s)'
    BY <2>1, InvalidStays DEF Recovering, RecoveryFor, HistoryStays, Goes
  <2> QED BY <1>1, <2>1, <2>2
          DEF Recovering, OnlyIdle, RecoveryStored, Stored, Tombstone, Goes
<1>3. CASE HistoryMoves(s)
  <2>1. /\ call' = call /\ HistoryStays(s) /\ events' = events /\ recovered' = recovered
    BY <1>3, TurnFields
  <2>2. RecoveryFor(s)'
    BY <2>1, InvalidStays DEF Recovering, RecoveryFor, HistoryStays
  <2> QED BY <1>1, <2>1, <2>2
          DEF Recovering, OnlyIdle, RecoveryStored, Stored, Tombstone
<1>4. CASE FinishTurn(s)
  <2>1. /\ durable' = durable
        /\ \/ /\ Goes(s, {"model"}, {"turn"})
              /\ events' = events /\ recovered' = recovered
           \/ /\ Goes(s, {"model"}, {"idle"})
              /\ events'[s] # <<>> /\ events'[s] = <<"session.idle">>
              /\ recovered'[s] = IF recovered[s] = "turn" THEN "done" ELSE recovered[s]
    BY <1>4, TurnFields
  <2>2. RecoveryFor(s)'
    BY <2>1 DEF Recovering, RecoveryFor, Goes
  <2> QED BY <1>1, <2>1, <2>2
          DEF Recovering, OnlyIdle, RecoveryStored, Stored, Tombstone, Goes
<1>5. CASE FailTurn(s) \/ WriteSummary(s)
  <2>1. recovered'[s] = "none" /\ call'[s].at \in {"idle", "stream"}
    BY <1>5, TurnFields, CompactionFields DEF Goes
  <2> QED BY <2>1 DEF Recovering, RecoveryFor, OnlyIdle, RecoveryStored, Tombstone
<1>6. CASE DeleteSession(s)
  <2>1. /\ durable' = durable /\ call'[s].at = "gone" /\ recovered' = recovered
    BY <1>6, TurnFields DEF Goes
  <2> QED BY <2>1 DEF Recovering, RecoveryFor, OnlyIdle, RecoveryStored, Tombstone
<1>7. CASE BeginCompaction(s)
  <2>1. /\ call'[s].at = "compacting"
        /\ durable' = durable /\ events' = events /\ recovered' = recovered
    BY <1>7, CompactionFields
  <2> QED BY <2>1 DEF Recovering, RecoveryFor, OnlyIdle, RecoveryStored, Tombstone
<1>8. CASE CancelCompaction(s)
  <2>1. /\ Goes(s, {"summary"}, {"idle"}) /\ durable' = durable /\ recovered' = recovered
        /\ events'[s] # <<>> /\ events'[s] = <<"session.idle">>
    BY <1>8, CompactionFields
  <2>2. RecoveryFor(s)'
    BY <2>1 DEF Recovering, RecoveryFor, Goes
  <2> QED BY <1>1, <2>1, <2>2
          DEF Recovering, OnlyIdle, RecoveryStored, Stored, Tombstone, Goes
<1>9. CASE StreamText(s) \/ FinishSummary(s) \/ FailSummary(s) \/ ActOnVerdict(s)
  <2>1. /\ call[s].at \in {"stream", "verdict"} /\ recovered' = recovered
        /\ call'[s].at \in {"text", "idle", "turn"}
    BY <1>9, CompactionFields DEF Goes
  <2>2. recovered'[s] = "none"
    BY <2>1 DEF Recovering, OnlyIdle
  <2> QED BY <2>1, <2>2 DEF Recovering, RecoveryFor, OnlyIdle, RecoveryStored, Tombstone
<1> QED BY <1>2, <1>3, <1>4, <1>5, <1>6, <1>7, <1>8, <1>9 DEF HostStep

LEMMA RecoveringHook ==
    ASSUME TypeOK, NEW s \in Sessions, Recovering(s), HookStep(s), Found(s) = store.map[s],
           Prompted(s)
    PROVE  Recovering(s)'
<1> USE DEF Recovering
<1>t. /\ store.map[s] \in Attempt \cup {NoAttempt}
      /\ \A n \in Nat : NewAttempt(call[s].loaded, n) \in Attempt
      /\ durable[s].compaction \in Nat /\ call[s].compacting \in BOOLEAN
  BY FoundStores DEF TypeOK, Durable, Call
<1>1. CASE CompactingLoad(s)
  <2>1. /\ Goes(s, {"compacting"}, {"compacting_prior"}) /\ Stays(s)
    BY <1>1, CompactingFields
  <2> QED BY <2>1 DEF RecoveryFor, OnlyIdle, RecoveryStored, Tombstone, Goes, Stays
<1>2. CASE CompactingStore(s)
  <2>1. /\ Goes(s, {"compacting_prior"}, {"request"}) /\ Stays(s)
        /\ store'.map[s] = NewAttempt(call[s].loaded, 0)
    BY <1>2, CompactingFields
  <2>2. store'.map[s] # NoAttempt /\ ~store'.map[s].recoveryComplete
    BY <2>1, <1>t, AttemptAssumption DEF NewAttempt
  <2> QED BY <2>1, <2>2 DEF RecoveryFor, OnlyIdle, RecoveryStored, Stored, Tombstone, Goes, Stays
<1>3. CASE CompactingFail(s) \/ TransformFail(s)
  <2>1. recovered'[s] = "none" /\ call'[s].at \in {"request", "summary", "model"}
    BY <1>3, CompactingFields, RecoveryFields DEF Goes, AfterTransform
  <2> QED BY <2>1 DEF RecoveryFor, OnlyIdle, RecoveryStored, Tombstone
<1>4. CASE Transform(s)
  <2>1. call[s].at \in {"turn", "request"} /\ Stays(s) /\ TransformEnds(s)
    BY <1>4, TransformFields
  <2>2. ASSUME recovered[s] = "none" PROVE Recovering(s)'
    <3>1. recovered'[s] = "none"
      BY <2>1, <2>2 DEF Stays
    <3>2. RecoveryFor(s)' /\ RecoveryStored(s)'
      BY <2>1, <3>1 DEF TransformEnds, Awaits, LetsPass, AfterTransform, Stays, RecoveryFor,
                        RecoveryStored, Stored
    <3> QED BY <3>1, <3>2 DEF OnlyIdle, Tombstone
  <2>3. ASSUME recovered[s] # "none" PROVE Recovering(s)'
    <3>1. /\ InvalidBeforeNewestUser(durable[s]) /\ Stored(s)
          /\ recovered' = recovered /\ durable' = durable /\ events' = events
      BY <2>1, <2>3 DEF RecoveryFor, RecoveryStored, Stays
    <3>2. CASE Found(s).recoveryComplete
      <4>1. call[s].at = "turn" /\ store.map[s].recoveryUserID
        BY <2>1, <2>3, <3>2 DEF RecoveryStored
      <4>2. call'[s].at = "model" /\ store'.map[s] = store.map[s]
        BY <2>1, <3>1, <3>2, <4>1 DEF TransformEnds, LetsPass, Stored, AfterTransform
      <4> QED BY <2>1, <2>3, <3>1, <3>2, <4>1, <4>2
              DEF RecoveryFor, OnlyIdle, RecoveryStored, Stored, Tombstone
    <3>3. CASE ~Found(s).recoveryComplete
      <4>1. /\ call'[s].at = "transform_replay" /\ store'.map[s] = store.map[s]
            /\ call'[s].compacting = (call[s].at = "request")
        BY <2>1, <3>1, <3>3 DEF TransformEnds, Awaits, Stored
      <4>2. recovered[s] = "done" => call[s].at = "request"
        BY <2>1, <3>3 DEF Tombstone
      <4> QED BY <2>1, <2>3, <3>1, <4>1, <4>2
              DEF RecoveryFor, OnlyIdle, RecoveryStored, Stored, Tombstone
    <3> QED BY <3>2, <3>3
  <2> QED BY <2>2, <2>3
<1>5. CASE TransformLoad(s) \/ TransformRebuilt(s)
  <2>1. /\ call[s].at \in {"transform_load", "transform_prior"} /\ Stays(s)
        /\ call'[s].at \in {"transform_prior", "transform_replay"}
    BY <1>5, RecoveryFields DEF Goes
  <2>2. recovered[s] = "none" /\ InvalidBeforeNewestUser(durable[s])
    BY <2>1 DEF OnlyIdle, RecoveryFor
  <2>3. call'[s].at = "transform_replay" => store'.map[s] # NoAttempt
    <3>1. CASE TransformLoad(s)
      BY <3>1, RecoveryFields DEF Goes
    <3>2. CASE TransformRebuilt(s)
      <4>1. store'.map[s] = NewAttempt(call[s].loaded, durable[s].compaction)
        BY <3>2, RecoveryFields
      <4> QED BY <4>1, <1>t, AttemptAssumption
    <3> QED BY <1>5, <3>1, <3>2
  <2> QED BY <2>1, <2>2, <2>3
          DEF RecoveryFor, OnlyIdle, RecoveryStored, Stored, Tombstone, Stays
<1>6. CASE TransformRecover(s)
  <2>1. /\ call[s].at = "transform_replay" /\ durable' = durable /\ events' = events
        /\ call'[s].at = AfterTransform(call[s].compacting)
        /\ store'.map[s] = IF store.map[s] = NoAttempt THEN NoAttempt
                           ELSE [store.map[s] EXCEPT !.recoveryUserID = TRUE]
        /\ recovered'[s] = IF call[s].compacting THEN recovered[s] ELSE "turn"
    BY <1>6, RecoveryFields DEF Goes
  <2>2. store.map[s] \in Attempt
    BY <1>t, <2>1 DEF RecoveryStored, Stored
  <2>3. /\ [store.map[s] EXCEPT !.recoveryUserID = TRUE] \in Attempt
        /\ [store.map[s] EXCEPT !.recoveryUserID = TRUE].recoveryUserID
    BY <2>2 DEF Attempt
  <2>4. store'.map[s] # NoAttempt /\ store'.map[s].recoveryUserID
    BY <2>1, <2>2, <2>3, AttemptAssumption
  <2>5. events[s] = <<>>
    BY <2>1 DEF Prompted, EventsSettle
  <2>6. InvalidBeforeNewestUser(durable[s])
    BY <2>1 DEF RecoveryFor
  <2>7. recovered'[s] = "done" => call'[s].at = "summary"
    BY <2>1 DEF Tombstone, AfterTransform
  <2>8. call'[s].at \in {"summary", "model"}
    BY <2>1 DEF AfterTransform
  <2> QED BY <2>1, <2>4, <2>5, <2>6, <2>7, <2>8
          DEF RecoveryFor, OnlyIdle, RecoveryStored, Stored, Tombstone
<1>7. CASE TextLoad(s) \/ TextRebuilt(s) \/ TextUnfit(s) \/ TextFail(s) \/ AutoStart(s)
           \/ AutoLoad(s) \/ AutoRebuilt(s) \/ AutoFail(s)
  <2>1. /\ call[s].at \in {"text", "text_prior", "stream", "auto", "auto_prior"}
        /\ call'[s].at \in {"text_prior", "stream", "auto", "auto_prior", "verdict"}
        /\ recovered' = recovered
    BY <1>7, TextFields, AutoFields DEF Goes, Stays, PartAdded
  <2>2. recovered'[s] = "none"
    BY <2>1 DEF OnlyIdle
  <2> QED BY <2>1, <2>2 DEF RecoveryFor, OnlyIdle, RecoveryStored, Tombstone
<1> QED BY <1>1, <1>2, <1>3, <1>4, <1>5, <1>6, <1>7 DEF HookStep

LEMMA RecoveringEvent ==
    ASSUME TypeOK, NEW s \in Sessions, Recovering(s), DeliverEvent(s), Found(s) = store.map[s],
           Prompted(s)
    PROVE  Recovering(s)'
<1>1. /\ events[s] # <<>> /\ events'[s] = Tail(events[s])
      /\ UNCHANGED <<call, durable, recovered>>
      /\ Head(events[s]) = "session.idle" /\ Found(s) # NoAttempt /\ Found(s).recoveryUserID =>
            store'.map[s] = [Found(s) EXCEPT !.recoveryComplete = TRUE]
  BY EventFields
<1>2. call[s].at \in {"idle", "turn", "gone"}
  BY <1>1 DEF Prompted, EventsSettle
<1>3. CASE recovered[s] = "none" \/ call[s].at = "gone"
  BY <1>1, <1>2, <1>3 DEF Recovering, RecoveryFor, OnlyIdle, RecoveryStored, Tombstone
<1>4. CASE recovered[s] # "none" /\ call[s].at # "gone"
  <2>1. events[s] = <<"session.idle">> /\ store.map[s] # NoAttempt /\ store.map[s].recoveryUserID
    BY <1>1, <1>2, <1>4 DEF Recovering, OnlyIdle, RecoveryStored, Stored
  <2>2. Head(events[s]) = "session.idle" /\ Tail(events[s]) = <<>>
    BY <2>1
  <2>3. store'.map[s] = [store.map[s] EXCEPT !.recoveryComplete = TRUE]
    BY <1>1, <2>1, <2>2
  <2>4. store.map[s] \in Attempt
    BY <2>1, FoundStores
  <2>5. /\ store'.map[s] \in Attempt
        /\ store'.map[s].recoveryComplete /\ store'.map[s].recoveryUserID
    BY <2>1, <2>3, <2>4 DEF Attempt
  <2>6. store'.map[s] # NoAttempt
    BY <2>5, AttemptAssumption
  <2> QED BY <1>1, <1>2, <1>4, <2>2, <2>5, <2>6
          DEF Recovering, RecoveryFor, OnlyIdle, RecoveryStored, Stored, Tombstone
<1> QED BY <1>3, <1>4

LEMMA RecoveryNext ==
    ASSUME HooksInv, PromptInv, AtRest, RecoveryInv,
           [OneNext]_<<vars, trouble, study>>
    PROVE  RecoveryInv'
<1>1. CASE UNCHANGED <<vars, trouble, study>>
  BY <1>1 DEF RecoveryInv, Recovering, RecoveryFor, OnlyIdle, RecoveryStored, Stored, Tombstone, vars
<1>2. CASE OneNext
  <2> SUFFICES ASSUME study' = "alone", "late" \notin trouble', s1 \in Sessions PROVE Recovering(s1)'
    BY DEF RecoveryInv
  <2>1. /\ study = "alone" /\ "late" \notin trouble
        /\ \A s \in Sessions : InTime(s)
    BY <1>2, LateStep
  <2>2. /\ TypeOK /\ Recovering(s1) /\ Prompted(s1) /\ InTime(s1)
    BY <2>1 DEF RecoveryInv, PromptInv, HooksInv
  <2>3. Found(s1) = store.map[s1]
    BY <2>1, <2>2, FoundIsStored
  <2>4. CASE HostStep(s1) \/ HookStep(s1) \/ DeliverEvent(s1)
    BY <2>2, <2>3, <2>4, RecoveringHost, RecoveringHook, RecoveringEvent DEF InTime
  <2>5. CASE DeliverOtherEvent
    <3>1. /\ UNCHANGED <<call, durable, events, recovered>> /\ store'.map[s1] = store.map[s1]
      BY <2>3, <2>5 DEF DeliverOtherEvent, Found
    <3> QED BY <2>2, <3>1 DEF Recovering, RecoveryFor, OnlyIdle, RecoveryStored, Stored, Tombstone
  <2>6. CASE Restart
    <3>1. call'[s1].at \in {"idle", "gone"} /\ recovered'[s1] = "none"
      BY <2>6 DEF Restart, IdleCall
    <3> QED BY <3>1 DEF Recovering, RecoveryFor, OnlyIdle, RecoveryStored, Tombstone
  <2> QED BY <1>2, <2>1, <2>4, <2>5, <2>6, AloneStep
<1> QED BY <1>1, <1>2

LEMMA RecoveryInvariant == OneSpec => []RecoveryInv
<1>1. OneInit => RecoveryInv
  BY DEF OneInit, Init, RecoveryInv, Recovering, RecoveryFor, OnlyIdle, RecoveryStored, Tombstone,
         IdleCall
<1>2. HooksInv /\ PromptInv /\ AtRest /\ RecoveryInv /\ [OneNext]_<<vars, trouble, study>> => RecoveryInv'
  BY RecoveryNext
<1> QED BY <1>1, <1>2, OneIsSpec, HooksInvariant, PromptInvariant, RestInvariant, PTL DEF OneSpec

\* A later turn in the same process does not repeat the recovery of a summary whose
\* recovered turn ended normally (README.md:285).
THEOREM RecoveredOnce == OneSpec => RecoveryNotRepeated
<1>1. HooksInv /\ PromptInv /\ AtRest /\ RecoveryInv /\ [OneNext]_<<vars, trouble, study>> =>
        [\A s \in Sessions :
           study = "alone" /\ recovered[s] = "done" /\ "late" \notin trouble'
             => recovered'[s] # "turn"]_vars
  <2> SUFFICES ASSUME HooksInv, PromptInv, AtRest, RecoveryInv, OneNext, NEW s \in Sessions,
                      study = "alone", recovered[s] = "done", "late" \notin trouble'
               PROVE  recovered'[s] # "turn"
    BY DEF vars
  <2>1. s = s1 /\ "late" \notin trouble
    BY LateStep DEF AtRest
  <2>2. TypeOK /\ Recovering(s)
    BY <2>1 DEF RecoveryInv, HooksInv
  <2>3. CASE HostStep(s)
    BY <2>2, <2>3, TurnFields, CompactionFields DEF HostStep
  <2>4. CASE HookStep(s)
    <3>1. CASE TransformRecover(s)
      BY <2>2, <3>1, RecoveryFields DEF Recovering, Tombstone, Goes
    <3>2. CASE ~TransformRecover(s)
      BY <2>2, <2>4, <3>2, CompactingFields, TransformFields, RecoveryFields, TextFields, AutoFields
         DEF HookStep, Stays, PartAdded
    <3> QED BY <3>1, <3>2
  <2>5. CASE DeliverEvent(s) \/ DeliverOtherEvent
    BY <2>5 DEF DeliverEvent, DeliverOtherEvent
  <2>6. CASE Restart
    BY <2>6 DEF Restart
  <2> QED BY <2>1, <2>3, <2>4, <2>5, <2>6, AloneStep
<1> QED BY <1>1, OneIsSpec, HooksInvariant, PromptInvariant, RestInvariant, RecoveryInvariant, PTL
        DEF OneSpec, RecoveryNotRepeated

----------------------------------------------------------------------------
(* One session alone, nothing late and no failure *)

\* Neither history nor todos moved since the compaction began.
Untouched(s) == durable[s].revision = call[s].born.revision

Prepared(s) ==
    /\ Stored(s)
    /\ store.map[s].ledger = call[s].born
    /\ store.map[s].summaryMessageID = 0
    /\ store.map[s].textPartID = 0

\* The first part is the summary of the plugin, the others are blank.
Rendered(s) ==
    /\ durable[s].parts[1] = PluginText(call[s].born)
    /\ \A i \in DOMAIN durable[s].parts : i # 1 => durable[s].parts[i] = Blank

BoundTo(s, a) ==
    /\ a # NoAttempt
    /\ a.ledger = call[s].born
    /\ a.summaryMessageID = durable[s].compaction
    /\ a.textPartID = 1
    /\ a.validation # "invalid"

\* Before the summary exists its ledger chains what the newest one is.
Chained(s) ==
    /\ \/ call[s].at \in {"compacting", "compacting_prior", "request", "summary"}
       \/ call[s].at \in {"transform_load", "transform_prior", "transform_replay"} /\ call[s].compacting
       => call[s].born.prior = NewestPrior(durable[s], FALSE)
    /\ call[s].at \in {"stream", "text", "text_prior", "auto", "auto_prior"} =>
          call[s].born.prior = durable[s].prior

Begun(s) ==
    Untouched(s) =>
        /\ call[s].at = "compacting_prior" => call[s].loaded = call[s].born
        /\ call[s].at \in {"request", "summary"} => Prepared(s)
        /\ call[s].at \in {"transform_load", "transform_prior"} => ~call[s].compacting
        /\ call[s].at = "transform_replay" /\ call[s].compacting => Prepared(s)

Summarised(s) ==
    Untouched(s) =>
        /\ call[s].at \in {"stream", "text"} =>
              IF durable[s].parts = <<>> THEN Prepared(s)
              ELSE BoundTo(s, store.map[s]) /\ Rendered(s)
        /\ call[s].at # "text_prior"
        /\ call[s].at = "auto" /\ durable[s].parts # <<>> =>
              BoundTo(s, call[s].active) /\ Rendered(s)
        /\ call[s].at = "auto_prior" => Rendered(s) /\ call[s].loaded = call[s].born
                /\ durable[s].parts # <<>>
        /\ call[s].at = "verdict" /\ durable[s].parts # <<>> => call[s].enabled

Caused(s) == Chained(s) /\ Begun(s) /\ Summarised(s)

CauseInv == study = "alone" /\ trouble = {} /\ s1 \in Sessions => Caused(s1)

----------------------------------------------------------------------------
(* A continuation is not refused without cause *)

\* The invariant where the session is not in a compaction.
LEMMA CausedOutside ==
    ASSUME NEW s \in Sessions, call'[s].at \in {"idle", "turn", "model", "gone"}
    PROVE  Caused(s)'
BY DEF Caused, Chained, Begun, Summarised

\* A summary that was rendered part by part is the one of its ledger.
LEMMA RenderedIsValid ==
    ASSUME TypeOK, NEW s \in Sessions, Rendered(s), durable[s].parts # <<>>
    PROVE  Valid(durable[s].parts) /\ SummaryLedger(durable[s].parts) = call[s].born
<1> DEFINE parts == durable[s].parts
<1>1. parts \in Seq(Text)
  BY DEF TypeOK, Durable
<1>2. 1 \in DOMAIN parts
  BY <1>1
<1>3. /\ parts[1].kind = "plugin" /\ parts[1].ledger = call[s].born
      /\ \A i \in DOMAIN parts : i # 1 => parts[i].kind = "blank"
  BY DEF Rendered, PluginText, Blank
<1> HIDE DEF parts
<1>4. {i \in DOMAIN parts : parts[i].kind # "blank"} = {1}
  BY <1>2, <1>3
<1>5. Valid(parts)
  BY <1>2, <1>3, <1>4 DEF Valid
<1>6. \A i \in DOMAIN parts : parts[i].kind = "plugin" => i = 1
  BY <1>3
<1>7. SummaryLedger(parts) = call[s].born
  BY <1>2, <1>3, <1>6 DEF SummaryLedger
<1> QED BY <1>5, <1>7 DEF parts

LEMMA SpokenIsThere == Valid(<<>>) = FALSE
BY DEF Valid

LEMMA BornLedger ==
    ASSUME TypeOK, NEW s \in Sessions, Untouched(s), NEW x \in BOOLEAN,
           call[s].born.prior = NewestPrior(durable[s], x)
    PROVE  LedgerOf(durable[s], x) = call[s].born
<1>1. call[s].born \in Ledger
  BY DEF TypeOK, Call
<1> QED BY <1>1 DEF Ledger, LedgerOf, Untouched

\* History that moved does not move back.
LEMMA UntouchedBefore ==
    ASSUME TypeOK, NEW s \in Sessions, DurableInOrder(s), Untouched(s)',
           call'[s].born = call[s].born, durable'[s].revision >= durable[s].revision
    PROVE  Untouched(s)
<1>1. durable[s].revision \in Nat /\ call[s].born.revision \in Nat
  BY DEF TypeOK, Durable, Call, Ledger
<1> QED BY <1>1 DEF Untouched, DurableInOrder

LEMMA CausedHost ==
    ASSUME TypeOK, NEW s \in Sessions, DurableInOrder(s), Caused(s), HostStep(s)
    PROVE  Caused(s)'
<1> USE DEF Caused
<1>1. store' = store
  BY DEF HostStep, Prompt, HistoryMoves, BeginCompaction, FinishTurn, FailTurn, WriteSummary,
         CancelCompaction, StreamText, FinishSummary, FailSummary, ActOnVerdict, DeleteSession
<1>2. CASE \/ Prompt(s) \/ FinishTurn(s) \/ FailTurn(s) \/ DeleteSession(s) \/ CancelCompaction(s)
           \/ FinishSummary(s) \/ FailSummary(s) \/ ActOnVerdict(s)
  <2>1. call'[s].at \in {"idle", "turn", "gone"}
    BY <1>2, TurnFields, CompactionFields DEF Goes
  <2> QED BY <2>1, CausedOutside
<1>3. CASE HistoryMoves(s)
  <2>1. /\ call' = call /\ HistoryStays(s) /\ durable'[s].revision # durable[s].revision
    BY <1>3, TurnFields
  <2>2. durable[s].revision \in Nat /\ call[s].born.revision \in Nat /\ durable'[s].revision > call[s].born.revision
    <3>1. durable[s].revision \in Nat /\ call[s].born.revision \in Nat
      BY DEF TypeOK, Durable, Call, Ledger
    <3>2. durable'[s].revision = durable[s].revision + 1
      BY <1>3 DEF HistoryMoves, TypeOK, Durable
    <3> QED BY <3>1, <3>2 DEF DurableInOrder
  <2>3. ~Untouched(s)'
    BY <2>1, <2>2 DEF Untouched
  <2>4. NewestPrior(durable'[s], FALSE) = NewestPrior(durable[s], FALSE)
    BY <2>1 DEF HistoryStays, NewestPrior
  <2>5. Chained(s)'
    BY <2>1, <2>4 DEF Chained, HistoryStays
  <2> QED BY <2>3, <2>5 DEF Begun, Summarised
<1>4. CASE BeginCompaction(s)
  <2>1. /\ call'[s].at = "compacting" /\ call'[s].born = LedgerOf(durable[s], FALSE)
        /\ durable' = durable
    BY <1>4, CompactionFields
  <2> QED BY <2>1 DEF Chained, Begun, Summarised, LedgerOf
<1>5. CASE WriteSummary(s)
  <2>1. /\ Goes(s, {"summary"}, {"stream"})
        /\ durable'[s].revision = durable[s].revision
        /\ durable'[s].prior = NewestPrior(durable[s], FALSE)
        /\ durable'[s].parts = <<>>
    BY <1>5, CompactionFields
  <2> QED BY <1>1, <2>1 DEF Chained, Begun, Summarised, Goes, Untouched, Prepared, Stored
<1>6. CASE StreamText(s)
  <2>1. /\ Goes(s, {"stream"}, {"text"}) /\ durable' = durable
    BY <1>6, CompactionFields
  <2> QED BY <1>1, <2>1
          DEF Chained, Begun, Summarised, Goes, Untouched, Prepared, Stored, BoundTo, Rendered
<1> QED BY <1>2, <1>3, <1>4, <1>5, <1>6 DEF HostStep

LEMMA JudgedFields ==
    ASSUME NEW s \in Sessions, NEW a \in Attempt, Part(s) \in Nat, durable[s].compaction \in Nat,
           Judge(call[s].raw, a.ledger) \in Validation
    PROVE  /\ Judged(s, a) \in Attempt
           /\ Judged(s, a).ledger = a.ledger
           /\ Judged(s, a).textPartID = Part(s)
           /\ Judged(s, a).summaryMessageID = durable[s].compaction
           /\ Judged(s, a).validation = Judge(call[s].raw, a.ledger)
<1> DEFINE v == Judge(call[s].raw, a.ledger)
           n == Part(s)
           m == durable[s].compaction
           b == [a EXCEPT !.textPartID = n, !.summaryMessageID = m, !.validation = v]
<1>1. b = Judged(s, a) /\ v \in Validation /\ n \in Nat /\ m \in Nat
  BY DEF Judged
<1>2. v = Judge(call[s].raw, a.ledger) /\ n = Part(s) /\ m = durable[s].compaction
  OBVIOUS
<1> HIDE DEF v, n, m
<1>3. /\ b \in Attempt /\ b.ledger = a.ledger /\ b.textPartID = n /\ b.summaryMessageID = m
      /\ b.validation = v
  BY <1>1 DEF Attempt
<1> HIDE DEF b
<1> QED BY <1>1, <1>2, <1>3

LEMMA CausedHook ==
    ASSUME TypeOK, NEW s \in Sessions, DurableInOrder(s), Caused(s), Found(s) = store.map[s],
           HookStep(s),
           \/ CompactingLoad(s) \/ CompactingStore(s)
           \/ Transform(s) \/ TransformLoad(s) \/ TransformRebuilt(s) \/ TransformRecover(s)
           \/ TextLoad(s) \/ TextRebuilt(s)
           \/ AutoStart(s) \/ AutoLoad(s) \/ AutoRebuilt(s)
    PROVE  Caused(s)'
<1> USE DEF Caused
<1>t. /\ store.map[s] \in Attempt \cup {NoAttempt}
      /\ \A n \in Nat : NewAttempt(call[s].loaded, n) \in Attempt
      /\ durable[s].compaction \in Nat /\ call[s].compacting \in BOOLEAN
      /\ durable[s].revision \in Nat /\ durable[s].parts \in Seq(Text)
  BY FoundStores DEF TypeOK, Durable, Call
<1>r. durable'[s].revision = durable[s].revision /\ call'[s].born = call[s].born
  BY CompactingFields, TransformFields, RecoveryFields, TextFields, AutoFields
     DEF Goes, Stays, PartAdded, TransformEnds, Awaits, LetsPass
<1>u. Untouched(s)' <=> Untouched(s)
  BY <1>r DEF Untouched
<1>1. CASE CompactingLoad(s)
  <2>1. /\ Goes(s, {"compacting"}, {"compacting_prior"}) /\ durable' = durable
        /\ call'[s].loaded = LedgerOf(durable[s], FALSE)
    BY <1>1, CompactingFields DEF Stays
  <2>2. Untouched(s) => LedgerOf(durable[s], FALSE) = call[s].born
    BY <2>1, BornLedger DEF Chained, Goes
  <2> QED BY <2>1, <2>2, <1>r, <1>u DEF Chained, Begun, Summarised, Goes
<1>2. CASE CompactingStore(s)
  <2>1. /\ Goes(s, {"compacting_prior"}, {"request"}) /\ durable' = durable
        /\ store'.map[s] = NewAttempt(call[s].loaded, 0)
    BY <1>2, CompactingFields DEF Stays
  <2>2. store'.map[s] # NoAttempt /\ store'.map[s].ledger = call[s].loaded
        /\ store'.map[s].summaryMessageID = 0 /\ store'.map[s].textPartID = 0
    BY <2>1, <1>t, AttemptAssumption DEF NewAttempt
  <2> QED BY <2>1, <2>2, <1>r, <1>u DEF Chained, Begun, Summarised, Goes, Prepared, Stored
<1>3. CASE Transform(s)
  <2>1. call[s].at \in {"turn", "request"} /\ durable' = durable /\ TransformEnds(s)
    BY <1>3, TransformFields DEF Stays
  <2>2. CASE call[s].at = "turn"
    <3>1. call'[s].at = "model" \/
          (call'[s].at \in {"transform_load", "transform_replay"} /\ call'[s].compacting = FALSE)
      BY <2>1, <2>2 DEF TransformEnds, Awaits, LetsPass, AfterTransform
    <3> QED BY <3>1 DEF Chained, Begun, Summarised
  <2>3. CASE call[s].at = "request"
    <3>1. call'[s].at \in {"summary", "transform_load", "transform_replay"}
          /\ (call'[s].at # "summary" => call'[s].compacting)
      BY <2>1, <2>3 DEF TransformEnds, Awaits, LetsPass, AfterTransform
    <3>2. Chained(s)'
      BY <2>1, <2>3, <3>1, <1>r DEF Chained
    <3>3. ASSUME Untouched(s) PROVE Prepared(s)' /\ call'[s].at # "transform_load"
      <4>1. Prepared(s)
        BY <2>3, <3>3 DEF Begun
      <4>2. Found(s) # NoAttempt /\ Found(s).summaryMessageID = 0
        BY <4>1 DEF Prepared, Stored
      <4>3. store'.map[s] = store.map[s] /\ call'[s].at # "transform_load"
        BY <2>1, <2>3, <4>2 DEF TransformEnds, Awaits, LetsPass, AfterTransform
      <4> QED BY <4>1, <4>3, <1>r DEF Prepared, Stored
    <3> QED BY <3>1, <3>2, <3>3, <1>u DEF Begun, Summarised
  <2> QED BY <2>1, <2>2, <2>3
<1>4. CASE TransformLoad(s)
  <2>1. /\ Goes(s, {"transform_load"}, {"transform_prior"}) /\ durable' = durable
        /\ call'[s].compacting = call[s].compacting
    BY <1>4, RecoveryFields DEF Stays
  <2> QED BY <2>1, <1>r, <1>u DEF Chained, Begun, Summarised, Goes
<1>5. CASE TransformRebuilt(s)
  <2>1. /\ Goes(s, {"transform_prior"}, {"transform_replay"}) /\ durable' = durable
        /\ call'[s].compacting = call[s].compacting
    BY <1>5, RecoveryFields DEF Stays
  <2> QED BY <2>1, <1>r, <1>u DEF Chained, Begun, Summarised, Goes
<1>6. CASE TransformRecover(s)
  <2>1. /\ Goes(s, {"transform_replay"}, {AfterTransform(call[s].compacting)}) /\ durable' = durable
        /\ store'.map[s] = IF store.map[s] = NoAttempt THEN NoAttempt
                           ELSE [store.map[s] EXCEPT !.recoveryUserID = TRUE]
    BY <1>6, RecoveryFields
  <2>2. CASE ~call[s].compacting
    BY <2>1, <2>2, CausedOutside DEF Goes, AfterTransform
  <2>3. CASE call[s].compacting
    <3>1. call[s].at = "transform_replay" /\ call'[s].at = "summary"
      BY <2>1, <2>3 DEF Goes, AfterTransform
    <3>2. Prepared(s) => Prepared(s)'
      <4> SUFFICES ASSUME Prepared(s) PROVE Prepared(s)'
        OBVIOUS
      <4>1. store.map[s] \in Attempt /\ store'.map[s] = [store.map[s] EXCEPT !.recoveryUserID = TRUE]
        BY <2>1, <1>t DEF Prepared, Stored
      <4>2. /\ store'.map[s] \in Attempt /\ store'.map[s].ledger = store.map[s].ledger
            /\ store'.map[s].summaryMessageID = store.map[s].summaryMessageID
            /\ store'.map[s].textPartID = store.map[s].textPartID
        BY <4>1 DEF Attempt
      <4> QED BY <4>2, <1>r, AttemptAssumption DEF Prepared, Stored
    <3> QED BY <2>1, <2>3, <3>1, <3>2, <1>r, <1>u DEF Chained, Begun, Summarised
  <2> QED BY <1>t, <2>2, <2>3
<1>7. CASE TextLoad(s)
  <2>1. CASE /\ Found(s) = NoAttempt \/ BelongsElsewhere(s, Found(s))
             /\ Goes(s, {"text"}, {"text_prior"}) /\ Stays(s)
    <3>1. ~Untouched(s)
      BY <2>1 DEF Summarised, Prepared, Stored, BoundTo, BelongsElsewhere, Goes
    <3>2. Chained(s)'
      BY <2>1, <1>r DEF Chained, Goes, Stays
    <3> QED BY <3>1, <3>2, <1>u DEF Begun, Summarised
  <2>2. CASE /\ Found(s) # NoAttempt /\ ~BelongsElsewhere(s, Found(s))
             /\ Goes(s, {"text"}, {"stream"}) /\ PartAdded(s)
             /\ Completed(s, Found(s))
    <3>1. Chained(s)'
      BY <2>2, <1>r DEF Chained, Goes, PartAdded
    <3>2. ASSUME Untouched(s) PROVE BoundTo(s, store.map[s])' /\ Rendered(s)' /\ durable'[s].parts # <<>>
      <4>0. store.map[s] \in Attempt
        BY <2>2, <1>t
      <4>1. CASE durable[s].parts = <<>>
        <5>1. Prepared(s)
          BY <2>2, <3>2, <4>1 DEF Summarised, Goes
        <5>2. Part(s) = 1
          BY <4>1 DEF Part
        <5>3. /\ store'.map[s] = Judged(s, store.map[s])
              /\ durable'[s].parts = Append(durable[s].parts, PluginText(call[s].born))
          BY <2>2, <5>1 DEF Completed, Prepared
        <5>4. Judge(call[s].raw, store.map[s].ledger) \in {"provider", "fallback"}
          BY DEF Judge
        <5>5. Judge(call[s].raw, store.map[s].ledger) \in Validation
          BY <5>4 DEF Validation
        <5>7. /\ store'.map[s] \in Attempt
              /\ store'.map[s].ledger = store.map[s].ledger
              /\ store'.map[s].textPartID = 1
              /\ store'.map[s].summaryMessageID = durable[s].compaction
              /\ store'.map[s].validation # "invalid"
          BY <4>0, <5>2, <5>3, <5>4, <5>5, <1>t, JudgedFields
        <5>8. BoundTo(s, store.map[s])'
          BY <2>2, <5>1, <5>7, <1>r, AttemptAssumption DEF BoundTo, Prepared, PartAdded
        <5>9. durable'[s].parts = <<PluginText(call[s].born)>>
          BY <4>1, <5>3
        <5> QED BY <5>8, <5>9, <1>r DEF Rendered
      <4>2. CASE durable[s].parts # <<>>
        <5>1. BoundTo(s, store.map[s]) /\ Rendered(s)
          BY <2>2, <3>2, <4>2 DEF Summarised, Goes
        <5>2. Part(s) # 1 /\ Part(s) = Len(durable[s].parts) + 1 /\ 1 \in DOMAIN durable[s].parts
          BY <4>2, <1>t DEF Part
        <5>3. /\ store'.map[s] = store.map[s]
              /\ durable'[s].parts = Append(durable[s].parts, Blank)
          BY <2>2, <5>1, <5>2 DEF Completed, BoundTo
        <5>4. BoundTo(s, store.map[s])'
          BY <2>2, <5>1, <5>3, <1>r DEF BoundTo, PartAdded
        <5>5. Rendered(s)' /\ durable'[s].parts # <<>>
          <6> DEFINE parts == durable[s].parts
          <6>0. Blank \in Text
            BY ValueTypes
          <6>1. /\ durable'[s].parts \in Seq(Text)
                /\ Len(durable'[s].parts) = Len(parts) + 1
                /\ \A i \in DOMAIN parts : durable'[s].parts[i] = parts[i]
                /\ durable'[s].parts[Len(parts) + 1] = Blank
            BY <5>3, <6>0, <1>t
          <6>2. \A i \in DOMAIN durable'[s].parts : i \in DOMAIN parts \/ i = Len(parts) + 1
            BY <6>1, <1>t
          <6>3. durable'[s].parts # <<>>
            BY <6>1, <1>t
          <6> QED BY <5>1, <5>2, <6>1, <6>2, <6>3, <1>r DEF Rendered
        <5> QED BY <5>4, <5>5
      <4> QED BY <4>1, <4>2
    <3> QED BY <2>2, <3>1, <3>2, <1>u DEF Begun, Summarised, Goes
  <2> QED BY <1>7, <2>1, <2>2, TextFields
<1>8. CASE TextRebuilt(s)
  <2>1. Goes(s, {"text_prior"}, {"stream"}) /\ PartAdded(s)
    BY <1>8, TextFields
  <2>2. ~Untouched(s)
    BY <2>1 DEF Summarised, Goes
  <2>3. Chained(s)'
    BY <2>1, <1>r DEF Chained, Goes, PartAdded
  <2> QED BY <2>2, <2>3, <1>u DEF Begun, Summarised
<1>9. CASE AutoStart(s)
  <2>1. Goes(s, {"stream"}, {"auto"}) /\ durable' = durable /\ call'[s].active = store.map[s]
    BY <1>9, AutoFields DEF Stays
  <2> QED BY <2>1, <1>r, <1>u DEF Chained, Begun, Summarised, Goes, BoundTo, Rendered
<1>10. CASE AutoLoad(s)
  <2> DEFINE refused == /\ call[s].active # NoAttempt
                        /\ call[s].active.summaryMessageID = durable[s].compaction
                        /\ call[s].active.validation = "invalid"
  <2>1. CASE /\ Valid(durable[s].parts) /\ Goes(s, {"auto"}, {"auto_prior"})
             /\ call'[s].loaded = LedgerOf(durable[s], TRUE) /\ Stays(s)
    <3>1. durable[s].parts # <<>>
      BY <2>1, SpokenIsThere
    <3>2. call[s].born.prior = NewestPrior(durable[s], TRUE)
      BY <2>1 DEF Chained, NewestPrior, Goes
    <3>3. Untouched(s) => Rendered(s) /\ LedgerOf(durable[s], TRUE) = call[s].born
      BY <2>1, <3>1, <3>2, BornLedger DEF Summarised, Goes
    <3> QED BY <2>1, <3>1, <3>3, <1>r, <1>u
            DEF Chained, Begun, Summarised, Goes, Stays, Rendered
  <2>2. CASE /\ refused \/ ~Valid(durable[s].parts)
             /\ Goes(s, {"auto"}, {"verdict"}) /\ Stays(s)
    <3>1. Untouched(s) => durable[s].parts = <<>>
      BY <2>2, RenderedIsValid DEF Summarised, BoundTo, Goes
    <3> QED BY <2>2, <3>1, <1>r, <1>u DEF Chained, Begun, Summarised, Goes, Stays
  <2> QED BY <1>10, <2>1, <2>2, AutoFields
<1>11. CASE AutoRebuilt(s)
  <2>1. /\ Goes(s, {"auto_prior"}, {"verdict"}) /\ durable' = durable
        /\ call'[s].enabled = (SummaryLedger(durable[s].parts) = call[s].loaded)
    BY <1>11, AutoFields DEF Stays
  <2>2. Untouched(s) => SummaryLedger(durable[s].parts) = call[s].loaded
    BY <2>1, RenderedIsValid DEF Summarised, Goes
  <2> QED BY <2>1, <2>2, <1>r, <1>u DEF Chained, Begun, Summarised, Goes
<1> QED
  BY <1>1, <1>2, <1>3, <1>4, <1>5, <1>6, <1>7, <1>8, <1>9, <1>10, <1>11

LEMMA CauseNext ==
    ASSUME HooksInv, PromptInv, AtRest, CauseInv, [OneNext]_<<vars, trouble, study>>
    PROVE  CauseInv'
<1>1. CASE UNCHANGED <<vars, trouble, study>>
  BY <1>1 DEF CauseInv, Caused, Chained, Begun, Summarised, Untouched, Prepared, Stored, BoundTo,
              Rendered, vars
<1>2. CASE OneNext
  <2> SUFFICES ASSUME study' = "alone", trouble' = {}, s1 \in Sessions PROVE Caused(s1)'
    BY DEF CauseInv
  <2>1. study = "alone" /\ trouble = {} /\ ~Failing
    BY <1>2, LateStep
  <2>2. /\ TypeOK /\ Caused(s1) /\ Prompted(s1) /\ DurableInOrder(s1)
    BY <2>1 DEF CauseInv, PromptInv, HooksInv, SessionInv
  <2>3. Found(s1) = store.map[s1]
    BY <2>1, <2>2, FoundIsStored
  <2>4. CASE HostStep(s1)
    BY <2>2, <2>4, CausedHost
  <2>5. CASE HookStep(s1)
    <3>1. /\ CompactingFail(s1) => CompactingStore(s1)
          /\ AutoFail(s1) => AutoLoad(s1) \/ AutoRebuilt(s1)
          /\ ~TransformFail(s1) /\ ~TextUnfit(s1) /\ ~TextFail(s1)
      BY <2>1 DEF Failing
    <3> QED BY <2>2, <2>3, <2>5, <3>1, CausedHook DEF HookStep
  <2>6. CASE DeliverEvent(s1)
    <3>1. call[s1].at \in {"idle", "turn", "gone"} /\ call' = call
      BY <2>2, <2>6, EventFields DEF Prompted, EventsSettle
    <3> QED BY <3>1, CausedOutside
  <2>7. CASE DeliverOtherEvent
    <3>1. /\ UNCHANGED <<call, durable>> /\ store'.map[s1] = store.map[s1]
      BY <2>3, <2>7 DEF DeliverOtherEvent, Found
    <3> QED BY <2>2, <3>1 DEF Caused, Chained, Begun, Summarised, Untouched, Prepared, Stored, BoundTo,
                              Rendered
  <2>8. CASE Restart
    <3>1. call'[s1].at \in {"idle", "gone"}
      BY <2>8 DEF Restart, IdleCall
    <3> QED BY <3>1, CausedOutside
  <2> QED BY <1>2, <2>1, <2>4, <2>5, <2>6, <2>7, <2>8, AloneStep
<1> QED BY <1>1, <1>2

LEMMA CauseInvariant == OneSpec => []CauseInv
<1>1. OneInit => CauseInv
  <2> SUFFICES ASSUME OneInit, s1 \in Sessions PROVE Caused(s1)
    BY DEF CauseInv
  <2>1. call[s1].at = "idle"
    BY DEF OneInit, Init, IdleCall
  <2> QED BY <2>1 DEF Caused, Chained, Begun, Summarised
<1>2. HooksInv /\ PromptInv /\ AtRest /\ CauseInv /\ [OneNext]_<<vars, trouble, study>> => CauseInv'
  BY CauseNext
<1> QED BY <1>1, <1>2, OneIsSpec, HooksInvariant, PromptInvariant, RestInvariant, PTL DEF OneSpec

\* Auto-continuation is not refused without cause (server.ts:378-397): undisturbed, a
\* summary with any text continues, however many parts the model split it into.
THEOREM ContinuesUnlessDisturbed == OneSpec => []RefusedOnlyForCause
<1>1. AtRest /\ CauseInv => RefusedOnlyForCause
  BY DEF AtRest, CauseInv, Caused, Summarised, Untouched, RefusedOnlyForCause
<1> QED BY <1>1, RestInvariant, CauseInvariant, PTL
=============================================================================
