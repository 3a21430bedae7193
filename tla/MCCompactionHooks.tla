------------------------ MODULE MCCompactionHooks ------------------------
(* Small instances of CompactionHooks. *)
EXTENDS CompactionHooks

CONSTANTS s1, s2

\* One session with all its behaviour.
OneSession == {s1}
OneRevision == [s \in {s1} |-> 2]
OneCompaction == [s \in {s1} |-> 2]

\* A session under study and one that only competes for the store.
TwoSessions == {s1, s2}
TwoRevision == [s \in {s1, s2} |-> IF s = s1 THEN 2 ELSE 0]
TwoCompaction == [s \in {s1, s2} |-> IF s = s1 THEN 2 ELSE 1]

VARIABLES
    study,      \* whether s1 is studied alone, or beside the other session
    trouble     \* history: an event was late, so that the host went on before it;
                \* something failed

Late ==
    \E s \in Sessions :
        events[s] # <<>> /\ (HostStep(s) \/ Transform(s) \/ AutoStart(s))
\* AutoFail has the effect of a refusal.
Failing ==
    \E s \in Sessions :
        \/ FailTurn(s) \/ CancelCompaction(s) \/ FailSummary(s)
        \/ TransformFail(s) \/ TextUnfit(s) \/ TextFail(s)
        \/ CompactingFail(s) /\ ~CompactingStore(s)
        \/ AutoFail(s) /\ ~AutoLoad(s) /\ ~AutoRebuilt(s)

\* Bound: s1 has all its behaviour when it is alone, in one instant.
Alone ==
    /\ now' = now
    /\ \A s \in Sessions \ {s1} :
          durable'[s] = durable[s] /\ call'[s] = call[s] /\ events'[s] = events[s]

\* Bound: beside the other session time passes, nothing fails or restarts, a session has
\* one compaction and no other change, a summary one part, and one event is underway.
Beside ==
    /\ ~Failing
    /\ restarts' = 0
    /\ durable'[s1].revision = 0
    /\ ~(BeginCompaction(s1) /\ durable[s1].compaction = 1)
    /\ \A s \in Sessions : ~(StreamText(s) /\ durable[s].parts # <<>>) /\ Len(events'[s]) <= 1

OneInit == Init /\ trouble = {} /\ study \in {"alone", "beside"}
OneNext ==
    /\ Next
    /\ UNCHANGED study
    /\ IF study = "alone" THEN Alone ELSE Beside
    /\ trouble' = trouble \cup (IF Late THEN {"late"} ELSE {})
                          \cup (IF Failing THEN {"fault"} ELSE {})
OneSpec == OneInit /\ [][OneNext]_<<vars, trouble, study>>

\* Bound: after something failed no event is late, and the other way round.
TroubleBound == trouble # {"late", "fault"}

\* A later turn in the same process does not repeat the recovery of a summary whose
\* recovered turn ended normally (README.md:285, the recovery-complete tombstone), as
\* long as no event of the host is late and no other session evicts the tombstone.
RecoveryNotRepeated ==
    [][\A s \in Sessions :
         study = "alone" /\ recovered[s] = "done" /\ "late" \notin trouble'
           => recovered'[s] # "turn"]_vars

\* Outside compaction and recovery a model turn gets its history unchanged
\* (README.md:282), also when an attempt is left over from a compaction, as long as no
\* event of the host is late.
NormalTurnUnchanged ==
    [][\A s \in Sessions :
         call'[s].at = "model" /\ call[s].at # "model" /\ "late" \notin trouble'
           => sent'[s].history # "sanitized"]_vars

\* Auto-continuation is not refused without cause (server.ts:378-397): as long as nothing
\* failed and no event was late, and when neither history nor todos moved during the
\* compaction, a summary with any text of a session alone in the store continues, however
\* many parts the model split it into.
RefusedOnlyForCause ==
    \A s \in Sessions :
        /\ study = "alone" /\ trouble = {}
        /\ call[s].at = "verdict"
        /\ durable[s].parts # <<>>
        /\ durable[s].revision = call[s].born.revision
        => call[s].enabled
==========================================================================
