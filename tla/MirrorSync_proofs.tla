-------------------------- MODULE MirrorSync_proofs --------------------------
(***************************************************************************)
(* AppliedInOrder, the refinement of OrderedMirror, TableIsReplay and      *)
(* NothingLost, for any adapter, any number of workers and any faults.     *)
(*                                                                         *)
(* The argument: every row, in the outbox or in the hands of a worker,     *)
(* carries the entry of the log at its revision, and no worker holds a     *)
(* revision above the remote one.  The fence lets a batch through only     *)
(* when its revisions continue the remote revision without a gap, so what  *)
(* is applied next is what the log has next.  As long as one worker runs   *)
(* at a time, the ids it acknowledges are those of rows that were applied. *)
(* A row that a batch leaves out is overwritten, and its snapshot mark set *)
(* again, before the next control record, so the tables end every batch as *)
(* the entries one by one would have left them.                            *)
(*                                                                         *)
(* CursorSound of the worker that reads the mirror for retrieval, for any  *)
(* documents, page size and faults: whatever a stream found and is not     *)
(* stored is still ahead of the page in hand, in the order of the query,   *)
(* or in the hands of a thread.                                            *)
(***************************************************************************)
EXTENDS MirrorSync, RagPipeline, FiniteSetTheorems, Listing_proofs, TLAPS

IsRow(r) == r = [id |-> r.id, rev |-> r.rev, entry |-> r.entry, state |-> r.state]

\* What the provers need to know of the record of a job.
IsJob(j) == {"rows", "revision"} \subseteq DOMAIN j

\* Rows that carry entries of the log l.
RowsOK(rows, l) ==
    /\ IsFiniteSet(rows)
    /\ \A r \in rows : IsRow(r) /\ r.rev \in 1 .. Len(l) /\ r.entry = l[r.rev]

JobOK(j, l, high) == IsJob(j) /\ RowsOK(j.rows, l) /\ j.revision \in 0 .. high

JobsOK(jobs, l, high) ==
    /\ jobs = [w \in Workers |-> jobs[w]]
    /\ \A w \in Workers : JobOK(jobs[w], l, high)

LogOK ==
    /\ log \in Seq(Entries)
    /\ highWater \in Nat /\ known \in Nat
    /\ AppliedInOrder

IInv == LogOK /\ RowsOK(outbox, log) /\ JobsOK(job, log, highWater)

----------------------------------------------------------------------------
(* Sequences *)

LEMMA SubSeqWhole ==
    ASSUME NEW S, NEW s \in Seq(S)
    PROVE  SubSeq(s, 1, Len(s)) = s
  OBVIOUS

LEMMA SubSeqLen ==
    ASSUME NEW S, NEW s \in Seq(S), NEW n \in 0 .. Len(s)
    PROVE  Len(SubSeq(s, 1, n)) = n
  OBVIOUS

LEMMA SubSeqSelf ==
    ASSUME NEW S, NEW s \in Seq(S), NEW n \in 0 .. Len(s), NEW k \in 0 .. n
    PROVE  SubSeq(s, 1, k) = SubSeq(SubSeq(s, 1, n), 1, k)
  <1>1. SubSeq(s, 1, n) \in Seq(S) /\ Len(SubSeq(s, 1, n)) = n
    OBVIOUS
  <1> QED  BY <1>1

\* A prefix extended by what comes next in the sequence is a prefix.
LEMMA SubSeqExtend ==
    ASSUME NEW S, NEW s \in Seq(S), NEW n \in Nat, NEW k \in Nat, n + k <= Len(s),
           NEW t, t = [i \in 1 .. k |-> s[n + i]]
    PROVE  SubSeq(s, 1, n) \o t = SubSeq(s, 1, n + k)
  <1>1. t \in Seq(S) /\ Len(t) = k
    <2>1. \A i \in 1 .. k : s[n + i] \in S
      OBVIOUS
    <2> QED  BY <2>1
  <1>2. SubSeq(s, 1, n) \in Seq(S) /\ Len(SubSeq(s, 1, n)) = n
    OBVIOUS
  <1>3. SubSeq(s, 1, n + k) \in Seq(S) /\ Len(SubSeq(s, 1, n + k)) = n + k
    OBVIOUS
  <1>4. SubSeq(s, 1, n) \o t \in Seq(S) /\ Len(SubSeq(s, 1, n) \o t) = n + k
    BY <1>1, <1>2
  <1>5. ASSUME NEW i \in 1 .. n + k
        PROVE  (SubSeq(s, 1, n) \o t)[i] = SubSeq(s, 1, n + k)[i]
    <2>1. CASE i <= n
      BY <2>1, <1>1, <1>2
    <2>2. CASE i > n
      <3>1. i - n \in 1 .. k
        BY <2>2
      <3>2. (SubSeq(s, 1, n) \o t)[i] = t[i - n]
        BY <2>2, <1>1, <1>2
      <3>3. t[i - n] = s[i]
        BY <3>1
      <3> QED  BY <3>2, <3>3
    <2> QED  BY <2>1, <2>2
  <1> QED  BY <1>3, <1>4, <1>5

\* Entries of the log stay where they are when it grows.
LEMMA ConcatKeeps ==
    ASSUME NEW S, NEW s \in Seq(S), NEW t \in Seq(S)
    PROVE  /\ s \o t \in Seq(S)
           /\ Len(s \o t) = Len(s) + Len(t)
           /\ \A i \in 1 .. Len(s) : (s \o t)[i] = s[i]
           /\ \A i \in 1 .. Len(t) : (s \o t)[Len(s) + i] = t[i]
           /\ \A n \in 0 .. Len(s) : SubSeq(s \o t, 1, n) = SubSeq(s, 1, n)
  <1>1. s \o t \in Seq(S) /\ Len(s \o t) = Len(s) + Len(t)
    OBVIOUS
  <1>2. \A i \in 1 .. Len(s) : (s \o t)[i] = s[i]
    OBVIOUS
  <1>3. \A i \in 1 .. Len(t) : (s \o t)[Len(s) + i] = t[i]
    OBVIOUS
  <1>4. ASSUME NEW n \in 0 .. Len(s)
        PROVE  SubSeq(s \o t, 1, n) = SubSeq(s, 1, n)
    <2>1. SubSeq(s \o t, 1, n) \in Seq(S) /\ Len(SubSeq(s \o t, 1, n)) = n
      BY <1>1
    <2>2. SubSeq(s, 1, n) \in Seq(S) /\ Len(SubSeq(s, 1, n)) = n
      OBVIOUS
    <2>3. \A i \in 1 .. n : SubSeq(s \o t, 1, n)[i] = SubSeq(s, 1, n)[i]
      BY <1>1, <1>2
    <2> QED  BY <2>1, <2>2, <2>3
  <1> QED  BY <1>1, <1>2, <1>3, <1>4

----------------------------------------------------------------------------
(* Rows and jobs *)

LEMMA RowsSubset ==
    ASSUME NEW l, NEW rows, RowsOK(rows, l), NEW some \in SUBSET rows
    PROVE  RowsOK(some, l)
  BY FS_Subset DEF RowsOK

LEMMA NoRows == ASSUME NEW l PROVE RowsOK({}, l)
  BY FS_EmptySet DEF RowsOK

LEMMA RowsSetState ==
    ASSUME NEW l, NEW rows, RowsOK(rows, l), NEW ids, NEW state
    PROVE  RowsOK(SetState(rows, ids, state), l)
  <1> DEFINE f(r) == IF r.id \in ids THEN [r EXCEPT !.state = state] ELSE r
             all == {f(r) : r \in rows}
  <1>1. IsFiniteSet(all)
    <2>1. IsFiniteSet(rows)
      BY DEF RowsOK
    <2>2. [r \in rows |-> f(r)] \in Surjection(rows, all)
      BY DEF Surjection
    <2> QED  BY <2>1, <2>2, FS_Surjection
  <1>2. ASSUME NEW r \in rows
        PROVE  IsRow(f(r)) /\ f(r).rev = r.rev /\ f(r).entry = r.entry
    <2>1. r = [id |-> r.id, rev |-> r.rev, entry |-> r.entry, state |-> r.state]
      BY DEF RowsOK, IsRow
    <2> QED  BY <2>1 DEF IsRow
  <1> QED  BY <1>1, <1>2 DEF RowsOK, SetState

LEMMA JobChanges ==
    ASSUME NEW jobs, NEW l, NEW high, JobsOK(jobs, l, high),
           NEW w \in Workers, NEW j, JobOK(j, l, high)
    PROVE  JobsOK([jobs EXCEPT ![w] = j], l, high)
  BY DEF JobsOK

\* New rows at the end of the log.
LEMMA RowsEnqueued ==
    ASSUME RowsOK(outbox, log), log \in Seq(Entries), revision = Len(log),
           NEW entries \in Seq(Entries)
    PROVE  RowsOK(Enqueued(outbox, entries), log \o entries)
  <1> DEFINE new(i) == [id |-> NextId(outbox) + i - 1, rev |-> revision + i,
                        entry |-> entries[i], state |-> "ready"]
             added == {new(i) : i \in DOMAIN entries}
  <1>1. DOMAIN entries = 1 .. Len(entries) /\ Len(entries) \in Nat
    OBVIOUS
  <1>2. IsFiniteSet(added)
    <2>1. IsFiniteSet(DOMAIN entries)
      BY <1>1, FS_Interval
    <2>2. [i \in DOMAIN entries |-> new(i)] \in Surjection(DOMAIN entries, added)
      BY DEF Surjection
    <2> QED  BY <2>1, <2>2, FS_Surjection
  <1>3. IsFiniteSet(outbox \cup added)
    BY <1>2, FS_Union DEF RowsOK
  <1>4. ASSUME NEW r \in added
        PROVE  IsRow(r) /\ r.rev \in 1 .. Len(log \o entries) /\ r.entry = (log \o entries)[r.rev]
    <2>1. PICK i \in 1 .. Len(entries) : r = new(i)
      BY <1>1, <1>4
    <2>2. IsRow(r) /\ r.rev = Len(log) + i /\ r.entry = entries[i]
      BY <2>1 DEF IsRow
    <2>3. Len(log \o entries) = Len(log) + Len(entries) /\ (log \o entries)[Len(log) + i] = entries[i]
      BY ConcatKeeps, <2>1
    <2>4. Len(log) \in Nat
      OBVIOUS
    <2>5. r.rev \in 1 .. Len(log \o entries)
      <3> HIDE DEF new, added
      <3> QED  BY <2>2, <2>3, <2>4, <1>1
    <2> QED  BY <2>2, <2>3, <2>5
  <1>5. ASSUME NEW r \in outbox
        PROVE  IsRow(r) /\ r.rev \in 1 .. Len(log \o entries) /\ r.entry = (log \o entries)[r.rev]
    <2>1. IsRow(r) /\ r.rev \in 1 .. Len(log) /\ r.entry = log[r.rev]
      BY DEF RowsOK
    <2>2. Len(log \o entries) = Len(log) + Len(entries) /\ (log \o entries)[r.rev] = log[r.rev]
      BY ConcatKeeps, <2>1
    <2>3. Len(log) \in Nat
      OBVIOUS
    <2> QED  BY <2>1, <2>2, <2>3, <1>1
  <1> QED  BY <1>3, <1>4, <1>5 DEF Enqueued, RowsOK

\* The rows that a worker holds stay good when the log grows.
LEMMA RowsKept ==
    ASSUME NEW rows, NEW l \in Seq(Entries), NEW entries \in Seq(Entries), RowsOK(rows, l)
    PROVE  RowsOK(rows, l \o entries)
  <1>1. Len(l \o entries) = Len(l) + Len(entries) /\ Len(l) \in Nat /\ Len(entries) \in Nat
    BY ConcatKeeps
  <1>2. \A i \in 1 .. Len(l) : (l \o entries)[i] = l[i]
    BY ConcatKeeps
  <1> QED  BY <1>1, <1>2 DEF RowsOK

LEMMA JobsKept ==
    ASSUME NEW jobs, NEW l \in Seq(Entries), NEW entries \in Seq(Entries), NEW high,
           JobsOK(jobs, l, high)
    PROVE  JobsOK(jobs, l \o entries, high)
  BY RowsKept DEF JobsOK, JobOK

----------------------------------------------------------------------------
(* Steps that leave the log and the remote revision alone *)

LEMMA Quiet ==
    ASSUME IInv, UNCHANGED <<revision, log, applied, highWater>>,
           known' \in Nat, known' <= highWater,
           RowsOK(outbox', log), JobsOK(job', log, highWater)
    PROVE  IInv'
  BY DEF IInv, LogOK, AppliedInOrder

LEMMA JobHere ==
    ASSUME IInv, NEW w \in Workers
    PROVE  JobOK(job[w], log, highWater)
  BY DEF IInv, JobsOK

LEMMA HighNat == ASSUME IInv PROVE highWater \in Nat /\ known \in Nat /\ known <= highWater
  BY DEF IInv, LogOK, AppliedInOrder

LEMMA NoJobOK == ASSUME NEW l, NEW high \in Nat PROVE JobOK(NoJob, l, high)
  BY NoRows DEF NoJob, JobOK, IsJob

\* A job whose rows and revision are kept, and one that lets its rows go.
LEMMA JobSame ==
    ASSUME NEW l, NEW high, NEW j, JobOK(j, l, high), NEW k, IsJob(k),
           k.rows = j.rows \/ k.rows = {}, k.revision = j.revision
    PROVE  JobOK(k, l, high)
  BY NoRows DEF JobOK

LEMMA EndOK ==
    ASSUME IInv, NEW w \in Workers, End(w)
    PROVE  JobsOK(job', log, highWater)
  BY HighNat, NoJobOK, JobChanges DEF End, IInv

LEMMA LeavePassOK ==
    ASSUME IInv, NEW w \in Workers, NEW j, j.once = j.once, NEW rows, LeavePass(w, j, rows)
    PROVE  JobsOK(job', log, highWater)
  <1>1. CASE End(w)
    BY <1>1, EndOK
  <1>2. CASE job' = [job EXCEPT ![w] = [NoJob EXCEPT !.once = j.once]]
    <2> DEFINE k == [NoJob EXCEPT !.once = j.once]
    <2>1. JobOK(k, log, highWater)
      BY HighNat, NoRows DEF NoJob, JobOK, IsJob
    <2>2. job' = [job EXCEPT ![w] = k]
      BY <1>2
    <2> HIDE DEF k
    <2> QED  BY <2>1, <2>2, JobChanges DEF IInv
  <1> QED  BY <1>1, <1>2 DEF LeavePass

LEMMA ThrowOK ==
    ASSUME IInv, NEW w \in Workers, Throw(w)
    PROVE  RowsOK(outbox', log) /\ JobsOK(job', log, highWater)
  <1>1. RowsOK(outbox', log)
    BY RowsSetState DEF Throw, IInv
  <1> DEFINE k == [job[w] EXCEPT !.failed = TRUE, !.rows = {}]
  <1>2. job' = [job EXCEPT ![w] = k]
    BY DEF Throw
  <1>3. IsJob(k) /\ k.rows = {} /\ k.revision = job[w].revision
    <2>1. IsJob(job[w])
      BY JobHere DEF JobOK
    <2> QED  BY <2>1 DEF IsJob
  <1>4. JobOK(k, log, highWater)
    <2> HIDE DEF k
    <2> QED  BY <1>3, JobHere, JobSame
  <1> QED  BY <1>1, <1>2, <1>4, JobChanges DEF IInv

\* Actions that change neither the outbox nor the jobs nor the local revisions.
LEMMA ElsewhereOK ==
    ASSUME IInv, UNCHANGED <<revision, known, outbox, highWater, job, log, applied>>
    PROVE  IInv'
  BY Quiet, HighNat DEF IInv

LEMMA StartOK ==
    ASSUME IInv, NEW w \in Workers, Start(w)
    PROVE  IInv'
  <1>0. PICK mode \in Modes : job' = [job EXCEPT ![w].once = (mode = "once")]
    BY DEF Start
  <1> DEFINE k == [job[w] EXCEPT !.once = (mode = "once")]
  <1>1. IsJob(k) /\ k.rows = job[w].rows /\ k.revision = job[w].revision
    BY JobHere DEF JobOK, IsJob
  <1>2. job' = [job EXCEPT ![w] = k]
    BY <1>0
  <1> HIDE DEF k
  <1>3. JobsOK(job', log, highWater)
    BY <1>1, <1>2, JobHere, JobSame, JobChanges DEF IInv
  <1> QED  BY <1>3, Quiet, HighNat DEF Start, IInv, local, remote

LEMMA SignalOK ==
    ASSUME IInv, NEW w \in Workers, Signal(w)
    PROVE  IInv'
  <1> DEFINE k == [job[w] EXCEPT !.stopping = TRUE]
  <1>1. IsJob(k) /\ k.rows = job[w].rows /\ k.revision = job[w].revision
    BY JobHere DEF JobOK, IsJob
  <1>2. job' = [job EXCEPT ![w] = k]
    BY DEF Signal
  <1> HIDE DEF k
  <1>3. JobsOK(job', log, highWater)
    BY <1>1, <1>2, JobHere, JobSame, JobChanges DEF IInv
  <1> QED  BY <1>3, Quiet, HighNat DEF Signal, IInv, local, remote, history

LEMMA CrashOK ==
    ASSUME IInv, NEW w \in Workers, Crash(w)
    PROVE  IInv'
  BY EndOK, Quiet, HighNat DEF Crash, IInv, local

LEMMA RowsReadyOK ==
    ASSUME IInv, RowsReady
    PROVE  IInv'
  <1>1. RowsOK(outbox', log)
    BY RowsSetState DEF RowsReady, IInv
  <1> QED  BY <1>1, Quiet, HighNat DEF RowsReady, IInv, remote, history

LEMMA AdoptOK ==
    ASSUME IInv, Adopt
    PROVE  IInv'
  <1>1. RowsOK(outbox', log)
    <2>1. outbox' \in SUBSET outbox
      BY DEF Adopt, DropThrough
    <2> QED  BY <2>1, RowsSubset DEF IInv
  <1> QED  BY <1>1, Quiet, HighNat DEF Adopt, IInv, remote, history

LEMMA SkipSourceOK ==
    ASSUME IInv, NEW w \in Workers, SkipSource(w)
    PROVE  IInv'
  <1>1. JobsOK(job', log, highWater)
    BY LeavePassOK DEF SkipSource
  <1> QED  BY <1>1, Quiet, HighNat DEF SkipSource, IInv, local, history

LEMMA OpenSourceOK ==
    ASSUME IInv, NEW w \in Workers, OpenSource(w)
    PROVE  IInv'
  <1> DEFINE k == [job[w] EXCEPT !.seen = {source}, !.cp = checkpoint]
  <1>1. IsJob(k) /\ k.rows = job[w].rows /\ k.revision = job[w].revision
    BY JobHere DEF JobOK, IsJob
  <1>2. job' = [job EXCEPT ![w] = k]
    BY DEF OpenSource
  <1> HIDE DEF k
  <1>3. JobsOK(job', log, highWater)
    BY <1>1, <1>2, JobHere, JobSame, JobChanges DEF IInv
  <1> QED  BY <1>3, Quiet, HighNat DEF OpenSource, IInv, local, remote, history

LEMMA DiscoverFailsOK ==
    ASSUME IInv, NEW w \in Workers, DiscoverFails(w)
    PROVE  IInv'
  <1> DEFINE k == [job[w] EXCEPT !.failed = TRUE]
  <1>1. IsJob(k) /\ k.rows = job[w].rows /\ k.revision = job[w].revision
    BY JobHere DEF JobOK, IsJob
  <1>2. job' = [job EXCEPT ![w] = k]
    BY DEF DiscoverFails
  <1> HIDE DEF k
  <1>3. JobsOK(job', log, highWater)
    BY <1>1, <1>2, JobHere, JobSame, JobChanges DEF IInv
  <1> QED  BY <1>3, Quiet, HighNat DEF DiscoverFails, IInv, local, remote, history

LEMMA ThrowsOK ==
    ASSUME IInv, NEW w \in Workers, NetworkError(w) \/ LeaseRefused(w) \/ FenceFails(w)
    PROVE  IInv'
  <1>1. Throw(w) /\ UNCHANGED <<revision, known, highWater, log, applied>>
    BY DEF NetworkError, LeaseRefused, FenceFails, remote, history
  <1> QED  BY <1>1, ThrowOK, Quiet, HighNat

LEMMA ReadRemoteFenceOK ==
    ASSUME IInv, NEW w \in Workers, ReadRemoteFence(w)
    PROVE  IInv'
  <1>1. RowsOK(outbox', log)
    <2>1. outbox' \in SUBSET outbox
      BY DEF ReadRemoteFence, DropThrough
    <2> QED  BY <2>1, RowsSubset DEF IInv
  <1> DEFINE k == [job[w] EXCEPT !.revision = highWater]
  <1>2. IsJob(k) /\ k.rows = job[w].rows /\ k.revision = highWater
    BY JobHere DEF JobOK, IsJob
  <1>3. job' = [job EXCEPT ![w] = k]
    BY DEF ReadRemoteFence
  <1> HIDE DEF k
  <1>4. JobOK(k, log, highWater)
    BY <1>2, JobHere, HighNat DEF JobOK
  <1>5. JobsOK(job', log, highWater)
    BY <1>3, <1>4, JobChanges DEF IInv
  <1>6. known' \in Nat /\ known' <= highWater
    BY HighNat DEF ReadRemoteFence
  <1> QED  BY <1>1, <1>5, <1>6, Quiet DEF ReadRemoteFence, remote, history

LEMMA ClaimOK ==
    ASSUME IInv, NEW w \in Workers, Claim(w)
    PROVE  IInv'
  <1>0. PICK rows \in {Claimable(outbox, job[w].revision), {}} :
           job' = [job EXCEPT ![w].rows = rows]
    BY DEF Claim
  <1>1. RowsOK(rows, log)
    <2>1. rows \in SUBSET outbox
      BY <1>0 DEF Claimable, Ready
    <2> QED  BY <2>1, RowsSubset DEF IInv
  <1> DEFINE k == [job[w] EXCEPT !.rows = rows]
  <1>2. IsJob(k) /\ k.rows = rows /\ k.revision = job[w].revision
    BY JobHere DEF JobOK, IsJob
  <1>3. job' = [job EXCEPT ![w] = k]
    BY <1>0
  <1> HIDE DEF k
  <1>4. JobOK(k, log, highWater)
    BY <1>1, <1>2, JobHere DEF JobOK
  <1>5. JobsOK(job', log, highWater)
    BY <1>3, <1>4, JobChanges DEF IInv
  <1> QED  BY <1>5, Quiet, HighNat DEF Claim, IInv, local, remote, history

LEMMA LeaseRowsOK ==
    ASSUME IInv, NEW w \in Workers, LeaseRows(w)
    PROVE  IInv'
  <1>0. PICK rows \in SUBSET job[w].rows :
           /\ outbox' = SetState(outbox, Ids(rows), "leased")
           /\ job' = [job EXCEPT ![w].rows = rows]
    BY DEF LeaseRows
  <1>1. RowsOK(rows, log)
    BY <1>0, JobHere, RowsSubset DEF JobOK
  <1>2. RowsOK(outbox', log)
    BY <1>0, RowsSetState DEF IInv
  <1> DEFINE k == [job[w] EXCEPT !.rows = rows]
  <1>3. IsJob(k) /\ k.rows = rows /\ k.revision = job[w].revision
    BY JobHere DEF JobOK, IsJob
  <1>4. job' = [job EXCEPT ![w] = k]
    BY <1>0
  <1> HIDE DEF k
  <1>5. JobOK(k, log, highWater)
    BY <1>1, <1>3, JobHere DEF JobOK
  <1>6. JobsOK(job', log, highWater)
    BY <1>4, <1>5, JobChanges DEF IInv
  <1> QED  BY <1>2, <1>6, Quiet, HighNat DEF LeaseRows, remote, history

LEMMA SetRemoteRevisionOK ==
    ASSUME IInv, NEW w \in Workers, SetRemoteRevision(w)
    PROVE  IInv'
  <1>1. known' \in Nat /\ known' <= highWater
    BY JobHere, HighNat DEF SetRemoteRevision, JobOK
  <1> QED  BY <1>1, Quiet DEF SetRemoteRevision, IInv, remote, history

LEMMA AcknowledgeOK ==
    ASSUME IInv, NEW w \in Workers, Acknowledge(w)
    PROVE  IInv'
  <1>1. RowsOK(outbox', log)
    <2>1. outbox' \in SUBSET outbox
      BY DEF Acknowledge
    <2> QED  BY <2>1, RowsSubset DEF IInv
  <1> DEFINE k == [job[w] EXCEPT !.progressed = TRUE, !.batch = @ + 1]
  <1>2. IsJob(k) /\ k.rows = job[w].rows /\ k.revision = job[w].revision
    BY JobHere DEF JobOK, IsJob
  <1>3. job' = [job EXCEPT ![w] = k]
    BY DEF Acknowledge
  <1> HIDE DEF k
  <1>4. JobsOK(job', log, highWater)
    BY <1>2, <1>3, JobHere, JobSame, JobChanges DEF IInv
  <1> QED  BY <1>1, <1>4, Quiet, HighNat DEF Acknowledge, remote, history

LEMMA FinishOK ==
    ASSUME IInv, NEW w \in Workers, Finish(w)
    PROVE  IInv'
  <1>1. JobsOK(job', log, highWater)
    BY LeavePassOK DEF Finish
  <1> QED  BY <1>1, Quiet, HighNat DEF Finish, IInv, history

----------------------------------------------------------------------------
(* The two steps that the mirror is about *)

\* What is staged are entries, and the snapshot marks among them are bracketed.
LEMMA FreshIs ==
    ASSUME NEW rows, NEW found, IsFound(found)
    PROVE  Fresh(rows, found) \in Seq(Entries) /\ Bracketed(Fresh(rows, found))
  <1>1. found.rows \in Seq(Entries) /\ Bracketed(found.rows)
    BY DEF IsFound
  <1>2. CASE found.forced
    BY <1>1, <1>2 DEF Fresh
  <1>3. CASE ~found.forced
    <2> DEFINE S == {e \in Entries : ~Staged(rows, e)}
               some == Keep(found.rows, S)
    <2>1. some \in Seq(Entries) /\ \E place : IsPlaces(found.rows, S, Len(found.rows), some, place)
      <3> HIDE DEF S
      <3> QED  BY <1>1, KeepPlaces
    <2>2. PICK place : IsPlaces(found.rows, S, Len(found.rows), some, place)
      BY <2>1
    <2>3. \A i \in DOMAIN found.rows : ~found.rows[i].marked
      BY <1>3 DEF IsFound
    <2> HIDE DEF some, S
    <2>4. \A i \in DOMAIN some : ~some[i].marked
      <3>1. DOMAIN some = 1 .. Len(some) /\ DOMAIN found.rows = 1 .. Len(found.rows)
        BY <1>1, <2>1
      <3> QED  BY <2>2, <2>3, <3>1 DEF IsPlaces
    <2>5. Bracketed(some)
      BY <2>4 DEF Bracketed
    <2> QED  BY <1>3, <2>1, <2>5 DEF Fresh, some, S
  <1> QED  BY <1>2, <1>3

\* What staging does: to the log and the jobs, and where it leads.
LEMMA StageIs ==
    ASSUME NEW w \in Workers, Stage(w)
    PROVE  /\ at[w] = "discover" /\ ("overlap" \in past => "overlap" \in past')
           /\ UNCHANGED <<highWater, applied>>
           /\ \/ /\ UNCHANGED <<revision, known, outbox, log>>
                 /\ \E x : job' = [job EXCEPT ![w].failed = TRUE, ![w].whole = x]
                 /\ Goto(w, "finish")
              \/ /\ \E entries \in Seq(Entries) :
                       /\ Bracketed(entries)
                       /\ outbox' = Enqueued(outbox, entries)
                       /\ revision' = revision + Len(entries)
                       /\ log' = log \o entries
                 /\ UNCHANGED known
                 /\ \/ End(w)
                    \/ /\ \E x, y : job' = [job EXCEPT ![w].whole = x, ![w].progressed = y]
                       /\ Goto(w, "lease")
  <1>1. PICK found :
          /\ IsFound(found)
          /\ \E entries \in {Fresh(outbox, found)} : \E rows \in {Enqueued(outbox, entries)} :
               \/ /\ UNCHANGED <<revision, known, outbox, log>>
                  /\ job' = [job EXCEPT ![w].failed = TRUE, ![w].whole = found.complete]
                  /\ Goto(w, "finish")
                  /\ "overlap" \in past => "overlap" \in past'
               \/ /\ outbox' = rows
                  /\ revision' = revision + Len(entries)
                  /\ log' = log \o entries
                  /\ \/ End(w)
                     \/ /\ Goto(w, "lease")
                        /\ job' = [job EXCEPT ![w].whole = found.complete,
                                              ![w].progressed = found.rows # <<>>]
                  /\ UNCHANGED known
                  /\ "overlap" \in past => "overlap" \in past'
    BY ZenonT(60) DEF Stage, local
  <1>2. at[w] = "discover" /\ UNCHANGED <<highWater, applied>>
    BY DEF Stage
  <1> DEFINE entries == Fresh(outbox, found)
  <1>3. entries \in Seq(Entries) /\ Bracketed(entries)
    BY <1>1, FreshIs
  <1> HIDE DEF entries
  <1>4. \/ /\ UNCHANGED <<revision, known, outbox, log>>
           /\ job' = [job EXCEPT ![w].failed = TRUE, ![w].whole = found.complete]
           /\ Goto(w, "finish")
           /\ "overlap" \in past => "overlap" \in past'
        \/ /\ outbox' = Enqueued(outbox, entries)
           /\ revision' = revision + Len(entries)
           /\ log' = log \o entries
           /\ \/ End(w)
              \/ /\ Goto(w, "lease")
                 /\ job' = [job EXCEPT ![w].whole = found.complete, ![w].progressed = found.rows # <<>>]
           /\ UNCHANGED known
           /\ "overlap" \in past => "overlap" \in past'
    BY <1>1 DEF entries
  <1> QED  BY <1>2, <1>3, <1>4

LEMMA StageCases ==
    ASSUME NEW w \in Workers, Stage(w)
    PROVE  \/ /\ UNCHANGED <<revision, known, outbox, highWater, log, applied>>
              /\ \E x : job' = [job EXCEPT ![w].failed = TRUE, ![w].whole = x]
           \/ /\ \E entries \in Seq(Entries) :
                    /\ Bracketed(entries)
                    /\ outbox' = Enqueued(outbox, entries)
                    /\ revision' = revision + Len(entries)
                    /\ log' = log \o entries
              /\ UNCHANGED <<known, highWater, applied>>
              /\ \/ End(w)
                 \/ \E x, y : job' = [job EXCEPT ![w].whole = x, ![w].progressed = y]
  BY StageIs

LEMMA StageOK ==
    ASSUME IInv, NEW w \in Workers, Stage(w)
    PROVE  IInv'
  <1>1. ASSUME UNCHANGED <<revision, known, outbox, highWater, log, applied>>,
               NEW x, job' = [job EXCEPT ![w].failed = TRUE, ![w].whole = x]
        PROVE  IInv'
    <2> DEFINE k == [job[w] EXCEPT !.failed = TRUE, !.whole = x]
    <2>1. IsJob(k) /\ k.rows = job[w].rows /\ k.revision = job[w].revision
      BY JobHere DEF JobOK, IsJob
    <2>2. job' = [job EXCEPT ![w] = k]
      BY <1>1
    <2> HIDE DEF k
    <2>3. JobsOK(job', log, highWater)
      BY <2>1, <2>2, JobHere, JobSame, JobChanges DEF IInv
    <2> QED  BY <1>1, <2>3, Quiet, HighNat DEF IInv
  <1>2. ASSUME NEW entries \in Seq(Entries),
               outbox' = Enqueued(outbox, entries),
               revision' = revision + Len(entries),
               log' = log \o entries,
               UNCHANGED <<known, highWater, applied>>,
               \/ End(w)
               \/ \E x, y : job' = [job EXCEPT ![w].whole = x, ![w].progressed = y]
        PROVE  IInv'
    <2>1. log \in Seq(Entries) /\ Len(log) = revision /\ highWater \in 0 .. Len(log)
      BY DEF IInv, LogOK, AppliedInOrder
    <2>2. RowsOK(outbox', log')
      BY <1>2, <2>1, RowsEnqueued DEF IInv
    <2>3. JobsOK(job', log, highWater)
      <3>1. CASE End(w)
        BY <3>1, EndOK
      <3>2. ASSUME NEW x, NEW y, job' = [job EXCEPT ![w].whole = x, ![w].progressed = y]
            PROVE  JobsOK(job', log, highWater)
        <4> DEFINE k == [job[w] EXCEPT !.whole = x, !.progressed = y]
        <4>1. IsJob(k) /\ k.rows = job[w].rows /\ k.revision = job[w].revision
          BY JobHere DEF JobOK, IsJob
        <4>2. job' = [job EXCEPT ![w] = k]
          BY <3>2
        <4> HIDE DEF k
        <4> QED  BY <4>1, <4>2, JobHere, JobSame, JobChanges DEF IInv
      <3> QED  BY <1>2, <3>1, <3>2
    <2>4. JobsOK(job', log', highWater')
      BY <1>2, <2>1, <2>3, JobsKept
    <2>5. LogOK'
      <3>1. log' \in Seq(Entries) /\ Len(log') = revision'
        BY <1>2, <2>1, ConcatKeeps
      <3>2. highWater' <= revision' /\ highWater' \in Nat /\ known' \in Nat /\ known' <= highWater'
        BY <1>2, <2>1, HighNat
      <3>3. SubSeq(log', 1, highWater') = SubSeq(log, 1, highWater)
        BY <1>2, <2>1, ConcatKeeps
      <3>4. applied' = SubSeq(log, 1, highWater)
        BY <1>2 DEF IInv, LogOK, AppliedInOrder
      <3> QED  BY <3>1, <3>2, <3>3, <3>4 DEF LogOK, AppliedInOrder
    <2> QED  BY <2>2, <2>4, <2>5 DEF IInv
  <1> QED  BY <1>1, <1>2, StageCases

\* What is applied next is what the log has next.
LEMMA CommitOK ==
    ASSUME IInv, NEW w \in Workers, Commit(w), UNCHANGED <<log, revision, known>>
    PROVE  /\ LogOK'
           /\ highWater' \in Nat /\ highWater <= highWater'
           /\ highWater' = job[w].revision + Cardinality(job[w].rows)
  <1> DEFINE rows == job[w].rows
             n == Cardinality(rows)
             next == [i \in 1 .. n |-> (CHOOSE r \in rows : r.rev = job[w].revision + i).entry]
  <1>1. RowsOK(rows, log) /\ job[w].revision = highWater
    BY JobHere DEF JobOK, Commit, FencePasses
  <1>2. n \in Nat
    BY <1>1, FS_CardinalityType DEF RowsOK
  <1>3. {r.rev : r \in rows} = highWater + 1 .. highWater + n
    BY DEF Commit, FencePasses
  <1>4. applied' = applied \o next /\ highWater' = job[w].revision + n
    BY DEF Commit
  <1>5. log \in Seq(Entries) /\ Len(log) = revision /\ highWater \in Nat /\ highWater <= Len(log)
        /\ applied = SubSeq(log, 1, highWater)
    BY DEF IInv, LogOK, AppliedInOrder
  <1> HIDE DEF n
  <1>6. \A i \in 1 .. n : \E r \in rows : r.rev = highWater + i
    <2> TAKE i \in 1 .. n
    <2>1. highWater + i \in highWater + 1 .. highWater + n
      BY <1>2, <1>5
    <2> QED  BY <2>1, <1>3
  <1>7. \A r \in rows : r.rev \in 1 .. Len(log) /\ r.entry = log[r.rev]
    BY <1>1 DEF RowsOK
  <1>8. highWater + n <= Len(log)
    <2>1. CASE n = 0
      BY <2>1, <1>5
    <2>2. CASE n # 0
      <3>1. \E r \in rows : r.rev = highWater + n
        BY <2>2, <1>2, <1>6
      <3> QED  BY <3>1, <1>7
    <2> QED  BY <2>1, <2>2
  <1>9. next = [i \in 1 .. n |-> log[highWater + i]]
    <2>1. ASSUME NEW i \in 1 .. n
          PROVE  (CHOOSE r \in rows : r.rev = job[w].revision + i).entry = log[highWater + i]
      <3> DEFINE r == CHOOSE r \in rows : r.rev = job[w].revision + i
      <3>1. r \in rows /\ r.rev = highWater + i
        BY <1>1, <1>6
      <3> HIDE DEF r
      <3>2. r.entry = log[highWater + i]
        BY <3>1, <1>7
      <3> QED  BY <3>2 DEF r
    <2> QED  BY <2>1
  <1> HIDE DEF next, rows
  <1>10. applied \o next = SubSeq(log, 1, highWater + n)
    BY <1>2, <1>5, <1>8, <1>9, SubSeqExtend
  <1>11. highWater' = highWater + n
    BY <1>1, <1>4
  <1>12. LogOK'
    <2>1. applied' = SubSeq(log', 1, highWater')
      BY <1>4, <1>10, <1>11
    <2>2. known' \in Nat /\ known' <= highWater' /\ highWater' \in Nat /\ highWater' <= revision'
      BY <1>2, <1>5, <1>8, <1>11, HighNat
    <2> QED  BY <2>1, <2>2, <1>5 DEF LogOK, AppliedInOrder
  <1> QED  BY <1>12, <1>11, <1>4, <1>2, <1>5 DEF n, rows

\* A higher remote revision is still above what the jobs know.
LEMMA JobsHigher ==
    ASSUME NEW jobs, NEW l, NEW high \in Nat, NEW higher \in Nat, high <= higher,
           JobsOK(jobs, l, high)
    PROVE  JobsOK(jobs, l, higher)
  BY DEF JobsOK, JobOK

LEMMA UploadFencedOK ==
    ASSUME IInv, NEW w \in Workers, UploadFenced(w)
    PROVE  IInv'
  <1>1. Commit(w) /\ UNCHANGED <<log, revision, known, outbox>>
    BY DEF UploadFenced, local
  <1>2. LogOK' /\ highWater' \in Nat /\ highWater <= highWater'
    BY <1>1, CommitOK
  <1>3. JobsOK(job, log, highWater')
    BY <1>2, HighNat, JobsHigher DEF IInv
  <1> DEFINE k == [job[w] EXCEPT !.revision = highWater']
  <1>4. IsJob(k) /\ k.rows = job[w].rows /\ k.revision = highWater'
    BY JobHere DEF JobOK, IsJob
  <1>5. job' = [job EXCEPT ![w] = k]
    BY DEF UploadFenced
  <1> HIDE DEF k
  <1>6. JobOK(k, log, highWater')
    BY <1>2, <1>4, JobHere DEF JobOK
  <1>7. JobsOK(job', log, highWater')
    BY <1>3, <1>5, <1>6, JobChanges
  <1> QED  BY <1>1, <1>2, <1>7 DEF IInv

LEMMA ReplyLostOK ==
    ASSUME IInv, NEW w \in Workers, ReplyLost(w)
    PROVE  IInv'
  <1>1. Commit(w) /\ Throw(w) /\ UNCHANGED <<log, revision, known>>
    BY DEF ReplyLost
  <1>2. LogOK' /\ highWater' \in Nat /\ highWater <= highWater'
    BY <1>1, CommitOK
  <1>3. RowsOK(outbox', log) /\ JobsOK(job', log, highWater)
    BY <1>1, ThrowOK
  <1>4. JobsOK(job', log, highWater')
    BY <1>2, <1>3, HighNat, JobsHigher
  <1> QED  BY <1>1, <1>2, <1>3, <1>4 DEF IInv

----------------------------------------------------------------------------
(* The theorems *)

LEMMA MirrorInitOK == Init => IInv
  <1> SUFFICES ASSUME Init PROVE IInv
    OBVIOUS
  <1>1. log = <<>> /\ applied = <<>> /\ revision = 0 /\ known = 0 /\ highWater = 0 /\ outbox = {}
        /\ job = [w \in Workers |-> NoJob]
    BY DEF Init
  <1>2. LogOK
    <2>1. SubSeq(<<>>, 1, 0) = <<>>
      OBVIOUS
    <2> QED  BY <1>1, <2>1 DEF LogOK, AppliedInOrder
  <1>3. RowsOK(outbox, log)
    BY <1>1, NoRows
  <1>4. JobsOK(job, log, highWater)
    BY <1>1, NoJobOK DEF JobsOK
  <1> QED  BY <1>2, <1>3, <1>4 DEF IInv

LEMMA MirrorStepOK ==
    ASSUME IInv, [Next]_vars
    PROVE  IInv'
  <1>1. CASE UNCHANGED vars
    BY <1>1, ElsewhereOK DEF vars, local, remote, history
  <1>2. CASE SourceChanges \/ ScanAges \/ LeaseLapses \/ \E w \in Workers : Maintain(w)
    BY <1>2, ElsewhereOK DEF SourceChanges, ScanAges, LeaseLapses, Maintain, local, remote, history
  <1>3. CASE \E w \in Workers : EnsureRemoteSource(w)
    BY <1>3, ElsewhereOK DEF EnsureRemoteSource, local, remote, history
  <1>4. CASE RowsReady
    BY <1>4, RowsReadyOK
  <1>5. CASE Adopt
    BY <1>5, AdoptOK
  <1>6. ASSUME NEW w \in Workers, Start(w) \/ Crash(w) \/ Signal(w)
        PROVE  IInv'
    BY <1>6, StartOK, CrashOK, SignalOK
  <1>7. ASSUME NEW w \in Workers, SkipSource(w) \/ OpenSource(w) \/ DiscoverFails(w) \/ Stage(w)
        PROVE  IInv'
    BY <1>7, SkipSourceOK, OpenSourceOK, DiscoverFailsOK, StageOK
  <1>8. ASSUME NEW w \in Workers,
               ReadRemoteFence(w) \/ Claim(w) \/ LeaseRows(w) \/ UploadFenced(w) \/ ReplyLost(w)
        PROVE  IInv'
    BY <1>8, ReadRemoteFenceOK, ClaimOK, LeaseRowsOK, UploadFencedOK, ReplyLostOK
  <1>9. ASSUME NEW w \in Workers,
               LeaseRefused(w) \/ FenceFails(w) \/ NetworkError(w) \/ SetRemoteRevision(w)
               \/ Acknowledge(w) \/ Finish(w)
        PROVE  IInv'
    BY <1>9, ThrowsOK, SetRemoteRevisionOK, AcknowledgeOK, FinishOK
  <1> QED  BY <1>1, <1>2, <1>3, <1>4, <1>5, <1>6, <1>7, <1>8, <1>9 DEF Next, Step

LEMMA MirrorInvariant == Spec => []IInv
  <1>1. IInv /\ [Next]_vars => IInv'
    BY MirrorStepOK
  <1> QED  BY <1>1, MirrorInitOK, PTL DEF Spec

\* However workers overlap, fail, are killed and adopt, and whatever the adapter returns,
\* the remote tables have applied exactly the first records of the log, in order and once
\* each (uploadFenced, readRemoteFence, reconcileCommitted).
THEOREM MirrorAppliesInOrder == Spec => []AppliedInOrder
  <1>1. IInv => AppliedInOrder
    BY DEF IInv, LogOK
  <1> QED  BY <1>1, MirrorInvariant, PTL

\* A step either stages entries, or applies the next ones, or touches neither sequence.
LEMMA MirrorSteps ==
    ASSUME [Next]_vars
    PROVE  \/ UNCHANGED <<log, applied>>
           \/ \E w \in Workers : Stage(w) \/ UploadFenced(w) \/ ReplyLost(w)
  <1>1. CASE UNCHANGED vars
    BY <1>1 DEF vars, history
  <1>2. CASE SourceChanges \/ RowsReady \/ ScanAges \/ LeaseLapses \/ Adopt
    BY <1>2 DEF SourceChanges, RowsReady, ScanAges, LeaseLapses, Adopt, history
  <1>3. ASSUME NEW w \in Workers, Start(w) \/ Crash(w) \/ Signal(w) \/ SkipSource(w)
               \/ OpenSource(w) \/ DiscoverFails(w)
        PROVE  UNCHANGED <<log, applied>>
    BY <1>3 DEF Start, Crash, Signal, SkipSource, OpenSource, DiscoverFails, history
  <1>4. ASSUME NEW w \in Workers, EnsureRemoteSource(w) \/ LeaseRefused(w) \/ ReadRemoteFence(w)
               \/ Claim(w) \/ LeaseRows(w) \/ FenceFails(w) \/ NetworkError(w)
        PROVE  UNCHANGED <<log, applied>>
    BY <1>4 DEF EnsureRemoteSource, LeaseRefused, ReadRemoteFence, Claim, LeaseRows, FenceFails,
                NetworkError, history
  <1>5. ASSUME NEW w \in Workers, SetRemoteRevision(w) \/ Acknowledge(w) \/ Maintain(w) \/ Finish(w)
        PROVE  UNCHANGED <<log, applied>>
    BY <1>5 DEF SetRemoteRevision, Acknowledge, Maintain, Finish, history
  <1> QED  BY <1>1, <1>2, <1>3, <1>4, <1>5 DEF Next, Step

LEMMA MirrorStepMaps ==
    ASSUME IInv, IInv', [Next]_vars
    PROVE  [Mirror!MirrorNext]_(Mirror!mirrorVars)
  <1>1. ASSUME UNCHANGED <<log, applied>>
        PROVE  UNCHANGED Mirror!mirrorVars
    BY <1>1 DEF Mirror!mirrorVars
  <1>2. ASSUME NEW w \in Workers, Stage(w)
        PROVE  [Mirror!MirrorNext]_(Mirror!mirrorVars)
    <2>1. CASE UNCHANGED <<log, applied>>
      BY <2>1, <1>1
    <2>2. ASSUME NEW entries \in Seq(Entries), log' = log \o entries, UNCHANGED applied
          PROVE  Mirror!StageEntries
      <3>1. log \in Seq(Entries)
        BY DEF IInv, LogOK
      <3>2. log' \in Seq(Entries) /\ Len(log) <= Len(log')
        BY <2>2, <3>1, ConcatKeeps
      <3>3. SubSeq(log', 1, Len(log)) = SubSeq(log, 1, Len(log))
        BY <2>2, <3>1, ConcatKeeps
      <3> QED  BY <2>2, <3>1, <3>2, <3>3, SubSeqWhole DEF Mirror!StageEntries, Mirror!IsPrefixOf
    <2> QED  BY <1>2, <2>1, <2>2, StageCases DEF Mirror!MirrorNext
  <1>3. ASSUME NEW w \in Workers, UploadFenced(w) \/ ReplyLost(w)
        PROVE  Mirror!ApplyEntries
    <2>1. Commit(w) /\ UNCHANGED <<log, revision, known>>
      BY <1>3 DEF UploadFenced, ReplyLost, local
    <2>2. LogOK' /\ highWater' \in Nat /\ highWater <= highWater'
      BY <2>1, CommitOK
    <2>3. log \in Seq(Entries) /\ highWater \in Nat /\ applied = SubSeq(log, 1, highWater)
      BY DEF IInv, LogOK, AppliedInOrder
    <2>4. applied' = SubSeq(log, 1, highWater') /\ highWater' <= Len(log)
      BY <2>1, <2>2 DEF LogOK, AppliedInOrder
    <2> DEFINE low == highWater  high == highWater'
    <2>5. high \in 0 .. Len(log) /\ low \in 0 .. high /\ low \in 0 .. Len(log)
      BY <2>2, <2>3, <2>4
    <2> HIDE DEF low, high
    <2>6. applied = SubSeq(log, 1, low) /\ applied' = SubSeq(log, 1, high)
      BY <2>3, <2>4 DEF low, high
    <2>7. Len(applied) = low /\ Len(applied') = high
      BY <2>3, <2>5, <2>6, SubSeqLen
    <2>8. applied = SubSeq(applied', 1, low)
      BY <2>3, <2>5, <2>6, SubSeqSelf
    <2>9. Mirror!IsPrefixOf(applied, applied')
      BY <2>5, <2>7, <2>8 DEF Mirror!IsPrefixOf
    <2>10. Mirror!IsPrefixOf(applied', log)
      BY <2>5, <2>6, <2>7 DEF Mirror!IsPrefixOf
    <2> QED  BY <2>1, <2>9, <2>10 DEF Mirror!ApplyEntries
  <1> QED  BY <1>1, <1>2, <1>3, MirrorSteps DEF Mirror!MirrorNext

\* The sync with its faults implements the ordered mirror: every step stages entries at
\* the end of the log, applies the next ones, or leaves both alone.
THEOREM MirrorImplementsLog == Spec => MirrorsLog
  <1>1. Init => Mirror!MirrorInit
    BY DEF Init, Mirror!MirrorInit
  <1>2. IInv /\ IInv' /\ [Next]_vars => [Mirror!MirrorNext]_(Mirror!mirrorVars)
    BY MirrorStepMaps
  <1> QED  BY <1>1, <1>2, MirrorInvariant, PTL DEF Spec, MirrorsLog, Mirror!MirrorSpec

----------------------------------------------------------------------------
(* The rows of the remote tables *)

Rows == [rev : Nat, live : BOOLEAN, value : {0} \cup Values]
States == [table : [Keys -> Rows], snapshot : SUBSET Keys]
RevsUpTo(s, n) == \A k \in Keys : s.table[k].rev <= n

\* The row that carries entry e at revision n.
At(n, e) == [rev |-> n, entry |-> e]

\* One row of the outbox and the revision and entry it carries have the same effect.
LEMMA RowIsAt ==
    ASSUME NEW s, NEW r
    PROVE  ApplyRow(s, r) = ApplyRow(s, At(r.rev, r.entry))
  BY DEF ApplyRow, At

\* What an upsert does to one key, above the revisions of the table.
LEMMA UpsertIs ==
    ASSUME NEW s \in States, NEW n \in Nat, RevsUpTo(s, n), NEW e \in Entries, e.op = "upsert"
    PROVE  LET t == ApplyRow(s, At(n + 1, e)) IN
           /\ t \in States /\ RevsUpTo(t, n + 1)
           /\ t.snapshot = IF e.marked THEN s.snapshot \cup e.keys ELSE s.snapshot
           /\ \A k \in Keys :
                t.table[k] = IF k \in e.keys THEN [rev |-> n + 1, live |-> TRUE, value |-> e.value]
                             ELSE s.table[k]
  <1> DEFINE new == [rev |-> n + 1, live |-> TRUE, value |-> e.value]
             rows == [k \in Keys |-> IF k \in e.keys THEN new ELSE s.table[k]]
             marks == IF e.marked THEN s.snapshot \cup e.keys ELSE s.snapshot
             t == ApplyRow(s, At(n + 1, e))
  <1>1. new \in Rows /\ e.keys \in SUBSET Keys
    BY DEF Rows, Entries
  <1>2. \A k \in Keys : s.table[k] \in Rows /\ s.table[k].rev <= n /\ s.table[k].rev \in Nat
    BY DEF States, Rows, RevsUpTo
  <1>3. \A k \in Keys : n + 1 > s.table[k].rev
    BY <1>2
  <1>4. t.table = rows /\ t.snapshot = marks /\ t = [table |-> t.table, snapshot |-> t.snapshot]
    <2>1. t = [table |-> [k \in Keys |-> IF k \in e.keys /\ n + 1 > s.table[k].rev
                                          THEN new ELSE s.table[k]],
               snapshot |-> marks]
      BY DEF ApplyRow, At
    <2>2. [k \in Keys |-> IF k \in e.keys /\ n + 1 > s.table[k].rev THEN new ELSE s.table[k]] = rows
      <3> HIDE DEF new
      <3> QED  BY <1>3
    <2> HIDE DEF rows, marks, new, t
    <2> QED  BY <2>1, <2>2
  <1>5. rows \in [Keys -> Rows] /\ marks \in SUBSET Keys
    <2> HIDE DEF new
    <2> QED  BY <1>1, <1>2 DEF States
  <1>6. \A k \in Keys : rows[k] = IF k \in e.keys THEN new ELSE s.table[k]
    <2> HIDE DEF new
    <2> QED  OBVIOUS
  <1>7. \A k \in Keys : rows[k].rev <= n + 1
    <2>1. new.rev = n + 1
      OBVIOUS
    <2> HIDE DEF new, rows
    <2> QED  BY <1>2, <1>6, <2>1
  <1>8. t \in States /\ RevsUpTo(t, n + 1)
    <2> HIDE DEF rows, marks, t
    <2> QED  BY <1>4, <1>5, <1>7 DEF States, RevsUpTo
  <1> HIDE DEF t, rows, marks
  <1>9. t.snapshot = marks /\ \A k \in Keys : t.table[k] = IF k \in e.keys THEN new ELSE s.table[k]
    BY <1>4, <1>6
  <1> QED  BY <1>8, <1>9 DEF t, marks

\* What a control record does to one key.
Tombstone(row, n) == [row EXCEPT !.live = FALSE, !.rev = n]
Tombstoned(s, t, n, gone) ==
    \A k \in Keys : t.table[k] = IF k \in gone /\ s.table[k].live THEN Tombstone(s.table[k], n)
                                 ELSE s.table[k]

LEMMA TombstoneIs ==
    ASSUME NEW row \in Rows, NEW n \in Nat
    PROVE  /\ Tombstone(row, n) \in Rows
           /\ Tombstone(row, n).rev = n /\ Tombstone(row, n).live = FALSE
  BY DEF Tombstone, Rows

LEMMA ControlIs ==
    ASSUME NEW s \in States, NEW n \in Nat, RevsUpTo(s, n), NEW e \in Entries, e.op # "upsert"
    PROVE  LET t == ApplyRow(s, At(n + 1, e)) IN
           /\ t \in States /\ RevsUpTo(t, n + 1)
           /\ t.snapshot = IF e.op = "prefix" THEN s.snapshot ELSE {}
           /\ Tombstoned(s, t, n + 1, IF e.op = "prefix" THEN e.keys
                                      ELSE IF e.op = "snapshot_end" THEN e.keys \ s.snapshot
                                      ELSE {})
  <1> DEFINE row(k) == Tombstone(s.table[k], n + 1)
             rows(gone) == [k \in Keys |-> IF k \in gone /\ s.table[k].live THEN row(k) ELSE s.table[k]]
             t == ApplyRow(s, At(n + 1, e))
  <1>1. \A k \in Keys : s.table[k] \in Rows /\ s.table[k].rev <= n /\ row(k) \in Rows
                        /\ row(k).rev = n + 1 /\ s.table[k].rev \in Nat
    <2> SUFFICES ASSUME NEW k \in Keys
                 PROVE  s.table[k] \in Rows /\ s.table[k].rev <= n /\ row(k) \in Rows
                        /\ row(k).rev = n + 1 /\ s.table[k].rev \in Nat
      OBVIOUS
    <2>1. s.table[k] \in Rows /\ s.table[k].rev <= n
      BY DEF States, RevsUpTo
    <2>2. row(k) \in Rows /\ row(k).rev = n + 1
      <3>1. n + 1 \in Nat
        OBVIOUS
      <3> QED  BY <2>1, <3>1, TombstoneIs
    <2>3. s.table[k].rev \in Nat
      BY <2>1 DEF Rows
    <2> QED  BY <2>1, <2>2, <2>3
  <1>2. e.op \in {"prefix", "snapshot_begin", "snapshot_end"}
    BY DEF Entries, Ops
  <1>3. s = [table |-> s.table, snapshot |-> s.snapshot] /\ s.snapshot \in SUBSET Keys
        /\ s.table \in [Keys -> Rows]
    BY DEF States
  <1>4. ASSUME NEW gone
        PROVE  /\ rows(gone) \in [Keys -> Rows]
               /\ \A k \in Keys : rows(gone)[k].rev <= n + 1
               /\ \A k \in Keys : rows(gone)[k] = IF k \in gone /\ s.table[k].live THEN row(k) ELSE s.table[k]
    <2> HIDE DEF row
    <2> QED  BY <1>1
  <1>5. CASE e.op = "prefix"
    <2>1. t = [s EXCEPT !.table = rows(e.keys)]
      BY <1>5 DEF ApplyRow, At, Tombstone
    <2> HIDE DEF rows, t
    <2>2. t = [table |-> rows(e.keys), snapshot |-> s.snapshot]
      BY <1>3, <2>1
    <2>3. t.table = rows(e.keys) /\ t.snapshot = s.snapshot /\ t \in States
      BY <1>3, <1>4, <2>2 DEF States
    <2> HIDE DEF row
    <2>4. RevsUpTo(t, n + 1) /\ Tombstoned(s, t, n + 1, e.keys)
      BY <1>4, <2>3 DEF RevsUpTo, Tombstoned, row
    <2> QED  BY <1>5, <2>3, <2>4 DEF t
  <1>6. CASE e.op = "snapshot_begin"
    <2>1. t = [s EXCEPT !.snapshot = {}]
      BY <1>6 DEF ApplyRow, At
    <2> HIDE DEF t
    <2>2. t = [table |-> s.table, snapshot |-> {}]
      BY <1>3, <2>1
    <2>3. t.table = s.table /\ t.snapshot = {} /\ t \in States
      BY <1>3, <2>2 DEF States
    <2>4. RevsUpTo(t, n + 1)
      BY <1>1, <2>3 DEF RevsUpTo
    <2>5. Tombstoned(s, t, n + 1, {})
      BY <2>3 DEF Tombstoned
    <2> QED  BY <1>6, <2>3, <2>4, <2>5 DEF t
  <1>7. CASE e.op = "snapshot_end"
    <2>1. t = [table |-> rows(e.keys \ s.snapshot), snapshot |-> {}]
      BY <1>7 DEF ApplyRow, At, Tombstone
    <2> HIDE DEF rows, t
    <2>2. t.table = rows(e.keys \ s.snapshot) /\ t.snapshot = {} /\ t \in States
      BY <1>4, <2>1 DEF States
    <2> HIDE DEF row
    <2> DEFINE gone == e.keys \ s.snapshot
    <2>3. t.table = rows(gone)
      BY <2>2
    <2> HIDE DEF gone
    <2>4. RevsUpTo(t, n + 1) /\ Tombstoned(s, t, n + 1, gone)
      BY <1>4, <2>3 DEF RevsUpTo, Tombstoned, row
    <2> QED  BY <1>7, <2>2, <2>4 DEF t, gone
  <1> QED  BY <1>2, <1>5, <1>6, <1>7

\* One entry at the next revision.
LEMMA EntryIs ==
    ASSUME NEW s \in States, NEW n \in Nat, RevsUpTo(s, n), NEW e \in Entries
    PROVE  ApplyRow(s, At(n + 1, e)) \in States /\ RevsUpTo(ApplyRow(s, At(n + 1, e)), n + 1)
  BY UpsertIs, ControlIs

----------------------------------------------------------------------------
(* ApplyAll *)

IsRowSet(rows) == \A r \in rows : r.entry \in Entries /\ r.rev \in Nat

NextState(rows, rev, s) ==
    IF \E r \in rows : r.rev = rev THEN ApplyRow(s, CHOOSE r \in rows : r.rev = rev) ELSE s

LEMMA ApplyRowType ==
    ASSUME NEW s \in States, NEW r, r.entry \in Entries, r.rev \in Nat
    PROVE  ApplyRow(s, r) \in States
  <1> DEFINE e == r.entry
             rev == r.rev
             tomb(gone) == [k \in Keys |-> IF k \in gone /\ s.table[k].live
                                           THEN Tombstone(s.table[k], rev) ELSE s.table[k]]
             put == [k \in Keys |-> IF k \in e.keys /\ rev > s.table[k].rev
                                    THEN [rev |-> rev, live |-> TRUE, value |-> e.value]
                                    ELSE s.table[k]]
             marks == IF e.marked THEN s.snapshot \cup e.keys ELSE s.snapshot
  <1>1. s = [table |-> s.table, snapshot |-> s.snapshot] /\ s.snapshot \in SUBSET Keys
        /\ s.table \in [Keys -> Rows] /\ e.keys \in SUBSET Keys
    BY DEF States, Entries
  <1>2. \A k \in Keys : s.table[k] \in Rows /\ Tombstone(s.table[k], rev) \in Rows
    BY <1>1, TombstoneIs
  <1>3. [rev |-> rev, live |-> TRUE, value |-> e.value] \in Rows
    BY DEF Rows, Entries
  <1>4. put \in [Keys -> Rows] /\ \A gone : tomb(gone) \in [Keys -> Rows]
    BY <1>2, <1>3
  <1>5. marks \in SUBSET Keys
    BY <1>1
  <1>6. \/ ApplyRow(s, r) = [s EXCEPT !.table = tomb(e.keys)]
        \/ ApplyRow(s, r) = [s EXCEPT !.snapshot = {}]
        \/ ApplyRow(s, r) = [table |-> tomb(e.keys \ s.snapshot), snapshot |-> {}]
        \/ ApplyRow(s, r) = [table |-> put, snapshot |-> marks]
    BY DEF ApplyRow, Tombstone
  <1> HIDE DEF put, marks, tomb
  <1> QED  BY <1>1, <1>4, <1>5, <1>6 DEF States

LEMMA NextStateType ==
    ASSUME NEW rows, IsRowSet(rows), NEW rev, NEW s \in States
    PROVE  NextState(rows, rev, s) \in States
  <1>1. CASE \E r \in rows : r.rev = rev
    <2> DEFINE r == CHOOSE q \in rows : q.rev = rev
    <2>1. r \in rows
      BY <1>1
    <2>2. NextState(rows, rev, s) = ApplyRow(s, r)
      BY <1>1 DEF NextState
    <2> HIDE DEF r
    <2> QED  BY <2>1, <2>2, ApplyRowType DEF IsRowSet
  <1> QED  BY <1>1 DEF NextState

\* The states that the tables go through.
IsRun(rows, state, low, count, f) ==
    /\ f \in [0 .. count -> States]
    /\ f[0] = state
    /\ \A n \in 1 .. count : f[n] = NextState(rows, low + n, f[n - 1])
    /\ ApplyAll(rows, state, low, count) = f[count]

LEMMA ApplyAllRuns ==
    ASSUME NEW rows, IsRowSet(rows), NEW state \in States, NEW low \in Nat, NEW count \in Nat
    PROVE  \E f : IsRun(rows, state, low, count, f)
  <1> DEFINE step == [n \in 1 .. count |-> [s \in States |-> NextState(rows, low + n, s)]]
             next(n, s) == IF n = 0 THEN state
                           ELSE IF \E r \in rows : r.rev = low + n
                           THEN ApplyRow(s, CHOOSE r \in rows : r.rev = low + n)
                           ELSE s
             F == CHOOSE h : h = [n \in 0 .. count |-> next(n, h[n - 1])]
  <1>1. IsSteps(States, count, step)
    BY NextStateType DEF IsSteps
  <1>2. /\ \A n \in 1 .. count, s \in States : step[n][s] = NextState(rows, low + n, s)
        /\ \A n \in 1 .. count : \A s : next(n, s) = NextState(rows, low + n, s)
        /\ \A s : next(0, s) = state
    <2>1. \A n \in 1 .. count, s \in States : step[n][s] = NextState(rows, low + n, s)
      OBVIOUS
    <2>2. \A n \in 1 .. count : n # 0
      OBVIOUS
    <2>3. \A n \in 1 .. count : \A s : next(n, s) = NextState(rows, low + n, s)
      BY <2>2 DEF NextState
    <2> QED  BY <2>1, <2>3
  <1>3. ApplyAll(rows, state, low, count) = F[count]
    BY DEF ApplyAll
  <1> HIDE DEF step, next
  <1>4. PICK f : f \in Runs(States, state, count, step)
    BY <1>1, StepsExist
  <1>5. f \in [0 .. count -> States] /\ f[0] = state
        /\ \A n \in 1 .. count : f[n] = step[n][f[n - 1]]
    BY <1>4 DEF Runs
  <1>6. \A n \in 1 .. count : n - 1 \in 0 .. count /\ n \in 0 .. count
    OBVIOUS
  <1>7. \A n \in 1 .. count : f[n] = next(n, f[n - 1])
    BY <1>2, <1>5, <1>6
  <1>8. f = [n \in 0 .. count |-> next(n, f[n - 1])]
    <2>1. \A n \in 0 .. count : n = 0 \/ n \in 1 .. count
      OBVIOUS
    <2>2. \A n \in 0 .. count : f[n] = next(n, f[n - 1])
      BY <1>2, <1>5, <1>7, <2>1
    <2> QED  BY <1>5, <2>2
  <1>9. F = [n \in 0 .. count |-> next(n, F[n - 1])]
    BY <1>8
  <1> HIDE DEF F
  <1>10. \A n \in 0 .. count : F[n] = next(n, F[n - 1])
    BY <1>9
  <1>11. 0 \in 0 .. count
    OBVIOUS
  <1>12. F[0] = state /\ \A n \in 1 .. count : F[n] = NextState(rows, low + n, F[n - 1])
    BY <1>2, <1>6, <1>10, <1>11
  <1>13. \A n \in 1 .. count : F[n - 1] \in States => F[n] = step[n][F[n - 1]]
    BY <1>2, <1>12
  <1>14. \A n \in 0 .. count : F[n] \in States
    BY <1>1, <1>12, <1>13, StepsType
  <1>15. F \in [0 .. count -> States]
    <2>1. F = [n \in 0 .. count |-> F[n]]
      BY <1>9
    <2> QED  BY <1>14, <2>1
  <1> QED  BY <1>3, <1>12, <1>15 DEF IsRun

----------------------------------------------------------------------------
(* Replay *)

RowsOf(l) == {At(i, l[i]) : i \in 1 .. Len(l)}
EmptyState == [table |-> EmptyTable, snapshot |-> {}]
ReplayOf(l) == ApplyAll(RowsOf(l), EmptyState, 0, Len(l))

LEMMA StartIs == EmptyState \in States /\ RevsUpTo(EmptyState, 0)
  BY DEF EmptyState, States, EmptyTable, NoRow, Rows, RevsUpTo

LEMMA RowsOfAre ==
    ASSUME NEW l \in Seq(Entries)
    PROVE  /\ IsRowSet(RowsOf(l))
           /\ \A n \in 1 .. Len(l) : \A s : NextState(RowsOf(l), n, s) = ApplyRow(s, At(n, l[n]))
  <1>1. \A i \in 1 .. Len(l) : At(i, l[i]).entry \in Entries /\ At(i, l[i]).rev = i
    BY DEF At
  <1>2. IsRowSet(RowsOf(l))
    BY <1>1 DEF IsRowSet, RowsOf
  <1>3. ASSUME NEW n \in 1 .. Len(l), NEW s
        PROVE  NextState(RowsOf(l), n, s) = ApplyRow(s, At(n, l[n]))
    <2>1. At(n, l[n]) \in RowsOf(l) /\ At(n, l[n]).rev = n
      BY DEF RowsOf, At
    <2>2. \A r \in RowsOf(l) : r.rev = n => r = At(n, l[n])
      BY <1>1 DEF RowsOf
    <2>3. (CHOOSE r \in RowsOf(l) : r.rev = n) = At(n, l[n])
      BY <2>1, <2>2
    <2> QED  BY <2>1, <2>3 DEF NextState
  <1> QED  BY <1>2, <1>3

\* Replaying one entry more is applying it to what was replayed.
LEMMA ReplayNext ==
    ASSUME NEW l \in Seq(Entries), NEW n \in Nat, n < Len(l)
    PROVE  ReplayOf(SubSeq(l, 1, n + 1)) = ApplyRow(ReplayOf(SubSeq(l, 1, n)), At(n + 1, l[n + 1]))
  <1> DEFINE p == SubSeq(l, 1, n)
             q == SubSeq(l, 1, n + 1)
  <1>1. /\ p \in Seq(Entries) /\ Len(p) = n /\ \A i \in 1 .. n : p[i] = l[i]
        /\ q \in Seq(Entries) /\ Len(q) = n + 1 /\ \A i \in 1 .. n + 1 : q[i] = l[i]
    OBVIOUS
  <1> HIDE DEF p, q
  <1>2. PICK f : IsRun(RowsOf(p), EmptyState, 0, n, f)
    BY <1>1, RowsOfAre, StartIs, ApplyAllRuns
  <1>3. n + 1 \in Nat
    OBVIOUS
  <1>4. PICK g : IsRun(RowsOf(q), EmptyState, 0, n + 1, g)
    BY <1>1, <1>3, RowsOfAre, StartIs, ApplyAllRuns
  <1>5. f[0] = EmptyState /\ \A i \in 1 .. n : f[i] = ApplyRow(f[i - 1], At(i, l[i]))
    <2>1. \A i \in 1 .. n : 0 + i = i
      OBVIOUS
    <2>2. \A i \in 1 .. n : f[i] = NextState(RowsOf(p), i, f[i - 1])
      BY <1>2, <2>1 DEF IsRun
    <2>3. \A i \in 1 .. n : f[i] = ApplyRow(f[i - 1], At(i, p[i]))
      BY <1>1, <2>2, RowsOfAre
    <2> QED  BY <1>1, <1>2, <2>3 DEF IsRun
  <1>6. g[0] = EmptyState /\ \A i \in 1 .. n + 1 : g[i] = ApplyRow(g[i - 1], At(i, l[i]))
    <2>1. \A i \in 1 .. n + 1 : 0 + i = i
      OBVIOUS
    <2>2. \A i \in 1 .. n + 1 : g[i] = NextState(RowsOf(q), i, g[i - 1])
      BY <1>4, <2>1 DEF IsRun
    <2>3. \A i \in 1 .. n + 1 : g[i] = ApplyRow(g[i - 1], At(i, q[i]))
      BY <1>1, <2>2, RowsOfAre
    <2> QED  BY <1>1, <1>4, <2>3 DEF IsRun
  <1> DEFINE S == {i \in 0 .. n : f[i] = g[i]}
  <1>7. 0 \in S
    BY <1>5, <1>6
  <1>8. \A i \in 0 .. n : i < n /\ i \in S => i + 1 \in S
    <2> SUFFICES ASSUME NEW i \in 0 .. n, i < n, f[i] = g[i] PROVE f[i + 1] = g[i + 1]
      OBVIOUS
    <2>1. i + 1 \in 1 .. n /\ i + 1 \in 1 .. n + 1 /\ (i + 1) - 1 = i
      OBVIOUS
    <2> QED  BY <1>5, <1>6, <2>1
  <1>9. n \in S
    <2> HIDE DEF S
    <2>1. 0 .. n \subseteq S
      BY <1>7, <1>8, InductiveUpTo
    <2> QED  BY <2>1
  <1>10. g[n + 1] = ApplyRow(f[n], At(n + 1, l[n + 1]))
    <2>1. n + 1 \in 1 .. n + 1 /\ (n + 1) - 1 = n
      OBVIOUS
    <2> QED  BY <1>6, <1>9, <2>1
  <1>11. ReplayOf(p) = f[n] /\ ReplayOf(q) = g[n + 1]
    BY <1>1, <1>2, <1>4 DEF ReplayOf, IsRun
  <1> QED  BY <1>10, <1>11 DEF p, q

LEMMA ReplayTypes ==
    ASSUME NEW l \in Seq(Entries), NEW n \in 0 .. Len(l)
    PROVE  ReplayOf(SubSeq(l, 1, n)) \in States /\ RevsUpTo(ReplayOf(SubSeq(l, 1, n)), n)
  <1> DEFINE R(i) == ReplayOf(SubSeq(l, 1, i))
             S == {i \in 0 .. Len(l) : R(i) \in States /\ RevsUpTo(R(i), i)}
  <1>1. R(0) = EmptyState
    <2>1. SubSeq(l, 1, 0) = <<>> /\ <<>> \in Seq(Entries) /\ Len(<<>>) = 0
      OBVIOUS
    <2>2. PICK f : IsRun(RowsOf(<<>>), EmptyState, 0, 0, f)
      BY <2>1, RowsOfAre, StartIs, ApplyAllRuns
    <2> QED  BY <2>1, <2>2 DEF ReplayOf, IsRun
  <1>2. 0 \in S
    BY <1>1, StartIs
  <1>3. ASSUME NEW i \in 0 .. Len(l), i < Len(l), i \in S
        PROVE  i + 1 \in S
    <2>1. R(i) \in States /\ RevsUpTo(R(i), i) /\ i \in Nat /\ l[i + 1] \in Entries
          /\ i + 1 \in 0 .. Len(l)
      BY <1>3
    <2>2. R(i + 1) = ApplyRow(R(i), At(i + 1, l[i + 1]))
      BY <1>3, <2>1, ReplayNext
    <2> HIDE DEF R
    <2>3. R(i + 1) \in States /\ RevsUpTo(R(i + 1), i + 1)
      BY <2>1, <2>2, EntryIs
    <2> QED  BY <2>1, <2>3
  <1>4. 0 .. Len(l) \subseteq S
    <2> HIDE DEF S
    <2>1. Len(l) \in Nat
      OBVIOUS
    <2> QED  BY <1>2, <1>3, <2>1, InductiveUpTo
  <1> QED  BY <1>4

----------------------------------------------------------------------------
(* A batch against the log *)

SameRow(p, q) == p.live = q.live /\ (p.live => p.value = q.value)
SameRows(s, t) == \A k \in Keys : SameRow(s[k], t[k])

\* Between two control records the entries of the log l up to `end` that come after n
\* overwrite key k, or mark it.
AllUpserts(l, low, high) == \A i \in low .. high : l[i].op = "upsert"
Overwritten(l, n, end, k) ==
    \E m \in n + 1 .. end : k \in l[m].keys /\ AllUpserts(l, n + 1, m)
Remarked(l, n, end, k) ==
    \E m \in n + 1 .. end : k \in l[m].keys /\ l[m].marked /\ AllUpserts(l, n + 1, m)

\* Two states after n entries are the same but for what the rest of the batch settles.
Agrees(l, n, end, a, b) ==
    \A k \in Keys :
        /\ SameRow(a.table[k], b.table[k]) \/ Overwritten(l, n, end, k)
        /\ (k \in a.snapshot <=> k \in b.snapshot) \/ Remarked(l, n, end, k)

LEMMA AgreeAtEnd ==
    ASSUME NEW l, NEW end \in Nat, NEW a \in States, NEW b \in States, Agrees(l, end, end, a, b)
    PROVE  SameRows(a.table, b.table) /\ a.snapshot = b.snapshot
  <1>1. \A k : ~Overwritten(l, end, end, k) /\ ~Remarked(l, end, end, k)
    BY DEF Overwritten, Remarked
  <1>2. a.snapshot \subseteq Keys /\ b.snapshot \subseteq Keys
    BY DEF States
  <1> QED  BY <1>1, <1>2 DEF Agrees, SameRows

LEMMA ControlAgrees ==
    ASSUME NEW l \in Seq(Entries), NEW n \in Nat, NEW end \in Nat, n < end, end <= Len(l),
           NEW a \in States, NEW b \in States, RevsUpTo(a, n), RevsUpTo(b, n),
           Agrees(l, n, end, a, b), l[n + 1].op # "upsert"
    PROVE  Agrees(l, n + 1, end, ApplyRow(a, At(n + 1, l[n + 1])), ApplyRow(b, At(n + 1, l[n + 1])))
  <1> DEFINE e == l[n + 1]
             s == ApplyRow(a, At(n + 1, e))
             t == ApplyRow(b, At(n + 1, e))
             gone(x) == IF e.op = "prefix" THEN e.keys
                        ELSE IF e.op = "snapshot_end" THEN e.keys \ x.snapshot ELSE {}
  <1>1. e \in Entries /\ n + 1 \in Nat
    OBVIOUS
  <1>2. \A k : ~Overwritten(l, n, end, k) /\ ~Remarked(l, n, end, k)
    <2>1. \A m \in n + 1 .. end : ~AllUpserts(l, n + 1, m)
      BY DEF AllUpserts
    <2> QED  BY <2>1 DEF Overwritten, Remarked
  <1>3. a.snapshot = b.snapshot /\ \A k \in Keys : SameRow(a.table[k], b.table[k])
    <2>1. a.snapshot \subseteq Keys /\ b.snapshot \subseteq Keys
      BY DEF States
    <2> QED  BY <1>2, <2>1 DEF Agrees
  <1>4. e.op # "upsert"
    OBVIOUS
  <1> HIDE DEF e
  <1>5. s.snapshot = (IF e.op = "prefix" THEN a.snapshot ELSE {}) /\ Tombstoned(a, s, n + 1, gone(a))
    BY <1>1, <1>4, ControlIs
  <1>6. t.snapshot = (IF e.op = "prefix" THEN b.snapshot ELSE {}) /\ Tombstoned(b, t, n + 1, gone(b))
    BY <1>1, <1>4, ControlIs
  <1>7. gone(a) = gone(b) /\ s.snapshot = t.snapshot
    BY <1>3, <1>5, <1>6
  <1> HIDE DEF gone, s, t
  <1>8. ASSUME NEW k \in Keys
        PROVE  SameRow(s.table[k], t.table[k])
    <2>1. a.table[k] \in Rows /\ b.table[k] \in Rows
      BY DEF States
    <2>2. Tombstone(a.table[k], n + 1).live = FALSE /\ Tombstone(b.table[k], n + 1).live = FALSE
      BY <1>1, <2>1, TombstoneIs
    <2>3. SameRow(a.table[k], b.table[k])
      BY <1>3
    <2>4. s.table[k] = IF k \in gone(a) /\ a.table[k].live THEN Tombstone(a.table[k], n + 1)
                       ELSE a.table[k]
      BY <1>5 DEF Tombstoned
    <2>5. t.table[k] = IF k \in gone(a) /\ b.table[k].live THEN Tombstone(b.table[k], n + 1)
                       ELSE b.table[k]
      BY <1>6, <1>7 DEF Tombstoned
    <2> QED  BY <2>2, <2>3, <2>4, <2>5 DEF SameRow
  <1> QED  BY <1>7, <1>8 DEF Agrees, s, t, e

\* What is settled later than the next entry is settled later still.
LEMMA SettledLater ==
    ASSUME NEW l \in Seq(Entries), NEW n \in Nat, NEW end \in Nat, n < end, NEW k
    PROVE  /\ Overwritten(l, n, end, k) /\ k \notin l[n + 1].keys => Overwritten(l, n + 1, end, k)
           /\ Remarked(l, n, end, k) /\ ~(k \in l[n + 1].keys /\ l[n + 1].marked)
                => Remarked(l, n + 1, end, k)
  <1>1. \A m \in n + 1 .. end : m = n + 1 \/ m \in (n + 1) + 1 .. end
    OBVIOUS
  <1>2. \A m \in n + 1 .. end : AllUpserts(l, n + 1, m) => AllUpserts(l, (n + 1) + 1, m)
    BY DEF AllUpserts
  <1> QED  BY <1>1, <1>2 DEF Overwritten, Remarked

LEMMA UpsertAgrees ==
    ASSUME NEW l \in Seq(Entries), NEW n \in Nat, NEW end \in Nat, n < end, end <= Len(l),
           NEW a \in States, NEW b \in States, RevsUpTo(a, n), RevsUpTo(b, n),
           Agrees(l, n, end, a, b), l[n + 1].op = "upsert"
    PROVE  Agrees(l, n + 1, end, ApplyRow(a, At(n + 1, l[n + 1])), ApplyRow(b, At(n + 1, l[n + 1])))
  <1> DEFINE e == l[n + 1]
             s == ApplyRow(a, At(n + 1, e))
             t == ApplyRow(b, At(n + 1, e))
             new == [rev |-> n + 1, live |-> TRUE, value |-> e.value]
  <1>1. e \in Entries /\ e.op = "upsert"
    OBVIOUS
  <1> HIDE DEF e
  <1>2. /\ s.snapshot = IF e.marked THEN a.snapshot \cup e.keys ELSE a.snapshot
        /\ \A k \in Keys : s.table[k] = IF k \in e.keys THEN new ELSE a.table[k]
    BY <1>1, UpsertIs
  <1>3. /\ t.snapshot = IF e.marked THEN b.snapshot \cup e.keys ELSE b.snapshot
        /\ \A k \in Keys : t.table[k] = IF k \in e.keys THEN new ELSE b.table[k]
    BY <1>1, UpsertIs
  <1> HIDE DEF s, t, new
  <1>4. ASSUME NEW k \in Keys
        PROVE  /\ SameRow(s.table[k], t.table[k]) \/ Overwritten(l, n + 1, end, k)
               /\ (k \in s.snapshot <=> k \in t.snapshot) \/ Remarked(l, n + 1, end, k)
    <2>1. SameRow(new, new)
      BY DEF SameRow
    <2>2. SameRow(a.table[k], b.table[k]) \/ Overwritten(l, n, end, k)
      BY DEF Agrees
    <2>3. (k \in a.snapshot <=> k \in b.snapshot) \/ Remarked(l, n, end, k)
      BY DEF Agrees
    <2>4. /\ Overwritten(l, n, end, k) /\ k \notin e.keys => Overwritten(l, n + 1, end, k)
          /\ Remarked(l, n, end, k) /\ ~(k \in e.keys /\ e.marked) => Remarked(l, n + 1, end, k)
      BY SettledLater DEF e
    <2>5. SameRow(s.table[k], t.table[k]) \/ Overwritten(l, n + 1, end, k)
      BY <1>2, <1>3, <2>1, <2>2, <2>4
    <2>6. (k \in s.snapshot <=> k \in t.snapshot) \/ Remarked(l, n + 1, end, k)
      BY <1>2, <1>3, <2>3, <2>4
    <2> QED  BY <2>5, <2>6
  <1> QED  BY <1>4 DEF Agrees, s, t, e

\* A row that is left out because a later one of the batch has its key.
LEMMA DroppedAgrees ==
    ASSUME NEW l \in Seq(Entries), NEW n \in Nat, NEW end \in Nat, n < end, end <= Len(l),
           NEW a \in States, NEW b \in States, RevsUpTo(a, n),
           Agrees(l, n, end, a, b), l[n + 1].op = "upsert",
           NEW m \in n + 2 .. end, l[m].keys = l[n + 1].keys, AllUpserts(l, n + 1, m),
           l[n + 1].marked => l[m].marked
    PROVE  Agrees(l, n + 1, end, ApplyRow(a, At(n + 1, l[n + 1])), b)
  <1> DEFINE e == l[n + 1]
             s == ApplyRow(a, At(n + 1, e))
             new == [rev |-> n + 1, live |-> TRUE, value |-> e.value]
  <1>1. e \in Entries /\ e.op = "upsert"
    OBVIOUS
  <1>2. m \in (n + 1) + 1 .. end /\ AllUpserts(l, (n + 1) + 1, m)
    BY DEF AllUpserts
  <1>3. \A k \in e.keys : Overwritten(l, n + 1, end, k) /\ (e.marked => Remarked(l, n + 1, end, k))
    BY <1>2 DEF Overwritten, Remarked
  <1> HIDE DEF e, new
  <1>0. RevsUpTo(a, n) /\ a \in States /\ n \in Nat
    OBVIOUS
  <1>4. /\ s.snapshot = IF e.marked THEN a.snapshot \cup e.keys ELSE a.snapshot
        /\ \A k \in Keys : s.table[k] = IF k \in e.keys THEN new ELSE a.table[k]
    <2>1. LET t == ApplyRow(a, At(n + 1, e)) IN
          /\ t \in States /\ RevsUpTo(t, n + 1)
          /\ t.snapshot = IF e.marked THEN a.snapshot \cup e.keys ELSE a.snapshot
          /\ \A k \in Keys :
               t.table[k] = IF k \in e.keys THEN [rev |-> n + 1, live |-> TRUE, value |-> e.value]
                            ELSE a.table[k]
      BY ONLY <1>0, <1>1, UpsertIs, Zenon
    <2> QED  BY ONLY <2>1 DEF s, new
  <1> HIDE DEF s
  <1>5. ASSUME NEW k \in Keys
        PROVE  /\ SameRow(s.table[k], b.table[k]) \/ Overwritten(l, n + 1, end, k)
               /\ (k \in s.snapshot <=> k \in b.snapshot) \/ Remarked(l, n + 1, end, k)
    <2>1. SameRow(a.table[k], b.table[k]) \/ Overwritten(l, n, end, k)
      BY DEF Agrees
    <2>2. (k \in a.snapshot <=> k \in b.snapshot) \/ Remarked(l, n, end, k)
      BY DEF Agrees
    <2>3. /\ Overwritten(l, n, end, k) /\ k \notin e.keys => Overwritten(l, n + 1, end, k)
          /\ Remarked(l, n, end, k) /\ ~(k \in e.keys /\ e.marked) => Remarked(l, n + 1, end, k)
      BY SettledLater DEF e
    <2>4. SameRow(s.table[k], b.table[k]) \/ Overwritten(l, n + 1, end, k)
      BY <1>3, <1>4, <2>1, <2>3
    <2>5. (k \in s.snapshot <=> k \in b.snapshot) \/ Remarked(l, n + 1, end, k)
      BY <1>3, <1>4, <2>2, <2>3
    <2> QED  BY <2>4, <2>5
  <1> QED  BY <1>5 DEF Agrees, s, e

\* The rows of a batch, without those that are left out, do what the entries do one by one.
IsBatch(l, low, count, rows) ==
    /\ \A r \in rows : r.rev \in 1 .. Len(l) /\ r.entry = l[r.rev]
    /\ {r.rev : r \in rows} = low + 1 .. low + count
    /\ low + count <= Len(l)

LEMMA BatchStep ==
    ASSUME NEW l \in Seq(Entries), Bracketed(l), NEW low \in Nat, NEW count \in Nat, NEW rows,
           IsBatch(l, low, count, rows),
           NEW n \in Nat, low <= n, n < low + count,
           NEW a \in States, RevsUpTo(a, n), NEW b \in States, RevsUpTo(b, n),
           Agrees(l, n, low + count, a, b)
    PROVE  LET next == NextState({r \in rows : ~Superseded(rows, r)}, n + 1, b) IN
           /\ next \in States /\ RevsUpTo(next, n + 1)
           /\ Agrees(l, n + 1, low + count, ApplyRow(a, At(n + 1, l[n + 1])), next)
  <1> DEFINE live == {r \in rows : ~Superseded(rows, r)}
             next == NextState(live, n + 1, b)
             end == low + count
             e == l[n + 1]
  <1>1. /\ end \in Nat /\ end <= Len(l) /\ n < end /\ n + 1 \in 1 .. Len(l) /\ e \in Entries
        /\ n + 1 \in low + 1 .. end
    BY DEF IsBatch
  <1>0. Agrees(l, n, end, a, b)
    OBVIOUS
  <1>2. \A r \in rows : r.rev \in low + 1 .. end /\ r.rev \in Nat /\ r.entry = l[r.rev]
    BY <1>1 DEF IsBatch
  <1>3. \A i \in low + 1 .. end : \E r \in rows : r.rev = i
    <2> TAKE i \in low + 1 .. end
    <2>1. i \in {r.rev : r \in rows}
      BY DEF IsBatch
    <2> QED  BY <2>1
  <1>4. CASE \E r \in live : r.rev = n + 1
    <2> DEFINE r == CHOOSE r \in live : r.rev = n + 1
    <2>1. r \in live /\ r.rev = n + 1 /\ next = ApplyRow(b, r)
      BY <1>4 DEF NextState
    <2> HIDE DEF r, next
    <2>2. r.entry = e
      BY <1>2, <2>1
    <2>3. next = ApplyRow(b, At(n + 1, e))
      BY <2>1, <2>2, RowIsAt
    <2>4. next \in States /\ RevsUpTo(next, n + 1)
      BY <1>1, <2>3, EntryIs
    <2>5. Agrees(l, n + 1, end, ApplyRow(a, At(n + 1, e)), ApplyRow(b, At(n + 1, e)))
      <3> HIDE DEF end
      <3>1. CASE e.op = "upsert"
        BY <1>0, <1>1, <3>1, UpsertAgrees
      <3>2. CASE e.op # "upsert"
        BY <1>0, <1>1, <3>2, ControlAgrees
      <3> QED  BY <3>1, <3>2
    <2> QED  BY <2>3, <2>4, <2>5 DEF next
  <1>5. CASE ~\E r \in live : r.rev = n + 1
    <2>1. next = b
      BY <1>5 DEF NextState
    <2>2. PICK r \in rows : r.rev = n + 1
      BY <1>1, <1>3
    <2>3. Superseded(rows, r)
      BY <1>5, <2>2
    <2>4. PICK q \in rows :
            /\ r.entry.op = "upsert" /\ q.entry.op = "upsert"
            /\ q.rev > r.rev /\ q.entry.keys = r.entry.keys
            /\ \A c \in rows : c.rev \in r.rev .. q.rev => c.entry.op = "upsert"
      BY <2>3 DEF Superseded
    <2> DEFINE m == q.rev
    <2>5. m \in n + 2 .. end /\ l[m] = q.entry /\ e = r.entry /\ m \in Nat
      BY <1>1, <1>2, <2>2, <2>4
    <2>6. l[m].keys = e.keys /\ e.op = "upsert"
      BY <2>4, <2>5
    <2>7. AllUpserts(l, n + 1, m)
      <3> SUFFICES ASSUME NEW i \in n + 1 .. m PROVE l[i].op = "upsert"
        BY DEF AllUpserts
      <3>1. i \in low + 1 .. end
        BY <1>1, <2>5
      <3>2. PICK c \in rows : c.rev = i
        BY <1>3, <3>1
      <3>3. c.entry.op = "upsert"
        BY <2>2, <2>4, <3>2
      <3> QED  BY <1>2, <3>2, <3>3
    <2> HIDE DEF m
    <2>8. e.marked => l[m].marked
      <3>1. n + 1 \in DOMAIN l /\ m \in DOMAIN l /\ n + 1 < m
        BY <1>1, <2>5
      <3>2. \A k \in n + 1 .. m : l[k].op = "upsert"
        BY <2>7 DEF AllUpserts
      <3> QED  BY <2>6, <3>1, <3>2 DEF Bracketed
    <2>9. Agrees(l, n + 1, end, ApplyRow(a, At(n + 1, e)), b)
      <3> HIDE DEF end
      <3> QED  BY <1>0, <1>1, <2>5, <2>6, <2>7, <2>8, DroppedAgrees
    <2>10. RevsUpTo(b, n + 1)
      <3>1. \A k \in Keys : b.table[k].rev \in Nat
        BY DEF States, Rows
      <3> QED  BY <3>1 DEF RevsUpTo
    <2> HIDE DEF next
    <2> QED  BY <2>1, <2>9, <2>10 DEF next
  <1> QED  BY <1>4, <1>5

LEMMA BatchIsReplay ==
    ASSUME NEW l \in Seq(Entries), Bracketed(l), NEW low \in Nat, NEW count \in Nat, NEW rows,
           IsBatch(l, low, count, rows), NEW s \in States, RevsUpTo(s, low),
           SameRows(ReplayOf(SubSeq(l, 1, low)).table, s.table),
           ReplayOf(SubSeq(l, 1, low)).snapshot = s.snapshot,
           NEW t, t = ApplyAll({r \in rows : ~Superseded(rows, r)}, s, low, count)
    PROVE  /\ t \in States /\ RevsUpTo(t, low + count)
           /\ SameRows(ReplayOf(SubSeq(l, 1, low + count)).table, t.table)
           /\ ReplayOf(SubSeq(l, 1, low + count)).snapshot = t.snapshot
  <1> DEFINE live == {r \in rows : ~Superseded(rows, r)}
             end == low + count
             R(i) == ReplayOf(SubSeq(l, 1, i))
  <1>1. end \in Nat /\ end <= Len(l) /\ Len(l) \in Nat
    BY DEF IsBatch
  <1>2. IsRowSet(live)
    <2>1. \A r \in rows : r.rev \in 1 .. Len(l) /\ r.entry = l[r.rev]
      BY DEF IsBatch
    <2>2. \A r \in rows : r.rev \in Nat /\ r.entry \in Entries
      BY <2>1
    <2> QED  BY <2>2 DEF IsRowSet
  <1> HIDE DEF live
  <1>3. PICK f : IsRun(live, s, low, count, f)
    BY <1>2, ApplyAllRuns
  <1>4. /\ f \in [0 .. count -> States] /\ f[0] = s /\ t = f[count]
        /\ \A n \in 1 .. count : f[n] = NextState(live, low + n, f[n - 1])
    BY <1>3 DEF IsRun, live
  <1> DEFINE good == {n \in 0 .. count : /\ RevsUpTo(f[n], low + n)
                                         /\ Agrees(l, low + n, end, R(low + n), f[n])}
  <1>5. 0 \in good
    <2>1. low + 0 = low
      OBVIOUS
    <2>2. Agrees(l, low, end, R(low), s)
      BY DEF Agrees, SameRows
    <2> QED  BY <1>4, <2>1, <2>2
  <1>6. ASSUME NEW n \in 0 .. count, n < count, n \in good
        PROVE  n + 1 \in good
    <2> DEFINE i == low + n
    <2>1. /\ i \in Nat /\ low <= i /\ i < end /\ i < Len(l) /\ i \in 0 .. Len(l)
          /\ n + 1 \in 1 .. count /\ (n + 1) - 1 = n /\ low + (n + 1) = i + 1
          /\ n + 1 \in 0 .. count
      BY <1>1, <1>6
    <2>2. RevsUpTo(f[n], i) /\ Agrees(l, i, end, R(i), f[n]) /\ f[n] \in States
      BY <1>4, <1>6
    <2>3. f[n + 1] = NextState(live, i + 1, f[n])
      BY <1>4, <2>1
    <2> HIDE DEF i
    <2>4. R(i) \in States /\ RevsUpTo(R(i), i)
      BY <2>1, ReplayTypes
    <2>5. R(i + 1) = ApplyRow(R(i), At(i + 1, l[i + 1]))
      BY <2>1, ReplayNext
    <2> DEFINE a == R(i)
               b == f[n]
    <2>6. a \in States /\ RevsUpTo(a, i) /\ b \in States /\ RevsUpTo(b, i) /\ Agrees(l, i, low + count, a, b)
      BY <2>2, <2>4
    <2> HIDE DEF a, b
    <2>7. /\ RevsUpTo(NextState(live, i + 1, b), i + 1)
          /\ Agrees(l, i + 1, low + count, ApplyRow(a, At(i + 1, l[i + 1])), NextState(live, i + 1, b))
      BY <2>1, <2>6, BatchStep DEF live
    <2> HIDE DEF R
    <2>8. RevsUpTo(f[n + 1], i + 1) /\ Agrees(l, i + 1, end, R(i + 1), f[n + 1])
      BY <2>3, <2>5, <2>7 DEF a, b
    <2> QED  BY <2>1, <2>8
  <1>7. count \in good
    <2> HIDE DEF good
    <2>1. 0 .. count \subseteq good
      BY <1>5, <1>6, InductiveUpTo
    <2> QED  BY <2>1
  <1>8. RevsUpTo(t, end) /\ Agrees(l, end, end, R(end), t) /\ t \in States
    BY <1>4, <1>7
  <1>9. R(end) \in States
    BY <1>1, ReplayTypes
  <1> HIDE DEF end
  <1> DEFINE a == R(end)
  <1>10. a \in States /\ Agrees(l, end, end, a, t)
    BY <1>8, <1>9
  <1> HIDE DEF a
  <1>11. SameRows(a.table, t.table) /\ a.snapshot = t.snapshot
    BY <1>1, <1>8, <1>10, AgreeAtEnd
  <1> QED  BY <1>8, <1>11 DEF a, end

----------------------------------------------------------------------------
(* The remote tables are the replay of the log *)

State == [table |-> table, snapshot |-> snapshot]

TableInv ==
    /\ Bracketed(log)
    /\ State \in States /\ RevsUpTo(State, highWater)
    /\ SameRows(ReplayOf(applied).table, table)
    /\ ReplayOf(applied).snapshot = snapshot

\* Marks that are bracketed in two sequences are bracketed when one follows the other.
LEMMA BracketedConcat ==
    ASSUME NEW s \in Seq(Entries), NEW t \in Seq(Entries), Bracketed(s), Bracketed(t)
    PROVE  Bracketed(s \o t)
  <1> DEFINE l == s \o t
             n == Len(s)
  <1>1. /\ n \in Nat /\ Len(t) \in Nat /\ DOMAIN s = 1 .. n /\ DOMAIN t = 1 .. Len(t)
        /\ DOMAIN l = 1 .. n + Len(t)
        /\ \A i \in 1 .. n : l[i] = s[i]
        /\ \A i \in 1 .. Len(t) : l[n + i] = t[i]
    <2>1. Len(l) = n + Len(t) /\ l \in Seq(Entries)
      BY ConcatKeeps
    <2>2. \A i \in 1 .. n : l[i] = s[i]
      BY ConcatKeeps
    <2>3. \A i \in 1 .. Len(t) : l[n + i] = t[i]
      BY ConcatKeeps
    <2> HIDE DEF l
    <2> QED  BY <2>1, <2>2, <2>3
  <1>2. \A i \in 1 .. Len(t) : l[n + i] = t[i]
    BY ConcatKeeps
  <1>3. \A i \in 1 .. n : l[i] = s[i]
    BY ConcatKeeps
  <1> HIDE DEF l, n
  <1> SUFFICES ASSUME NEW i \in DOMAIN l, l[i].op = "upsert", l[i].marked
               PROVE  /\ \E j \in DOMAIN l : i < j /\ l[j].op # "upsert"
                      /\ \A j \in DOMAIN l :
                           i < j /\ l[j].keys = l[i].keys
                           /\ (\A k \in i .. j : l[k].op = "upsert") => l[j].marked
    BY DEF Bracketed, l
  <1>4. CASE i <= n
    <2>1. i \in 1 .. n /\ l[i] = s[i] /\ i \in DOMAIN s
      BY <1>1, <1>3, <1>4
    <2>2. PICK c \in 1 .. n : i < c /\ s[c].op # "upsert"
      BY <1>1, <2>1 DEF Bracketed
    <2>3. c \in DOMAIN l /\ l[c].op # "upsert"
      BY <1>1, <1>3, <2>2
    <2>4. ASSUME NEW j \in DOMAIN l, i < j, l[j].keys = l[i].keys,
                 \A k \in i .. j : l[k].op = "upsert"
          PROVE  l[j].marked
      <3>1. j < c
        <4>1. c \notin i .. j
          BY <2>3, <2>4
        <4> QED  BY <1>1, <2>1, <2>2, <4>1
      <3>2. j \in 1 .. n /\ j \in DOMAIN s
        BY <1>1, <2>2, <3>1
      <3>3. \A k \in i .. j : s[k].op = "upsert"
        <4>1. \A k \in i .. j : k \in 1 .. n
          BY <1>1, <2>1, <3>2
        <4> QED  BY <1>3, <2>4, <4>1
      <3>4. s[j].marked
        BY <1>3, <2>1, <2>4, <3>2, <3>3 DEF Bracketed
      <3> QED  BY <1>3, <3>2, <3>4
    <2> QED  BY <2>2, <2>3, <2>4
  <1>5. CASE i > n
    <2> DEFINE h == i - n
    <2>1. h \in 1 .. Len(t) /\ h \in DOMAIN t /\ l[i] = t[h] /\ n + h = i
      BY <1>1, <1>2, <1>5
    <2> HIDE DEF h
    <2>2. PICK c \in 1 .. Len(t) : h < c /\ t[c].op # "upsert"
      BY <1>1, <2>1 DEF Bracketed
    <2>3. n + c \in DOMAIN l /\ i < n + c /\ l[n + c].op # "upsert"
      BY <1>1, <1>2, <2>1, <2>2
    <2>4. ASSUME NEW j \in DOMAIN l, i < j, l[j].keys = l[i].keys,
                 \A k \in i .. j : l[k].op = "upsert"
          PROVE  l[j].marked
      <3> DEFINE g == j - n
      <3>1. g \in 1 .. Len(t) /\ g \in DOMAIN t /\ n + g = j /\ h < g
        BY <1>1, <2>1, <2>4
      <3> HIDE DEF g
      <3>2. l[j] = t[g]
        BY <1>2, <3>1
      <3>3. \A k \in h .. g : t[k].op = "upsert"
        <4>1. \A k \in h .. g : k \in 1 .. Len(t) /\ n + k \in i .. j
          BY <1>1, <2>1, <3>1
        <4> QED  BY <1>2, <2>4, <4>1
      <3>4. t[g].marked
        BY <2>1, <2>4, <3>1, <3>2, <3>3 DEF Bracketed
      <3> QED  BY <3>2, <3>4
    <2> QED  BY <2>3, <2>4
  <1>6. i \in Nat
    BY <1>1
  <1> QED  BY <1>1, <1>4, <1>5, <1>6

LEMMA CommitTable ==
    ASSUME IInv, TableInv, NEW w \in Workers, Commit(w), UNCHANGED <<log, revision, known>>
    PROVE  TableInv'
  <1> DEFINE rows == job[w].rows
             count == Cardinality(rows)
             low == highWater
             s == State
             t == UpsertRecords(rows)
  <1>1. LogOK' /\ highWater' = job[w].revision + count
    BY CommitOK
  <1>2. RowsOK(rows, log) /\ job[w].revision = low
    BY JobHere DEF JobOK, Commit, FencePasses
  <1>3. /\ log \in Seq(Entries) /\ low \in Nat /\ applied = SubSeq(log, 1, low)
        /\ highWater' <= Len(log) /\ applied' = SubSeq(log, 1, highWater')
    BY <1>1 DEF IInv, LogOK, AppliedInOrder
  <1>4. count \in Nat /\ highWater' = low + count
    BY <1>1, <1>2, FS_CardinalityType DEF RowsOK
  <1>5. IsBatch(log, low, count, rows)
    <2>1. \A r \in rows : r.rev \in 1 .. Len(log) /\ r.entry = log[r.rev]
      BY <1>2 DEF RowsOK
    <2>2. {r.rev : r \in rows} = low + 1 .. low + count
      BY DEF Commit, FencePasses
    <2> QED  BY <1>3, <1>4, <2>1, <2>2 DEF IsBatch
  <1>6. table' = t.table /\ snapshot' = t.snapshot
    BY DEF Commit
  <1>7. t = ApplyAll({r \in rows : ~Superseded(rows, r)}, s, low, count)
    BY DEF UpsertRecords, State
  <1>8. /\ s \in States /\ RevsUpTo(s, low) /\ s.table = table /\ s.snapshot = snapshot
        /\ SameRows(ReplayOf(SubSeq(log, 1, low)).table, s.table)
        /\ ReplayOf(SubSeq(log, 1, low)).snapshot = s.snapshot /\ Bracketed(log)
    BY <1>3 DEF TableInv, State
  <1> HIDE DEF s, t, rows, count, low
  <1>9. /\ t \in States /\ RevsUpTo(t, low + count)
        /\ SameRows(ReplayOf(SubSeq(log, 1, low + count)).table, t.table)
        /\ ReplayOf(SubSeq(log, 1, low + count)).snapshot = t.snapshot
    BY <1>3, <1>4, <1>5, <1>7, <1>8, BatchIsReplay
  <1>10. State' = t
    <2>1. t = [table |-> t.table, snapshot |-> t.snapshot]
      BY <1>9 DEF States
    <2> QED  BY <1>6, <2>1 DEF State
  <1>11. applied' = SubSeq(log, 1, low + count)
    BY <1>3, <1>4
  <1>12. Bracketed(log')
    BY <1>8
  <1>13. State' \in States /\ RevsUpTo(State', highWater')
    BY <1>4, <1>9, <1>10
  <1>14. SameRows(ReplayOf(applied').table, table') /\ ReplayOf(applied').snapshot = snapshot'
    BY <1>6, <1>9, <1>11
  <1> QED  BY <1>12, <1>13, <1>14 DEF TableInv

\* A purge removes only rows that are not shown.
LEMMA MaintainTable ==
    ASSUME IInv, TableInv, NEW w \in Workers, Maintain(w)
    PROVE  TableInv'
  <1>1. PICK purged \in {{}, {k \in Keys : ~table[k].live}} :
            table' = [k \in Keys |-> IF k \in purged THEN NoRow ELSE table[k]]
    BY DEF Maintain
  <1>2. UNCHANGED <<log, applied, snapshot, highWater>>
    BY DEF Maintain, history
  <1>3. \A k \in purged : ~table[k].live
    BY <1>1
  <1>4. \A k \in Keys : table[k] \in Rows /\ table[k].rev <= highWater
    BY DEF TableInv, State, States, RevsUpTo
  <1>5. NoRow \in Rows /\ NoRow.live = FALSE /\ NoRow.rev = 0
    BY DEF NoRow, Rows
  <1>6. highWater \in Nat
    BY HighNat
  <1>7. \A k \in Keys : /\ table'[k] \in Rows /\ table'[k].rev <= highWater
                        /\ table'[k] = table[k] \/ (table'[k].live = FALSE /\ ~table[k].live)
    BY <1>1, <1>3, <1>4, <1>5, <1>6
  <1>8. State' \in States /\ RevsUpTo(State', highWater')
    <2>1. table' = [k \in Keys |-> table'[k]]
      BY <1>1
    <2>2. table' \in [Keys -> Rows]
      BY <1>7, <2>1
    <2>3. snapshot \in SUBSET Keys
      BY DEF TableInv, State, States
    <2> QED  BY <1>2, <1>7, <2>2, <2>3 DEF State, States, RevsUpTo
  <1>9. SameRows(ReplayOf(applied).table, table')
    <2> SUFFICES ASSUME NEW k \in Keys PROVE SameRow(ReplayOf(applied).table[k], table'[k])
      BY DEF SameRows
    <2>1. SameRow(ReplayOf(applied).table[k], table[k])
      BY DEF TableInv, SameRows
    <2>2. table[k].live \in BOOLEAN
      BY <1>4 DEF Rows
    <2> QED  BY <1>7, <2>1, <2>2 DEF SameRow
  <1> QED  BY <1>2, <1>8, <1>9 DEF TableInv

LEMMA TableSteps ==
    ASSUME [Next]_vars
    PROVE  \/ UNCHANGED <<table, snapshot, highWater, log, applied>>
           \/ \E w \in Workers : Stage(w) \/ UploadFenced(w) \/ ReplyLost(w) \/ Maintain(w)
  <1>1. CASE UNCHANGED vars
    BY <1>1 DEF vars, history, remote
  <1>2. CASE SourceChanges \/ RowsReady \/ ScanAges \/ LeaseLapses \/ Adopt
    BY <1>2 DEF SourceChanges, RowsReady, ScanAges, LeaseLapses, Adopt, history, remote
  <1>3. ASSUME NEW w \in Workers, Start(w) \/ Crash(w) \/ Signal(w) \/ SkipSource(w)
               \/ OpenSource(w) \/ DiscoverFails(w)
        PROVE  UNCHANGED <<table, snapshot, highWater, log, applied>>
    BY <1>3 DEF Start, Crash, Signal, SkipSource, OpenSource, DiscoverFails, history, remote
  <1>4. ASSUME NEW w \in Workers, EnsureRemoteSource(w) \/ LeaseRefused(w) \/ ReadRemoteFence(w)
               \/ Claim(w) \/ LeaseRows(w) \/ FenceFails(w) \/ NetworkError(w)
        PROVE  UNCHANGED <<table, snapshot, highWater, log, applied>>
    BY <1>4 DEF EnsureRemoteSource, LeaseRefused, ReadRemoteFence, Claim, LeaseRows, FenceFails,
                NetworkError, history, remote
  <1>5. ASSUME NEW w \in Workers, SetRemoteRevision(w) \/ Acknowledge(w) \/ Finish(w)
        PROVE  UNCHANGED <<table, snapshot, highWater, log, applied>>
    BY <1>5 DEF SetRemoteRevision, Acknowledge, Finish, history, remote
  <1> QED  BY <1>1, <1>2, <1>3, <1>4, <1>5 DEF Next, Step

LEMMA TableStepOK ==
    ASSUME IInv, TableInv, [Next]_vars
    PROVE  TableInv'
  <1>1. CASE UNCHANGED <<table, snapshot, highWater, log, applied>>
    BY <1>1 DEF TableInv, State
  <1>2. ASSUME NEW w \in Workers, Stage(w)
        PROVE  TableInv'
    <2>1. UNCHANGED <<table, snapshot, highWater, applied>>
      BY <1>2 DEF Stage
    <2>2. Bracketed(log')
      <3>1. CASE UNCHANGED log
        BY <3>1 DEF TableInv
      <3>2. ASSUME NEW entries \in Seq(Entries), Bracketed(entries), log' = log \o entries
            PROVE  Bracketed(log')
        <4>1. log \in Seq(Entries) /\ Bracketed(log)
          BY DEF IInv, LogOK, TableInv
        <4> QED  BY <3>2, <4>1, BracketedConcat
      <3> QED  BY <1>2, <3>1, <3>2, StageCases
    <2> QED  BY <2>1, <2>2 DEF TableInv, State
  <1>3. ASSUME NEW w \in Workers, UploadFenced(w) \/ ReplyLost(w)
        PROVE  TableInv'
    <2>1. Commit(w) /\ UNCHANGED <<log, revision, known>>
      BY <1>3 DEF UploadFenced, ReplyLost, local
    <2> QED  BY <2>1, CommitTable
  <1> QED  BY <1>1, <1>2, <1>3, MaintainTable, TableSteps

LEMMA TableInitOK == Init => TableInv
  <1> SUFFICES ASSUME Init PROVE TableInv
    OBVIOUS
  <1>1. log = <<>> /\ applied = <<>> /\ table = EmptyTable /\ snapshot = {} /\ highWater = 0
    BY DEF Init
  <1>2. State = EmptyState
    BY <1>1 DEF State, EmptyState
  <1>3. ReplayOf(applied) = EmptyState
    <2>1. <<>> \in Seq(Entries) /\ Len(<<>>) = 0
      OBVIOUS
    <2>2. PICK f : IsRun(RowsOf(<<>>), EmptyState, 0, 0, f)
      BY <2>1, RowsOfAre, StartIs, ApplyAllRuns
    <2> QED  BY <1>1, <2>1, <2>2 DEF ReplayOf, IsRun
  <1>4. Bracketed(log)
    BY <1>1 DEF Bracketed
  <1>5. SameRows(ReplayOf(applied).table, table) /\ ReplayOf(applied).snapshot = snapshot
    BY <1>1, <1>3 DEF EmptyState, SameRows, SameRow
  <1> QED  BY <1>1, <1>2, <1>4, <1>5, StartIs DEF TableInv

\* Batches, the rows that are left out of them as duplicates, the revision guards and purges
\* make no difference to what the remote tables show: at any time it is what the entries
\* applied so far give one by one, whatever overlaps, is killed or gets no answer
\* (deduplicateRemoteKeys, upsertRecords, purgeRemoteTombstones).
THEOREM TablesAreReplayed == Spec => []TableIsReplay
  <1>1. TableInv => TableIsReplay
    <2> SUFFICES ASSUME TableInv PROVE TableIsReplay
      OBVIOUS
    <2>1. Replay = ReplayOf(applied)
      BY DEF Replay, ReplayOf, RowsOf, At, EmptyState
    <2>2. \A k \in Keys : SameRow(Replay.table[k], table[k])
      BY <2>1 DEF TableInv, SameRows
    <2> HIDE DEF Replay
    <2>3. LiveRows(table) = LiveRows(Replay.table)
      BY <2>2 DEF LiveRows, SameRow
    <2> QED  BY <2>3 DEF TableIsReplay
  <1>2. IInv /\ TableInv /\ [Next]_vars => TableInv'
    BY TableStepOK
  <1> QED  BY <1>1, <1>2, TableInitOK, MirrorInvariant, PTL DEF Spec

----------------------------------------------------------------------------
(* Nothing is lost *)

\* No two rows share an id.
IdsOK(rows) == \A r \in rows : r.id \in Nat \ {0} /\ \A q \in rows : q.id = r.id => q.rev = r.rev

\* One worker at a time, while none overlap.
Sole == \A v, w \in Workers : Running(v) /\ Running(w) => v = w

\* Where no batch has been claimed yet in this pass.
Resting(j, point) == point \in {"off", "poll", "discover"} => j.rows = {}

\* The ids a worker holds are those of its rows, not of later ones.
Held(j, rows) == \A r \in j.rows : \A q \in rows : q.id = r.id => q.rev = r.rev

\* What a worker is about to acknowledge was applied.
Done(j, point, high) == point \in {"committed", "stored"} => \A r \in j.rows : r.rev <= high

JobKeeps(j, point, rows, high) == Resting(j, point) /\ Held(j, rows) /\ Done(j, point, high)

\* What was not applied is in the outbox.
Kept(rows, high, last) == \A n \in high + 1 .. last : \E r \in rows : r.rev = n

KeepInv ==
    /\ at = [w \in Workers |-> at[w]]
    /\ IdsOK(outbox)
    /\ "overlap" \notin past =>
        /\ Sole
        /\ Kept(outbox, highWater, revision)
        /\ \A w \in Workers : JobKeeps(job[w], at[w], outbox, highWater)

\* A finite set of numbers has a largest one: among the sets of what is above a member,
\* a smallest one is empty.
LEMMA FiniteHasMax ==
    ASSUME NEW S \in SUBSET Nat, S # {}, IsFiniteSet(S)
    PROVE  Max(S) \in S /\ \A y \in S : y <= Max(S)
  <1> DEFINE Above(x) == {y \in S : y > x}
             family == {Above(x) : x \in S}
  <1>1. family \subseteq FiniteSubsetsOf(S) /\ family # {}
    <2>1. \A x : Above(x) \in SUBSET S
      OBVIOUS
    <2> HIDE DEF Above
    <2>2. \A x : IsFiniteSet(Above(x))
      BY <2>1, FS_Subset
    <2> QED  BY <2>1, <2>2 DEF FiniteSubsetsOf
  <1>2. PICK T \in family : \A U \in family : ~(<<U, T>> \in StrictSubsetOrdering(S))
    <2>1. IsWellFoundedOn(StrictSubsetOrdering(S), FiniteSubsetsOf(S))
      BY FS_StrictSubsetOrderingWellFounded
    <2> HIDE DEF family
    <2> QED  BY <1>1, <2>1, WFMin
  <1>3. PICK x \in S : T = Above(x)
    OBVIOUS
  <1>4. ASSUME NEW y \in Above(x)
        PROVE  FALSE
    <2>0. y \in S /\ y \in Nat /\ x \in Nat /\ y > x /\ y \notin Above(y)
      OBVIOUS
    <2>1. Above(y) \in family
      BY <2>0
    <2>2. \A z \in Above(y) : z \in Above(x)
      BY <2>0
    <2>3. Above(y) \in SUBSET S /\ Above(x) \in SUBSET S
      OBVIOUS
    <2>4. Above(y) # Above(x)
      BY <2>0
    <2> HIDE DEF Above, family
    <2>5. <<Above(y), Above(x)>> \in StrictSubsetOrdering(S)
      BY <2>2, <2>3, <2>4 DEF StrictSubsetOrdering
    <2> QED  BY <1>2, <1>3, <2>1, <2>5
  <1>5. \A y \in S : x >= y
    BY <1>4
  <1> QED  BY <1>5 DEF Max

\* The ids of the rows that are enqueued are above those in the table.
LEMMA NextIdAbove ==
    ASSUME NEW rows, IsFiniteSet(rows), IdsOK(rows)
    PROVE  NextId(rows) \in Nat \ {0} /\ \A r \in rows : r.id < NextId(rows)
  <1>1. CASE rows = {}
    BY <1>1 DEF NextId
  <1>2. CASE rows # {}
    <2> DEFINE ids == {r.id : r \in rows}
    <2>1. IsFiniteSet(ids)
      <3>1. [r \in rows |-> r.id] \in Surjection(rows, ids)
        BY DEF Surjection
      <3> QED  BY <3>1, FS_Surjection
    <2>2. ids \in SUBSET Nat /\ ids # {}
      BY <1>2 DEF IdsOK
    <2>3. \A r \in rows : r.id \in ids
      OBVIOUS
    <2>4. NextId(rows) = 1 + Max(ids)
      BY <1>2 DEF NextId
    <2> HIDE DEF ids
    <2>5. Max(ids) \in Nat /\ \A y \in ids : y <= Max(ids)
      BY <2>1, <2>2, FiniteHasMax
    <2>6. \A r \in rows : r.id \in Nat
      BY DEF IdsOK
    <2> QED  BY <2>3, <2>4, <2>5, <2>6
  <1> QED  BY <1>1, <1>2

\* Every row of `rows` is one of `old`, whatever its state is.
From(rows, old) == \A q \in rows : \E r \in old : r.id = q.id /\ r.rev = q.rev

LEMMA FromIds ==
    ASSUME NEW old, NEW rows, IdsOK(old), From(rows, old)
    PROVE  IdsOK(rows)
  <1> SUFFICES ASSUME NEW r \in rows, NEW q \in rows
               PROVE  r.id \in Nat \ {0} /\ (q.id = r.id => q.rev = r.rev)
    BY DEF IdsOK
  <1>1. PICK x \in old : x.id = r.id /\ x.rev = r.rev
    BY DEF From
  <1>2. PICK y \in old : y.id = q.id /\ y.rev = q.rev
    BY DEF From
  <1>3. x.id \in Nat \ {0} /\ (y.id = x.id => y.rev = x.rev)
    BY DEF IdsOK
  <1> QED  BY <1>1, <1>2, <1>3

LEMMA FromHeld ==
    ASSUME NEW old, NEW rows, From(rows, old), NEW j, Held(j, old)
    PROVE  Held(j, rows)
  <1> SUFFICES ASSUME NEW r \in j.rows, NEW q \in rows, q.id = r.id
               PROVE  q.rev = r.rev
    BY DEF Held
  <1>1. PICK y \in old : y.id = q.id /\ y.rev = q.rev
    BY DEF From
  <1> QED  BY <1>1 DEF Held

LEMMA SubsetFrom == ASSUME NEW old, NEW rows \in SUBSET old PROVE From(rows, old)
  BY DEF From

LEMMA SetStateFrom ==
    ASSUME NEW l, NEW rows, RowsOK(rows, l), NEW ids, NEW state
    PROVE  From(SetState(rows, ids, state), rows) /\ From(rows, SetState(rows, ids, state))
  <1> DEFINE f(r) == IF r.id \in ids THEN [r EXCEPT !.state = state] ELSE r
  <1>1. ASSUME NEW r \in rows
        PROVE  f(r).id = r.id /\ f(r).rev = r.rev
    <2>1. r = [id |-> r.id, rev |-> r.rev, entry |-> r.entry, state |-> r.state]
      BY DEF RowsOK, IsRow
    <2> QED  BY <2>1
  <1>2. SetState(rows, ids, state) = {f(r) : r \in rows}
    BY DEF SetState
  <1> HIDE DEF f
  <1> QED  BY <1>1, <1>2 DEF From

LEMMA KeptFrom ==
    ASSUME NEW old, NEW rows, From(old, rows), NEW high, NEW last, Kept(old, high, last)
    PROVE  Kept(rows, high, last)
  BY DEF From, Kept

LEMMA KeptHigher ==
    ASSUME NEW rows, NEW high \in Nat, NEW higher \in Nat, high <= higher, NEW last \in Nat,
           Kept(rows, high, last)
    PROVE  Kept(rows, higher, last)
  BY DEF Kept

LEMMA DropKept ==
    ASSUME NEW rows, NEW high \in Nat, NEW last \in Nat, Kept(rows, high, last)
    PROVE  Kept(DropThrough(rows, high), high, last)
  BY DEF Kept, DropThrough

LEMMA Highs ==
    ASSUME IInv
    PROVE  highWater \in Nat /\ revision \in Nat /\ highWater <= revision
  BY DEF IInv, LogOK, AppliedInOrder

\* The other workers are off while one of them runs, and hold nothing.
LEMMA WorkerKeeps ==
    ASSUME IInv, KeepInv, NEW w \in Workers, Running(w), NEW j, NEW point,
           job' = [job EXCEPT ![w] = j], at' = [at EXCEPT ![w] = point],
           "overlap" \in past => "overlap" \in past',
           IdsOK(outbox'),
           "overlap" \notin past => /\ Kept(outbox', highWater', revision')
                                    /\ JobKeeps(j, point, outbox', highWater')
    PROVE  KeepInv'
  <1>1. at' = [v \in Workers |-> at'[v]]
    BY DEF KeepInv
  <1>2. at'[w] = point /\ \A v \in Workers \ {w} : at'[v] = at[v]
    BY DEF KeepInv
  <1>3. job'[w] = j /\ \A v \in Workers \ {w} : job'[v] = job[v]
    BY DEF IInv, JobsOK
  <1>4. ASSUME "overlap" \notin past'
        PROVE  /\ \A u, v \in Workers : at'[u] # "off" /\ at'[v] # "off" => u = v
               /\ \A v \in Workers : JobKeeps(job'[v], at'[v], outbox', highWater')
    <2>1. "overlap" \notin past
      BY <1>4
    <2>2. \A v \in Workers \ {w} : at[v] = "off"
      BY <2>1 DEF KeepInv, Sole, Running
    <2>3. \A v \in Workers \ {w} : job[v].rows = {}
      BY <2>1, <2>2 DEF KeepInv, JobKeeps, Resting
    <2>4. ASSUME NEW v \in Workers
          PROVE  JobKeeps(job'[v], at'[v], outbox', highWater')
      <3>1. CASE v = w
        BY <1>2, <1>3, <2>1, <3>1
      <3>2. CASE v # w
        BY <1>2, <1>3, <2>3, <3>2 DEF JobKeeps, Resting, Held, Done
      <3> QED  BY <3>1, <3>2
    <2> QED  BY <1>2, <2>2, <2>4
  <1>5. "overlap" \notin past' => Kept(outbox', highWater', revision')
    OBVIOUS
  <1> QED  BY <1>1, <1>4, <1>5 DEF KeepInv, Sole, Running

\* A step of a worker that leaves the outbox and the remote revision alone.
LEMMA WorkerQuiet ==
    ASSUME IInv, KeepInv, NEW w \in Workers, Running(w), NEW j, NEW point,
           job' = [job EXCEPT ![w] = j], at' = [at EXCEPT ![w] = point],
           "overlap" \in past => "overlap" \in past',
           UNCHANGED <<outbox, highWater, revision>>,
           j.rows = job[w].rows \/ j.rows = {},
           "overlap" \notin past => Resting(j, point) /\ Done(j, point, highWater)
    PROVE  KeepInv'
  <1>1. IdsOK(outbox')
    BY DEF KeepInv
  <1>2. ASSUME "overlap" \notin past
        PROVE  /\ Kept(outbox', highWater', revision')
               /\ JobKeeps(j, point, outbox', highWater')
    <2>1. Held(j, outbox)
      BY <1>2 DEF KeepInv, JobKeeps, Held
    <2> QED  BY <1>2, <2>1 DEF KeepInv, JobKeeps
  <1> QED  BY <1>1, <1>2, WorkerKeeps

\* The end of a process, and of a pass: nothing is held any more.
LEMMA EndKeeps ==
    ASSUME IInv, KeepInv, NEW w \in Workers, Running(w), End(w),
           "overlap" \in past => "overlap" \in past',
           IdsOK(outbox'),
           "overlap" \notin past => Kept(outbox', highWater', revision')
    PROVE  KeepInv'
  <1>1. job' = [job EXCEPT ![w] = NoJob] /\ at' = [at EXCEPT ![w] = "off"]
    BY DEF End, Goto
  <1>2. JobKeeps(NoJob, "off", outbox', highWater')
    BY DEF NoJob, JobKeeps, Resting, Held, Done
  <1> QED  BY <1>1, <1>2, WorkerKeeps

LEMMA LeavePassKeeps ==
    ASSUME IInv, KeepInv, NEW w \in Workers, Running(w), LeavePass(w, job[w], outbox),
           UNCHANGED <<outbox, highWater, revision, past>>
    PROVE  KeepInv'
  <1>1. IdsOK(outbox') /\ ("overlap" \notin past => Kept(outbox', highWater', revision'))
    BY DEF KeepInv
  <1>2. CASE End(w)
    BY <1>1, <1>2, EndKeeps
  <1> DEFINE k == [NoJob EXCEPT !.once = job[w].once]
  <1>3. CASE job' = [job EXCEPT ![w] = k] /\ Goto(w, "poll")
    <2>1. k.rows = {}
      BY DEF NoJob
    <2>2. job' = [job EXCEPT ![w] = k] /\ at' = [at EXCEPT ![w] = "poll"]
      BY <1>3 DEF Goto
    <2> HIDE DEF k
    <2>3. JobKeeps(k, "poll", outbox', highWater')
      BY <2>1 DEF JobKeeps, Resting, Held, Done
    <2> QED  BY <1>1, <2>2, <2>3, WorkerKeeps
  <1> QED  BY <1>2, <1>3 DEF LeavePass

LEMMA ThrowKeeps ==
    ASSUME IInv, KeepInv, NEW w \in Workers, Running(w), Throw(w), UNCHANGED <<revision, past>>,
           highWater' \in Nat, highWater <= highWater'
    PROVE  KeepInv'
  <1> DEFINE k == [job[w] EXCEPT !.failed = TRUE, !.rows = {}]
  <1>1. job' = [job EXCEPT ![w] = k] /\ at' = [at EXCEPT ![w] = "finish"]
    BY DEF Throw, Goto
  <1>2. k.rows = {}
    BY JobHere DEF JobOK, IsJob
  <1>3. From(outbox', outbox) /\ From(outbox, outbox')
    BY SetStateFrom DEF IInv, Throw
  <1>4. IdsOK(outbox')
    BY <1>3, FromIds DEF KeepInv
  <1>5. ASSUME "overlap" \notin past
        PROVE  Kept(outbox', highWater', revision')
    <2>1. Kept(outbox, highWater, revision)
      BY <1>5 DEF KeepInv
    <2>2. Kept(outbox', highWater, revision)
      BY <1>3, <2>1, KeptFrom
    <2> QED  BY <2>2, Highs, KeptHigher
  <1> HIDE DEF k
  <1>6. JobKeeps(k, "finish", outbox', highWater')
    BY <1>2 DEF JobKeeps, Resting, Held, Done
  <1> QED  BY <1>1, <1>4, <1>5, <1>6, WorkerKeeps

LEMMA EnvironmentKeeps ==
    ASSUME IInv, KeepInv, UNCHANGED <<revision, highWater, at, job, past>>,
           From(outbox', outbox),
           "overlap" \notin past => Kept(outbox', highWater, revision)
    PROVE  KeepInv'
  <1>1. IdsOK(outbox')
    BY FromIds DEF KeepInv
  <1>2. ASSUME "overlap" \notin past, NEW w \in Workers
        PROVE  JobKeeps(job[w], at[w], outbox', highWater)
    BY <1>2, FromHeld DEF KeepInv, JobKeeps
  <1> QED  BY <1>1, <1>2 DEF KeepInv, Sole, Running

LEMMA RestKeeps ==
    ASSUME IInv, KeepInv, UNCHANGED <<outbox, revision, highWater, at, job, past>>
    PROVE  KeepInv'
  <1>1. From(outbox', outbox)
    BY SubsetFrom
  <1> QED  BY <1>1, EnvironmentKeeps DEF KeepInv

LEMMA RowsReadyKeeps ==
    ASSUME IInv, KeepInv, RowsReady
    PROVE  KeepInv'
  <1>1. From(outbox', outbox) /\ From(outbox, outbox')
    BY SetStateFrom DEF RowsReady, IInv
  <1>2. "overlap" \notin past => Kept(outbox', highWater, revision)
    BY <1>1, KeptFrom DEF KeepInv
  <1> QED  BY <1>1, <1>2, EnvironmentKeeps DEF RowsReady, remote, history

LEMMA AdoptKeeps ==
    ASSUME IInv, KeepInv, Adopt
    PROVE  KeepInv'
  <1>1. From(outbox', outbox)
    BY SubsetFrom DEF Adopt, DropThrough
  <1>2. "overlap" \notin past => Kept(outbox', highWater, revision)
    BY DropKept, Highs DEF Adopt, KeepInv
  <1> QED  BY <1>1, <1>2, EnvironmentKeeps DEF Adopt, remote, history

\* A worker that starts while another one runs is an overlap.
LEMMA StartKeeps ==
    ASSUME IInv, KeepInv, NEW w \in Workers, Start(w)
    PROVE  KeepInv'
  <1>0. PICK mode \in Modes : job' = [job EXCEPT ![w].once = (mode = "once")]
    BY DEF Start
  <1> DEFINE k == [job[w] EXCEPT !.once = (mode = "once")]
  <1>1. k.rows = job[w].rows
    BY JobHere DEF JobOK, IsJob
  <1>2. job'[w] = k /\ \A v \in Workers \ {w} : job'[v] = job[v]
    BY <1>0 DEF IInv, JobsOK
  <1> HIDE DEF k
  <1>3. at' = [at EXCEPT ![w] = "poll"] /\ at[w] = "off"
    BY DEF Start, Goto, Running
  <1>4. at' = [v \in Workers |-> at'[v]] /\ at'[w] = "poll"
        /\ \A v \in Workers \ {w} : at'[v] = at[v]
    BY <1>3 DEF KeepInv
  <1>5. UNCHANGED <<outbox, revision, highWater>>
    BY DEF Start, local, remote
  <1>6. ASSUME "overlap" \notin past'
        PROVE  "overlap" \notin past /\ \A v \in Workers : at[v] = "off"
    BY <1>6 DEF Start, Running
  <1>7. ASSUME "overlap" \notin past', NEW v \in Workers
        PROVE  JobKeeps(job'[v], at'[v], outbox', highWater')
    <2>1. JobKeeps(job[v], "off", outbox, highWater) /\ job'[v].rows = job[v].rows
      BY <1>1, <1>2, <1>6, <1>7 DEF KeepInv
    <2>2. at'[v] \in {"off", "poll"}
      BY <1>4, <1>6, <1>7
    <2> QED  BY <1>5, <2>1, <2>2 DEF JobKeeps, Resting, Held, Done
  <1> QED  BY <1>4, <1>5, <1>6, <1>7 DEF KeepInv, Sole, Running

LEMMA SignalKeeps ==
    ASSUME IInv, KeepInv, NEW w \in Workers, Signal(w)
    PROVE  KeepInv'
  <1> DEFINE k == [job[w] EXCEPT !.stopping = TRUE]
  <1>1. k.rows = job[w].rows
    BY JobHere DEF JobOK, IsJob
  <1>2. job' = [job EXCEPT ![w] = k]
    BY DEF Signal
  <1> HIDE DEF k
  <1>3. at' = [at EXCEPT ![w] = at[w]] /\ UNCHANGED <<outbox, revision, highWater, past>> /\ Running(w)
    BY DEF Signal, KeepInv, local, remote, history
  <1>4. "overlap" \notin past => Resting(k, at[w]) /\ Done(k, at[w], highWater)
    BY <1>1 DEF KeepInv, JobKeeps, Resting, Done
  <1> QED  BY <1>1, <1>2, <1>3, <1>4, WorkerQuiet

LEMMA CrashKeeps ==
    ASSUME IInv, KeepInv, NEW w \in Workers, Crash(w)
    PROVE  KeepInv'
  <1>1. End(w) /\ UNCHANGED <<outbox, revision, highWater>> /\ Running(w)
    BY MirrorAssumption DEF Crash, local, Running
  <1>2. "overlap" \in past => "overlap" \in past'
    BY DEF Crash
  <1> QED  BY <1>1, <1>2, EndKeeps DEF KeepInv

\* Steps that change nothing of the job but flags and the revision it knows, and go to a
\* point where neither Resting nor Done asks for anything.
LEMMA MoveKeeps ==
    ASSUME IInv, KeepInv, NEW w \in Workers, Running(w), NEW j, NEW point,
           job' = [job EXCEPT ![w] = j], Goto(w, point),
           "overlap" \in past => "overlap" \in past',
           UNCHANGED <<outbox, highWater, revision>>,
           j.rows = job[w].rows \/ j.rows = {},
           point \in {"lease", "fence", "claim", "maintain", "finish"}
    PROVE  KeepInv'
  <1>1. Resting(j, point) /\ Done(j, point, highWater)
    BY DEF Resting, Done
  <1> QED  BY <1>1, WorkerQuiet DEF Goto

LEMMA OpenSourceKeeps ==
    ASSUME IInv, KeepInv, NEW w \in Workers, OpenSource(w)
    PROVE  KeepInv'
  <1> DEFINE k == [job[w] EXCEPT !.seen = {source}, !.cp = checkpoint]
             point == IF Backpressure THEN "lease" ELSE "discover"
  <1>1. k.rows = job[w].rows
    BY JobHere DEF JobOK, IsJob
  <1>2. job' = [job EXCEPT ![w] = k]
    BY DEF OpenSource
  <1> HIDE DEF k
  <1>3. at' = [at EXCEPT ![w] = point] /\ UNCHANGED <<outbox, revision, highWater, past>>
        /\ Running(w)
    BY DEF OpenSource, Goto, Running, local, remote, history
  <1>4. "overlap" \notin past => Resting(k, point) /\ Done(k, point, highWater)
    BY <1>1 DEF OpenSource, KeepInv, JobKeeps, Resting, Done
  <1> HIDE DEF point
  <1> QED  BY <1>1, <1>2, <1>3, <1>4, WorkerQuiet

LEMMA DiscoverFailsKeeps ==
    ASSUME IInv, KeepInv, NEW w \in Workers, DiscoverFails(w)
    PROVE  KeepInv'
  <1> DEFINE k == [job[w] EXCEPT !.failed = TRUE]
  <1>1. k.rows = job[w].rows
    BY JobHere DEF JobOK, IsJob
  <1>2. job' = [job EXCEPT ![w] = k]
    BY DEF DiscoverFails
  <1> HIDE DEF k
  <1>3. UNCHANGED <<outbox, revision, highWater, past>> /\ Running(w) /\ Goto(w, "finish")
    BY DEF DiscoverFails, Running, local, remote, history
  <1> QED  BY <1>1, <1>2, <1>3, MoveKeeps

\* New rows have new ids, and the new revisions.
LEMMA EnqueuedKeeps ==
    ASSUME IInv, IdsOK(outbox), NEW entries \in Seq(Entries)
    PROVE  /\ IdsOK(Enqueued(outbox, entries))
           /\ Kept(outbox, highWater, revision)
                => Kept(Enqueued(outbox, entries), highWater, revision + Len(entries))
  <1> DEFINE next == NextId(outbox)
             new(i) == [id |-> next + i - 1, rev |-> revision + i,
                        entry |-> entries[i], state |-> "ready"]
             rows == Enqueued(outbox, entries)
  <1>1. next \in Nat \ {0} /\ \A r \in outbox : r.id < next
    BY NextIdAbove DEF IInv, RowsOK
  <1>2. DOMAIN entries = 1 .. Len(entries) /\ Len(entries) \in Nat
    OBVIOUS
  <1>3. rows = outbox \cup {new(i) : i \in 1 .. Len(entries)}
    BY <1>2 DEF Enqueued
  <1>4. \A i \in 1 .. Len(entries) : new(i).id = next + i - 1 /\ new(i).rev = revision + i
    OBVIOUS
  <1> HIDE DEF next, new, rows
  <1>5. ASSUME NEW r \in rows, NEW q \in rows
        PROVE  r.id \in Nat \ {0} /\ (q.id = r.id => q.rev = r.rev)
    <2>1. CASE r \in outbox /\ q \in outbox
      BY <2>1 DEF IdsOK
    <2>2. CASE r \in outbox /\ q \notin outbox
      <3>1. PICK i \in 1 .. Len(entries) : q = new(i)
        BY <1>3, <2>2
      <3>2. r.id \in Nat \ {0} /\ r.id < next /\ q.id = next + i - 1
        BY <1>1, <1>4, <2>2, <3>1 DEF IdsOK
      <3> QED  BY <1>1, <1>2, <3>2
    <2>3. CASE r \notin outbox /\ q \in outbox
      <3>1. PICK i \in 1 .. Len(entries) : r = new(i)
        BY <1>3, <2>3
      <3>2. q.id \in Nat \ {0} /\ q.id < next /\ r.id = next + i - 1
        BY <1>1, <1>4, <2>3, <3>1 DEF IdsOK
      <3> QED  BY <1>1, <1>2, <3>2
    <2>4. CASE r \notin outbox /\ q \notin outbox
      <3>1. PICK i \in 1 .. Len(entries) : r = new(i)
        BY <1>3, <2>4
      <3>2. PICK k \in 1 .. Len(entries) : q = new(k)
        BY <1>3, <2>4
      <3>3. r.id = next + i - 1 /\ q.id = next + k - 1
        BY <1>4, <3>1, <3>2
      <3>4. q.id = r.id => i = k
        BY <1>1, <1>2, <3>3
      <3> QED  BY <1>1, <1>2, <3>1, <3>2, <3>3, <3>4
    <2> QED  BY <2>1, <2>2, <2>3, <2>4
  <1>6. ASSUME Kept(outbox, highWater, revision),
               NEW n \in highWater + 1 .. revision + Len(entries)
        PROVE  \E r \in rows : r.rev = n
    <2>1. CASE n <= revision
      <3>1. n \in highWater + 1 .. revision
        BY <2>1, Highs, <1>2
      <3>2. \E r \in outbox : r.rev = n
        BY <1>6, <3>1 DEF Kept
      <3> QED  BY <3>2, <1>3
    <2>2. CASE n > revision
      <3>1. n - revision \in 1 .. Len(entries) /\ revision + (n - revision) = n
        BY <2>2, Highs, <1>2
      <3>2. new(n - revision) \in rows /\ new(n - revision).rev = n
        BY <1>3, <1>4, <3>1
      <3> QED  BY <3>2
    <2>3. n \in Int /\ revision \in Int
      BY Highs, <1>2
    <2> QED  BY <2>1, <2>2, <2>3
  <1>7. IdsOK(rows)
    BY <1>5 DEF IdsOK
  <1>8. Kept(outbox, highWater, revision) => Kept(rows, highWater, revision + Len(entries))
    BY <1>6 DEF Kept
  <1> QED  BY <1>7, <1>8 DEF rows

LEMMA StageKeeps ==
    ASSUME IInv, KeepInv, NEW w \in Workers, Stage(w)
    PROVE  KeepInv'
  <1>1. at[w] = "discover" /\ ("overlap" \in past => "overlap" \in past') /\ UNCHANGED highWater
    BY StageIs
  <1>2. Running(w)
    BY <1>1 DEF Running
  <1>3. ASSUME UNCHANGED <<outbox, revision>>, Goto(w, "finish"),
               NEW x, job' = [job EXCEPT ![w].failed = TRUE, ![w].whole = x]
        PROVE  KeepInv'
    <2> DEFINE k == [job[w] EXCEPT !.failed = TRUE, !.whole = x]
    <2>1. k.rows = job[w].rows
      BY JobHere DEF JobOK, IsJob
    <2>2. job' = [job EXCEPT ![w] = k]
      BY <1>3
    <2> HIDE DEF k
    <2> QED  BY <1>1, <1>2, <1>3, <2>1, <2>2, MoveKeeps
  <1>4. ASSUME NEW entries \in Seq(Entries), outbox' = Enqueued(outbox, entries),
               revision' = revision + Len(entries),
               \/ End(w)
               \/ /\ \E x, y : job' = [job EXCEPT ![w].whole = x, ![w].progressed = y]
                  /\ Goto(w, "lease")
        PROVE  KeepInv'
    <2>1. IdsOK(outbox')
      BY <1>4, EnqueuedKeeps DEF KeepInv
    <2>2. "overlap" \notin past => Kept(outbox', highWater', revision')
      BY <1>1, <1>4, EnqueuedKeeps DEF KeepInv
    <2>3. CASE End(w)
      BY <1>1, <1>2, <2>1, <2>2, <2>3, EndKeeps
    <2>4. ASSUME NEW x, NEW y, Goto(w, "lease"),
                 job' = [job EXCEPT ![w].whole = x, ![w].progressed = y]
          PROVE  KeepInv'
      <3> DEFINE k == [job[w] EXCEPT !.whole = x, !.progressed = y]
      <3>1. k.rows = job[w].rows
        BY JobHere DEF JobOK, IsJob
      <3>2. job' = [job EXCEPT ![w] = k] /\ at' = [at EXCEPT ![w] = "lease"]
        BY <2>4 DEF Goto
      <3> HIDE DEF k
      <3>3. "overlap" \notin past => k.rows = {}
        BY <1>1, <3>1 DEF KeepInv, JobKeeps, Resting
      <3>4. "overlap" \notin past => JobKeeps(k, "lease", outbox', highWater')
        BY <3>3 DEF JobKeeps, Resting, Held, Done
      <3> QED  BY <1>1, <1>2, <2>1, <2>2, <3>2, <3>4, WorkerKeeps
    <2> QED  BY <1>4, <2>3, <2>4
  <1> QED  BY <1>3, <1>4, StageIs

\* The upload itself: nothing changes but that the remote tables may have more.
LEMMA UploadKeeps ==
    ASSUME IInv, KeepInv, NEW w \in Workers, UploadFenced(w)
    PROVE  KeepInv'
  <1> DEFINE k == [job[w] EXCEPT !.revision = highWater']
  <1>1. k.rows = job[w].rows
    BY JobHere DEF JobOK, IsJob
  <1>2. job' = [job EXCEPT ![w] = k] /\ at' = [at EXCEPT ![w] = "committed"]
    BY DEF UploadFenced, Goto
  <1> HIDE DEF k
  <1>3. Commit(w) /\ UNCHANGED <<outbox, revision, past, log, known>> /\ Running(w)
    BY DEF UploadFenced, Running, local
  <1>4. highWater' \in Nat /\ highWater <= highWater'
        /\ highWater' = job[w].revision + Cardinality(job[w].rows)
    BY <1>3, CommitOK
  <1>5. ASSUME NEW r \in job[w].rows
        PROVE  r.rev <= highWater'
    <2>1. r.rev \in highWater + 1 .. highWater + Cardinality(job[w].rows)
      BY <1>3 DEF Commit, FencePasses
    <2>2. highWater = job[w].revision
      BY <1>3 DEF Commit, FencePasses
    <2> QED  BY <1>4, <2>1, <2>2
  <1>6. IdsOK(outbox')
    BY <1>3 DEF KeepInv
  <1>7. ASSUME "overlap" \notin past
        PROVE  Kept(outbox', highWater', revision') /\ JobKeeps(k, "committed", outbox', highWater')
    <2>1. Kept(outbox, highWater, revision) /\ Held(job[w], outbox)
      BY <1>7 DEF KeepInv, JobKeeps
    <2>2. Kept(outbox, highWater', revision)
      BY <1>4, <2>1, Highs, KeptHigher
    <2>3. Held(k, outbox) /\ Done(k, "committed", highWater') /\ Resting(k, "committed")
      BY <1>1, <1>5, <2>1 DEF Held, Done, Resting
    <2> QED  BY <1>3, <2>2, <2>3 DEF JobKeeps
  <1> QED  BY <1>2, <1>3, <1>6, <1>7, WorkerKeeps

\* An exception, with or without a commit before it.
LEMMA ThrowsKeep ==
    ASSUME IInv, KeepInv, NEW w \in Workers,
           NetworkError(w) \/ LeaseRefused(w) \/ FenceFails(w) \/ ReplyLost(w)
    PROVE  KeepInv'
  <1>1. Throw(w) /\ UNCHANGED <<revision, past>> /\ Running(w)
    BY DEF NetworkError, LeaseRefused, FenceFails, ReplyLost, Running, history
  <1>2. CASE ReplyLost(w)
    <2>1. Commit(w) /\ UNCHANGED <<log, revision, known>>
      BY <1>2 DEF ReplyLost
    <2> QED  BY <1>1, <2>1, CommitOK, ThrowKeeps
  <1>3. CASE NetworkError(w) \/ LeaseRefused(w) \/ FenceFails(w)
    <2>1. UNCHANGED highWater
      BY <1>3 DEF NetworkError, LeaseRefused, FenceFails, remote
    <2> QED  BY <1>1, <2>1, Highs, ThrowKeeps
  <1> QED  BY <1>2, <1>3

\* Rows that are dropped were applied.
LEMMA ReadRemoteFenceKeeps ==
    ASSUME IInv, KeepInv, NEW w \in Workers, ReadRemoteFence(w)
    PROVE  KeepInv'
  <1> DEFINE k == [job[w] EXCEPT !.revision = highWater]
  <1>1. k.rows = job[w].rows
    BY JobHere DEF JobOK, IsJob
  <1>2. job' = [job EXCEPT ![w] = k] /\ at' = [at EXCEPT ![w] = "claim"]
    BY DEF ReadRemoteFence, Goto
  <1> HIDE DEF k
  <1>3. Running(w) /\ UNCHANGED <<revision, highWater, past>>
    BY DEF ReadRemoteFence, Running, remote, history
  <1>4. From(outbox', outbox)
    BY SubsetFrom DEF ReadRemoteFence, DropThrough
  <1>5. IdsOK(outbox')
    BY <1>4, FromIds DEF KeepInv
  <1>6. ASSUME "overlap" \notin past
        PROVE  Kept(outbox', highWater', revision') /\ JobKeeps(k, "claim", outbox', highWater')
    <2>1. Kept(outbox, highWater, revision) /\ Held(job[w], outbox)
      BY <1>6 DEF KeepInv, JobKeeps
    <2>2. Kept(outbox', highWater, revision)
      BY <2>1, Highs, DropKept DEF ReadRemoteFence
    <2>3. Held(job[w], outbox')
      BY <1>4, <2>1, FromHeld
    <2> QED  BY <1>1, <1>3, <2>2, <2>3 DEF JobKeeps, Held, Done, Resting
  <1> QED  BY <1>2, <1>3, <1>5, <1>6, WorkerKeeps

\* What is claimed is in the outbox.
LEMMA ClaimKeeps ==
    ASSUME IInv, KeepInv, NEW w \in Workers, Claim(w)
    PROVE  KeepInv'
  <1>0. PICK rows \in {Claimable(outbox, job[w].revision), {}}, point \in {"claimed", "maintain"} :
           job' = [job EXCEPT ![w].rows = rows] /\ Goto(w, point)
    BY DEF Claim
  <1> DEFINE k == [job[w] EXCEPT !.rows = rows]
  <1>1. k.rows = rows /\ rows \in SUBSET outbox
    BY <1>0, JobHere DEF JobOK, IsJob, Claimable, Ready
  <1>2. job' = [job EXCEPT ![w] = k] /\ at' = [at EXCEPT ![w] = point]
    BY <1>0 DEF Goto
  <1> HIDE DEF k
  <1>3. Running(w) /\ UNCHANGED <<outbox, revision, highWater, past>>
    BY DEF Claim, Running, local, remote, history
  <1>4. Held(k, outbox)
    BY <1>1 DEF KeepInv, IdsOK, Held
  <1>5. JobKeeps(k, point, outbox', highWater')
    BY <1>0, <1>3, <1>4 DEF JobKeeps, Done, Resting
  <1> QED  BY <1>2, <1>3, <1>5, WorkerKeeps DEF KeepInv

LEMMA LeaseRowsKeeps ==
    ASSUME IInv, KeepInv, NEW w \in Workers, LeaseRows(w)
    PROVE  KeepInv'
  <1>0. PICK rows \in SUBSET job[w].rows, point \in {"upload", "maintain"} :
           /\ outbox' = SetState(outbox, Ids(rows), "leased")
           /\ job' = [job EXCEPT ![w].rows = rows]
           /\ Goto(w, point)
    BY DEF LeaseRows
  <1> DEFINE k == [job[w] EXCEPT !.rows = rows]
  <1>1. k.rows = rows
    BY JobHere DEF JobOK, IsJob
  <1>2. job' = [job EXCEPT ![w] = k] /\ at' = [at EXCEPT ![w] = point]
    BY <1>0 DEF Goto
  <1> HIDE DEF k
  <1>3. Running(w) /\ UNCHANGED <<revision, highWater, past>>
    BY DEF LeaseRows, Running, remote, history
  <1>4. From(outbox', outbox) /\ From(outbox, outbox')
    BY <1>0, SetStateFrom DEF IInv
  <1>5. IdsOK(outbox')
    BY <1>4, FromIds DEF KeepInv
  <1>6. ASSUME "overlap" \notin past
        PROVE  Kept(outbox', highWater', revision') /\ JobKeeps(k, point, outbox', highWater')
    <2>1. Kept(outbox, highWater, revision) /\ Held(job[w], outbox)
      BY <1>6 DEF KeepInv, JobKeeps
    <2>2. Kept(outbox', highWater, revision) /\ Held(job[w], outbox')
      BY <1>4, <2>1, KeptFrom, FromHeld
    <2>3. Held(k, outbox')
      BY <1>0, <1>1, <2>2 DEF Held
    <2> QED  BY <1>0, <1>3, <2>2, <2>3 DEF JobKeeps, Done, Resting
  <1> QED  BY <1>2, <1>3, <1>5, <1>6, WorkerKeeps

LEMMA SetRemoteRevisionKeeps ==
    ASSUME IInv, KeepInv, NEW w \in Workers, SetRemoteRevision(w)
    PROVE  KeepInv'
  <1>1. job' = [job EXCEPT ![w] = job[w]] /\ at' = [at EXCEPT ![w] = "stored"]
    BY DEF SetRemoteRevision, Goto, IInv, JobsOK
  <1>2. Running(w) /\ UNCHANGED <<outbox, revision, highWater, past>>
    BY DEF SetRemoteRevision, Running, remote, history
  <1>3. "overlap" \notin past => Resting(job[w], "stored") /\ Done(job[w], "stored", highWater)
    BY DEF SetRemoteRevision, KeepInv, JobKeeps, Resting, Done
  <1> QED  BY <1>1, <1>2, <1>3, WorkerQuiet

\* What is acknowledged was applied, so nothing that is owed goes with it.
LEMMA AcknowledgeKeeps ==
    ASSUME IInv, KeepInv, NEW w \in Workers, Acknowledge(w)
    PROVE  KeepInv'
  <1> DEFINE k == [job[w] EXCEPT !.progressed = TRUE, !.batch = @ + 1]
  <1>1. k.rows = job[w].rows
    BY JobHere DEF JobOK, IsJob
  <1>2. job' = [job EXCEPT ![w] = k] /\ at' = [at EXCEPT ![w] = "claim"]
    BY DEF Acknowledge, Goto
  <1> HIDE DEF k
  <1>3. Running(w) /\ at[w] = "stored" /\ UNCHANGED <<revision, highWater, past>>
    BY DEF Acknowledge, Running, remote, history
  <1>4. From(outbox', outbox)
    BY SubsetFrom DEF Acknowledge
  <1>5. IdsOK(outbox')
    BY <1>4, FromIds DEF KeepInv
  <1>6. ASSUME "overlap" \notin past
        PROVE  Kept(outbox', highWater', revision') /\ JobKeeps(k, "claim", outbox', highWater')
    <2>1. Kept(outbox, highWater, revision) /\ Held(job[w], outbox)
          /\ \A r \in job[w].rows : r.rev <= highWater
      BY <1>3, <1>6 DEF KeepInv, JobKeeps, Done
    <2>2. ASSUME NEW n \in highWater + 1 .. revision
          PROVE  \E r \in outbox' : r.rev = n
      <3>1. PICK r \in outbox : r.rev = n
        BY <2>1 DEF Kept
      <3>2. ASSUME NEW q \in job[w].rows, q.id = r.id
            PROVE  FALSE
        <4>1. r.rev = q.rev /\ q.rev <= highWater
          BY <2>1, <3>2 DEF Held
        <4> QED  BY <3>1, <4>1, Highs
      <3>3. r \in outbox'
        BY <3>2 DEF Acknowledge, Ids
      <3> QED  BY <3>1, <3>3
    <2>3. Held(k, outbox')
      BY <1>1, <1>4, <2>1, FromHeld DEF Held
    <2> QED  BY <1>3, <2>2, <2>3 DEF Kept, JobKeeps, Done, Resting
  <1> QED  BY <1>2, <1>3, <1>5, <1>6, WorkerKeeps

LEMMA KeepStepOK ==
    ASSUME IInv, KeepInv, [Next]_vars
    PROVE  KeepInv'
  <1>1. CASE UNCHANGED vars
    BY <1>1, RestKeeps DEF vars, local, remote, history
  <1>2. CASE SourceChanges \/ ScanAges \/ LeaseLapses
    BY <1>2, RestKeeps DEF SourceChanges, ScanAges, LeaseLapses, local, remote, history
  <1>3. ASSUME NEW w \in Workers, EnsureRemoteSource(w) \/ Maintain(w)
        PROVE  KeepInv'
    <2>1. PICK point \in {"fence", "finish"} : Goto(w, point)
      BY <1>3 DEF EnsureRemoteSource, Maintain
    <2>2. job' = [job EXCEPT ![w] = job[w]] /\ Running(w)
          /\ UNCHANGED <<outbox, highWater, revision, past>>
      BY <1>3 DEF EnsureRemoteSource, Maintain, Running, IInv, JobsOK, local, remote, history
    <2> QED  BY <2>1, <2>2, MoveKeeps
  <1>4. CASE RowsReady \/ Adopt
    BY <1>4, RowsReadyKeeps, AdoptKeeps
  <1>5. ASSUME NEW w \in Workers, Start(w) \/ Crash(w) \/ Signal(w)
        PROVE  KeepInv'
    BY <1>5, StartKeeps, CrashKeeps, SignalKeeps
  <1>6. ASSUME NEW w \in Workers, SkipSource(w) \/ Finish(w)
        PROVE  KeepInv'
    <2>1. Running(w) /\ LeavePass(w, job[w], outbox) /\ UNCHANGED <<outbox, highWater, revision, past>>
      BY <1>6 DEF SkipSource, Finish, Running, local, history
    <2> QED  BY <2>1, LeavePassKeeps
  <1>7. ASSUME NEW w \in Workers, OpenSource(w) \/ DiscoverFails(w) \/ Stage(w)
        PROVE  KeepInv'
    BY <1>7, OpenSourceKeeps, DiscoverFailsKeeps, StageKeeps
  <1>8. ASSUME NEW w \in Workers, ReadRemoteFence(w) \/ Claim(w) \/ LeaseRows(w) \/ UploadFenced(w)
        PROVE  KeepInv'
    BY <1>8, ReadRemoteFenceKeeps, ClaimKeeps, LeaseRowsKeeps, UploadKeeps
  <1>9. ASSUME NEW w \in Workers,
               LeaseRefused(w) \/ FenceFails(w) \/ NetworkError(w) \/ ReplyLost(w)
        PROVE  KeepInv'
    BY <1>9, ThrowsKeep
  <1>10. ASSUME NEW w \in Workers, SetRemoteRevision(w) \/ Acknowledge(w)
         PROVE  KeepInv'
    BY <1>10, SetRemoteRevisionKeeps, AcknowledgeKeeps
  <1> QED  BY <1>1, <1>2, <1>3, <1>4, <1>5, <1>6, <1>7, <1>8, <1>9, <1>10 DEF Next, Step

LEMMA KeepInitOK == Init => KeepInv
  BY DEF Init, KeepInv, IdsOK, Sole, Running, Kept, JobKeeps, Resting, Held, Done, NoJob

\* A record that was not applied is in the outbox, with the entry that was staged, as long
\* as the lock excludes: acknowledgements by id, reconciliations and adoptions drop what
\* was applied and nothing else (acknowledge, reconcileCommitted, adopt).
THEOREM NothingIsLost == Spec => []NothingLost
  <1>1. IInv /\ KeepInv /\ [Next]_vars => KeepInv'
    BY KeepStepOK
  <1>2. IInv /\ KeepInv => NothingLost
    <2> SUFFICES ASSUME IInv, KeepInv, "overlap" \notin past, NEW n \in highWater + 1 .. revision
                 PROVE  \E r \in outbox : r.rev = n /\ r.entry = log[n]
      BY DEF NothingLost
    <2>1. PICK r \in outbox : r.rev = n
      BY DEF KeepInv, Kept
    <2>2. r.entry = log[n]
      BY <2>1 DEF IInv, RowsOK
    <2> QED  BY <2>1, <2>2
  <1> QED  BY <1>1, <1>2, KeepInitOK, MirrorInvariant, PTL DEF Spec

----------------------------------------------------------------------------
(* Types *)

RowStates == {"ready", "leased", "failed"}
StatesOK(rows) == \A r \in rows : r.state \in RowStates

Leases == [owner : {NoWorker, Machine, Gone} \cup Workers, live : BOOLEAN]

\* A worker that holds a batch has not had all of its batches yet.
Holding == {"claimed", "upload", "committed", "stored"}
Counted(j, point) ==
    /\ "batch" \in DOMAIN j /\ j.batch \in 0 .. MaxBatches
    /\ point \in Holding => j.batch < MaxBatches

TypeInv ==
    /\ aged \in BOOLEAN /\ lease \in Leases /\ faults \in 0 .. MaxFaults
    /\ StatesOK(outbox)
    /\ at \in [Workers -> Points]
    /\ \A w \in Workers : Counted(job[w], at[w])

\* The part of TypeInv that is about the workers.
Placed == at \in [Workers -> Points] /\ \A w \in Workers : Counted(job[w], at[w])

LEMMA SetStateTyped ==
    ASSUME NEW rows, \A r \in rows : IsRow(r), StatesOK(rows), NEW ids, NEW state \in RowStates
    PROVE  StatesOK(SetState(rows, ids, state))
  <1> SUFFICES ASSUME NEW r \in rows
               PROVE  (IF r.id \in ids THEN [r EXCEPT !.state = state] ELSE r).state \in RowStates
    BY DEF StatesOK, SetState
  <1>1. IsRow(r)
    OBVIOUS
  <1>2. [r EXCEPT !.state = state].state = state
    BY <1>1 DEF IsRow
  <1> QED  BY <1>2 DEF StatesOK

LEMMA NoJobCounts ==
    ASSUME NEW point, point \notin Holding, NEW x
    PROVE  Counted(NoJob, point) /\ Counted([NoJob EXCEPT !.once = x], point)
  BY MirrorAssumption DEF Counted, NoJob

\* A worker moves on, with the job k.
LEMMA MovePlaces ==
    ASSUME IInv, TypeInv, NEW w \in Workers, NEW point \in Points, Goto(w, point),
           NEW k, job' = [job EXCEPT ![w] = k], Counted(k, point)
    PROVE  Placed'
  <1>1. at' = [at EXCEPT ![w] = point] /\ at' \in [Workers -> Points]
    BY DEF Goto, TypeInv
  <1>2. ASSUME NEW v \in Workers
        PROVE  Counted(job'[v], at'[v])
    <2>1. CASE v = w
      <3>1. job'[w] = k /\ at'[w] = point
        BY <1>1 DEF IInv, JobsOK, TypeInv
      <3> QED  BY <2>1, <3>1
    <2>2. CASE v # w
      <3>1. job'[v] = job[v] /\ at'[v] = at[v]
        BY <1>1, <2>2 DEF IInv, JobsOK, TypeInv
      <3> QED  BY <2>2, <3>1 DEF TypeInv
    <2> QED  BY <2>1, <2>2
  <1> QED  BY <1>1, <1>2 DEF Placed, Counted

\* The same where the job keeps its count and holds no batch that it did not hold.
LEMMA StepPlaces ==
    ASSUME IInv, TypeInv, NEW w \in Workers, NEW point \in Points, Goto(w, point),
           point \in Holding => at[w] \in Holding,
           NEW k, job' = [job EXCEPT ![w] = k], "batch" \in DOMAIN k, k.batch = job[w].batch
    PROVE  Placed'
  <1>1. Counted(k, point)
    BY DEF Counted, TypeInv
  <1> QED  BY <1>1, MovePlaces

LEMMA EndTypes ==
    ASSUME IInv, TypeInv, NEW w \in Workers, End(w)
    PROVE  Placed' /\ lease' \in Leases
  <1>1. Placed'
    <2>1. "off" \in Points /\ "off" \notin Holding
      BY DEF Points, Holding
    <2>2. Counted(NoJob, "off")
      BY <2>1, NoJobCounts
    <2> QED  BY <2>1, <2>2, MovePlaces DEF End
  <1>2. lease' \in Leases
    BY DEF End, Leases, TypeInv
  <1> QED  BY <1>1, <1>2

LEMMA LeavePassTypes ==
    ASSUME IInv, TypeInv, NEW w \in Workers, NEW j, NEW rows, LeavePass(w, j, rows)
    PROVE  Placed' /\ lease' \in Leases
  <1>1. CASE End(w)
    BY <1>1, EndTypes
  <1>2. ASSUME Goto(w, "poll"), job' = [job EXCEPT ![w] = [NoJob EXCEPT !.once = j.once]],
               UNCHANGED lease
        PROVE  Placed' /\ lease' \in Leases
    <2>1. "poll" \in Points /\ "poll" \notin Holding
      BY DEF Points, Holding
    <2>2. Counted([NoJob EXCEPT !.once = j.once], "poll")
      BY <2>1, NoJobCounts
    <2>3. Placed'
      BY <1>2, <2>1, <2>2, MovePlaces
    <2> QED  BY <1>2, <2>3 DEF TypeInv
  <1> QED  BY <1>1, <1>2 DEF LeavePass

LEMMA ThrowTypes ==
    ASSUME IInv, TypeInv, NEW w \in Workers, Throw(w)
    PROVE  Placed' /\ StatesOK(outbox')
  <1> DEFINE k == [job[w] EXCEPT !.failed = TRUE, !.rows = {}]
  <1>1. "batch" \in DOMAIN job[w]
    BY DEF TypeInv, Counted
  <1>2. "batch" \in DOMAIN k /\ k.batch = job[w].batch
    BY <1>1
  <1>3. job' = [job EXCEPT ![w] = k] /\ Goto(w, "finish")
    BY DEF Throw
  <1> HIDE DEF k
  <1>4. "finish" \in Points /\ "finish" \notin Holding
    BY DEF Points, Holding
  <1>5. Placed'
    BY <1>2, <1>3, <1>4, StepPlaces
  <1>6. StatesOK(outbox')
    BY SetStateTyped DEF Throw, IInv, RowsOK, TypeInv, RowStates
  <1> QED  BY <1>5, <1>6

LEMMA FaultTypes == ASSUME TypeInv, Fault PROVE faults' \in 0 .. MaxFaults
  BY MirrorAssumption DEF TypeInv, Fault

LEMMA PlacedIs ==
    ASSUME TypeInv, UNCHANGED <<at, job>>
    PROVE  Placed'
  BY DEF TypeInv, Placed

LEMMA StageTypes ==
    ASSUME IInv, TypeInv, NEW w \in Workers, Stage(w)
    PROVE  TypeInv'
  <1>1. \E found, x :
            \/ /\ Goto(w, "finish")
               /\ job' = [job EXCEPT ![w].failed = TRUE, ![w].whole = x]
               /\ UNCHANGED <<aged, outbox, lease>>
            \/ /\ outbox' = Enqueued(outbox, Fresh(outbox, found))
               /\ UNCHANGED aged
               /\ \/ End(w)
                  \/ /\ Goto(w, "lease") /\ UNCHANGED lease
                     /\ \E y : job' = [job EXCEPT ![w].whole = x, ![w].progressed = y]
    <2>1. PICK seen \in job[w].seen :
            \E found \in Discover(job[w].cp, seen, source, job[w].stopping) :
              \E entries \in {Fresh(outbox, found)} : \E rows \in {Enqueued(outbox, entries)} :
               \/ /\ Goto(w, "finish")
                  /\ job' = [job EXCEPT ![w].failed = TRUE, ![w].whole = found.complete]
                  /\ UNCHANGED <<local, lease>>
               \/ /\ outbox' = rows
                  /\ IF job[w].stopping
                     THEN End(w)
                     ELSE /\ Goto(w, "lease")
                          /\ job' = [job EXCEPT ![w].whole = found.complete,
                                                ![w].progressed = found.rows # <<>>]
                          /\ UNCHANGED lease
                  /\ UNCHANGED <<known, scan, aged>>
      BY DEF Stage
    <2>2. PICK found \in Discover(job[w].cp, seen, source, job[w].stopping) :
               \/ /\ Goto(w, "finish")
                  /\ job' = [job EXCEPT ![w].failed = TRUE, ![w].whole = found.complete]
                  /\ UNCHANGED <<local, lease>>
               \/ /\ outbox' = Enqueued(outbox, Fresh(outbox, found))
                  /\ \/ End(w)
                     \/ /\ Goto(w, "lease")
                        /\ job' = [job EXCEPT ![w].whole = found.complete,
                                              ![w].progressed = found.rows # <<>>]
                        /\ UNCHANGED lease
                  /\ UNCHANGED <<known, scan, aged>>
      BY <2>1
    <2> QED  BY <2>2 DEF local
  <1>2. UNCHANGED faults /\ at[w] = "discover"
    BY DEF Stage
  <1>3. "batch" \in DOMAIN job[w]
    BY DEF TypeInv, Counted
  <1>4. /\ {"finish", "lease"} \subseteq Points
        /\ "finish" \notin Holding /\ "lease" \notin Holding
    BY DEF Points, Holding
  <1>5. ASSUME NEW found, outbox' = Enqueued(outbox, Fresh(outbox, found))
        PROVE  StatesOK(outbox')
    BY <1>5 DEF Enqueued, StatesOK, RowStates, TypeInv
  <1>6. ASSUME NEW x, Goto(w, "finish"), job' = [job EXCEPT ![w].failed = TRUE, ![w].whole = x]
        PROVE  Placed'
    <2> DEFINE k == [job[w] EXCEPT !.failed = TRUE, !.whole = x]
    <2>1. "batch" \in DOMAIN k /\ k.batch = job[w].batch
      BY <1>3
    <2>2. job' = [job EXCEPT ![w] = k]
      BY <1>6
    <2> HIDE DEF k
    <2> QED  BY <1>4, <1>6, <2>1, <2>2, StepPlaces
  <1>7. ASSUME NEW x, NEW y, Goto(w, "lease"),
               job' = [job EXCEPT ![w].whole = x, ![w].progressed = y]
        PROVE  Placed'
    <2> DEFINE k == [job[w] EXCEPT !.whole = x, !.progressed = y]
    <2>1. "batch" \in DOMAIN k /\ k.batch = job[w].batch
      BY <1>3
    <2>2. job' = [job EXCEPT ![w] = k]
      BY <1>7
    <2> HIDE DEF k
    <2> QED  BY <1>4, <1>7, <2>1, <2>2, StepPlaces
  <1>8. Placed' /\ lease' \in Leases /\ StatesOK(outbox') /\ UNCHANGED aged
    <2>1. lease \in Leases /\ StatesOK(outbox)
      BY DEF TypeInv
    <2> QED  BY <1>1, <1>5, <1>6, <1>7, <2>1, EndTypes
  <1> QED  BY <1>2, <1>8 DEF TypeInv, Placed

\* What a worker does between leasing the source and the end of the pass.
LEMMA BatchTypes ==
    ASSUME IInv, TypeInv, NEW w \in Workers,
           ReadRemoteFence(w) \/ Claim(w) \/ LeaseRows(w) \/ UploadFenced(w)
           \/ SetRemoteRevision(w) \/ Acknowledge(w)
    PROVE  TypeInv'
  <1>0. /\ "batch" \in DOMAIN job[w] /\ job[w].batch \in 0 .. MaxBatches
        /\ at[w] \in Holding => job[w].batch < MaxBatches
        /\ job = [v \in Workers |-> job[v]] /\ IsJob(job[w])
        /\ lease \in Leases /\ StatesOK(outbox) /\ \A r \in outbox : IsRow(r)
    BY DEF TypeInv, Counted, IInv, JobsOK, JobOK, RowsOK
  <1>1. ASSUME ReadRemoteFence(w) PROVE TypeInv'
    <2> DEFINE k == [job[w] EXCEPT !.revision = highWater]
    <2>1. "batch" \in DOMAIN k /\ k.batch = job[w].batch
      BY <1>0
    <2>2. job' = [job EXCEPT ![w] = k] /\ Goto(w, "claim")
      BY <1>1 DEF ReadRemoteFence
    <2> HIDE DEF k
    <2>3. Placed'
      BY <2>1, <2>2, StepPlaces DEF Points, Holding
    <2>4. StatesOK(outbox')
      BY <1>0, <1>1 DEF ReadRemoteFence, DropThrough, StatesOK
    <2> QED  BY <1>1, <2>3, <2>4 DEF ReadRemoteFence, TypeInv, Placed, remote
  <1>2. ASSUME Claim(w) PROVE TypeInv'
    <2>1. PICK rows : \/ /\ job[w].batch < MaxBatches
                         /\ job' = [job EXCEPT ![w].rows = rows] /\ Goto(w, "claimed")
                      \/ job' = [job EXCEPT ![w].rows = rows] /\ Goto(w, "maintain")
      BY <1>2 DEF Claim
    <2> DEFINE k == [job[w] EXCEPT !.rows = rows]
    <2>2. "batch" \in DOMAIN k /\ k.batch = job[w].batch
      BY <1>0
    <2>3. job' = [job EXCEPT ![w] = k]
      BY <2>1
    <2> HIDE DEF k
    <2>4. CASE job[w].batch < MaxBatches /\ Goto(w, "claimed")
      <3>1. Counted(k, "claimed") /\ "claimed" \in Points
        BY <1>0, <2>2, <2>4 DEF Counted, Points
      <3>2. Placed'
        BY <2>3, <2>4, <3>1, MovePlaces
      <3> QED  BY <1>2, <3>2 DEF Claim, TypeInv, Placed, local, remote
    <2>5. CASE Goto(w, "maintain")
      <3>1. Placed'
        BY <2>2, <2>3, <2>5, StepPlaces DEF Points, Holding
      <3> QED  BY <1>2, <3>1 DEF Claim, TypeInv, Placed, local, remote
    <2> QED  BY <2>1, <2>4, <2>5
  <1>3. ASSUME LeaseRows(w) PROVE TypeInv'
    <2>1. \E rows : \E point \in {"maintain", "upload"} :
            /\ outbox' = SetState(outbox, Ids(rows), "leased")
            /\ job' = [job EXCEPT ![w].rows = rows] /\ Goto(w, point)
      BY <1>3 DEF LeaseRows
    <2>7. PICK rows, point :
            /\ point \in {"maintain", "upload"}
            /\ outbox' = SetState(outbox, Ids(rows), "leased")
            /\ job' = [job EXCEPT ![w].rows = rows] /\ Goto(w, point)
      BY <2>1
    <2> DEFINE k == [job[w] EXCEPT !.rows = rows]
    <2>2. "batch" \in DOMAIN k /\ k.batch = job[w].batch
      BY <1>0
    <2>3. job' = [job EXCEPT ![w] = k]
      BY <2>7
    <2> HIDE DEF k
    <2>4. point \in Points /\ at[w] \in Holding
      BY <1>3, <2>7 DEF LeaseRows, Points, Holding
    <2>5. Placed'
      BY <2>7, <2>2, <2>3, <2>4, StepPlaces
    <2>6. StatesOK(outbox')
      BY <1>0, <2>7, SetStateTyped DEF RowStates
    <2> QED  BY <1>3, <2>5, <2>6 DEF LeaseRows, TypeInv, Placed, remote
  <1>4. ASSUME UploadFenced(w) PROVE TypeInv'
    <2> DEFINE k == [job[w] EXCEPT !.revision = highWater']
    <2>1. "batch" \in DOMAIN k /\ k.batch = job[w].batch
      BY <1>0
    <2>2. job' = [job EXCEPT ![w] = k] /\ Goto(w, "committed") /\ at[w] = "upload"
      BY <1>4 DEF UploadFenced
    <2> HIDE DEF k
    <2>3. Placed'
      BY <2>1, <2>2, StepPlaces DEF Points, Holding
    <2>4. lease' \in Leases
      BY <1>0, <1>4 DEF UploadFenced, Commit, Leases
    <2> QED  BY <1>4, <2>3, <2>4 DEF UploadFenced, TypeInv, Placed, local
  <1>5. ASSUME SetRemoteRevision(w) PROVE TypeInv'
    <2>1. job' = [job EXCEPT ![w] = job[w]] /\ Goto(w, "stored") /\ at[w] = "committed"
      BY <1>0, <1>5 DEF SetRemoteRevision
    <2>2. Placed'
      BY <1>0, <2>1, StepPlaces DEF Points, Holding
    <2> QED  BY <1>5, <2>2 DEF SetRemoteRevision, TypeInv, Placed, remote
  <1>6. ASSUME Acknowledge(w) PROVE TypeInv'
    <2> DEFINE k == [job[w] EXCEPT !.progressed = TRUE, !.batch = @ + 1]
    <2>1. "batch" \in DOMAIN k /\ k.batch = job[w].batch + 1
      BY <1>0
    <2>2. job' = [job EXCEPT ![w] = k] /\ Goto(w, "claim") /\ at[w] = "stored"
      BY <1>6 DEF Acknowledge
    <2> HIDE DEF k
    <2>3. job[w].batch < MaxBatches
      BY <1>0, <2>2 DEF Holding
    <2>4. Counted(k, "claim") /\ "claim" \in Points
      BY <1>0, <2>1, <2>3, MirrorAssumption DEF Counted, Points, Holding
    <2>5. Placed'
      BY <2>2, <2>4, MovePlaces
    <2>6. StatesOK(outbox')
      BY <1>0, <1>6 DEF Acknowledge, StatesOK
    <2> QED  BY <1>6, <2>5, <2>6 DEF Acknowledge, TypeInv, Placed, remote
  <1> QED  BY <1>1, <1>2, <1>3, <1>4, <1>5, <1>6

\* What happens around a batch: the environment, and the rest of a pass.
LEMMA OtherTypes ==
    ASSUME IInv, TypeInv, NEW w \in Workers,
           \/ Start(w) \/ Crash(w) \/ Signal(w) \/ SkipSource(w) \/ OpenSource(w)
           \/ DiscoverFails(w) \/ EnsureRemoteSource(w) \/ Maintain(w) \/ Finish(w)
    PROVE  TypeInv'
  <1>0. /\ "batch" \in DOMAIN job[w] /\ job[w].batch \in 0 .. MaxBatches
        /\ at[w] \in Holding => job[w].batch < MaxBatches
        /\ job = [v \in Workers |-> job[v]] /\ at = [at EXCEPT ![w] = at[w]] /\ at[w] \in Points
    BY DEF TypeInv, Counted, IInv, JobsOK
  <1>1. ASSUME Start(w) PROVE TypeInv'
    <2>1. PICK x : job' = [job EXCEPT ![w].once = x]
      BY <1>1 DEF Start
    <2> DEFINE k == [job[w] EXCEPT !.once = x]
    <2>2. "batch" \in DOMAIN k /\ k.batch = job[w].batch
      BY <1>0
    <2>3. job' = [job EXCEPT ![w] = k] /\ Goto(w, "poll")
      BY <1>1, <2>1 DEF Start
    <2> HIDE DEF k
    <2>4. Placed'
      BY <2>2, <2>3, StepPlaces DEF Points, Holding
    <2> QED  BY <1>1, <2>4 DEF Start, TypeInv, Placed, local, remote
  <1>2. ASSUME Crash(w) PROVE TypeInv'
    <2>1. Placed' /\ lease' \in Leases /\ faults' \in 0 .. MaxFaults
      BY <1>2, EndTypes, FaultTypes DEF Crash
    <2> QED  BY <1>2, <2>1 DEF Crash, TypeInv, Placed, local
  <1>3. ASSUME Signal(w) PROVE TypeInv'
    <2> DEFINE k == [job[w] EXCEPT !.stopping = TRUE]
    <2>1. "batch" \in DOMAIN k /\ k.batch = job[w].batch
      BY <1>0
    <2>2. job' = [job EXCEPT ![w] = k] /\ Goto(w, at[w])
      BY <1>0, <1>3 DEF Signal, Goto
    <2> HIDE DEF k
    <2>3. Placed' /\ faults' \in 0 .. MaxFaults
      BY <1>0, <1>3, <2>1, <2>2, StepPlaces, FaultTypes DEF Signal
    <2> QED  BY <1>3, <2>3 DEF Signal, TypeInv, Placed, local, remote
  <1>4. ASSUME SkipSource(w) PROVE TypeInv'
    <2>1. Placed' /\ lease' \in Leases
      BY <1>4, LeavePassTypes DEF SkipSource
    <2> QED  BY <1>4, <2>1 DEF SkipSource, TypeInv, Placed, local
  <1>5. ASSUME OpenSource(w) PROVE TypeInv'
    <2> DEFINE k == [job[w] EXCEPT !.seen = {source}, !.cp = checkpoint]
    <2>1. "batch" \in DOMAIN k /\ k.batch = job[w].batch
      BY <1>0
    <2>2. job' = [job EXCEPT ![w] = k] /\ (Goto(w, "lease") \/ Goto(w, "discover"))
      BY <1>5 DEF OpenSource
    <2> HIDE DEF k
    <2>3. Placed'
      BY <2>1, <2>2, StepPlaces DEF Points, Holding
    <2> QED  BY <1>5, <2>3 DEF OpenSource, TypeInv, Placed, local, remote
  <1>6. ASSUME DiscoverFails(w) PROVE TypeInv'
    <2> DEFINE k == [job[w] EXCEPT !.failed = TRUE]
    <2>1. "batch" \in DOMAIN k /\ k.batch = job[w].batch
      BY <1>0
    <2>2. job' = [job EXCEPT ![w] = k] /\ Goto(w, "finish") /\ (Fault \/ UNCHANGED faults)
      BY <1>6 DEF DiscoverFails
    <2> HIDE DEF k
    <2>3. Placed'
      BY <2>1, <2>2, StepPlaces DEF Points, Holding
    <2>4. faults' \in 0 .. MaxFaults
      BY <2>2, FaultTypes DEF TypeInv
    <2> QED  BY <1>6, <2>3, <2>4 DEF DiscoverFails, TypeInv, Placed, local, remote
  <1>7. ASSUME EnsureRemoteSource(w) \/ Maintain(w) PROVE TypeInv'
    <2>1. PICK point \in {"fence", "finish"} : Goto(w, point)
      BY <1>7 DEF EnsureRemoteSource, Maintain
    <2>2. job' = [job EXCEPT ![w] = job[w]]
      BY <1>0, <1>7 DEF EnsureRemoteSource, Maintain
    <2>3. Placed'
      BY <1>0, <2>1, <2>2, StepPlaces DEF Points, Holding
    <2>4. lease' \in Leases
      <3>1. CASE EnsureRemoteSource(w)
        <4>1. Token(w) \in {Machine} \cup Workers
          BY DEF Token
        <4>2. lease' = [owner |-> Token(w), live |-> TRUE]
          BY <3>1 DEF EnsureRemoteSource
        <4> QED  BY <4>1, <4>2 DEF Leases
      <3>2. CASE Maintain(w)
        BY <3>2 DEF Maintain, TypeInv
      <3> QED  BY <1>7, <3>1, <3>2
    <2> QED  BY <1>7, <2>3, <2>4 DEF EnsureRemoteSource, Maintain, TypeInv, Placed, local
  <1>8. ASSUME Finish(w) PROVE TypeInv'
    <2>1. Placed' /\ lease' \in Leases
      BY <1>8, LeavePassTypes DEF Finish
    <2>2. aged' \in BOOLEAN
      BY <1>8 DEF Finish, TypeInv
    <2> QED  BY <1>8, <2>1, <2>2 DEF Finish, TypeInv, Placed
  <1> QED  BY <1>1, <1>2, <1>3, <1>4, <1>5, <1>6, <1>7, <1>8

\* A worker that gives up its batch, whether or not it was committed.
LEMMA ThrowsTypes ==
    ASSUME IInv, TypeInv, NEW w \in Workers,
           LeaseRefused(w) \/ FenceFails(w) \/ NetworkError(w) \/ ReplyLost(w)
    PROVE  TypeInv'
  <1>1. Placed' /\ StatesOK(outbox') /\ UNCHANGED aged
    BY ThrowTypes DEF LeaseRefused, FenceFails, NetworkError, ReplyLost
  <1>2. faults' \in 0 .. MaxFaults
    <2>1. Fault \/ UNCHANGED faults
      BY DEF LeaseRefused, FenceFails, NetworkError, ReplyLost
    <2> QED  BY <2>1, FaultTypes DEF TypeInv
  <1>3. lease' \in Leases
    BY DEF LeaseRefused, FenceFails, NetworkError, ReplyLost, Commit, Leases, TypeInv, remote
  <1> QED  BY <1>1, <1>2, <1>3 DEF TypeInv, Placed

LEMMA EnvironmentTypes ==
    ASSUME IInv, TypeInv,
           SourceChanges \/ RowsReady \/ ScanAges \/ LeaseLapses \/ Adopt \/ UNCHANGED vars
    PROVE  TypeInv'
  <1>1. Placed' /\ UNCHANGED faults
    BY PlacedIs DEF SourceChanges, RowsReady, ScanAges, LeaseLapses, Adopt, vars
  <1>2. aged' \in BOOLEAN /\ lease' \in Leases
    BY DEF SourceChanges, RowsReady, ScanAges, LeaseLapses, Adopt, vars, local, remote, Leases, TypeInv
  <1>3. StatesOK(outbox')
    <2>1. CASE RowsReady
      <3>1. PICK ids : outbox' = SetState(outbox, ids, "ready")
        BY <2>1 DEF RowsReady
      <3> QED  BY <3>1, SetStateTyped DEF IInv, RowsOK, TypeInv, RowStates
    <2>2. CASE Adopt
      BY <2>2 DEF Adopt, DropThrough, StatesOK, TypeInv
    <2>3. CASE UNCHANGED outbox
      BY <2>3 DEF TypeInv
    <2> QED  BY <2>1, <2>2, <2>3 DEF SourceChanges, ScanAges, LeaseLapses, vars, local
  <1> QED  BY <1>1, <1>2, <1>3 DEF TypeInv, Placed

LEMMA TypeStepOK ==
    ASSUME IInv, TypeInv, [Next]_vars
    PROVE  TypeInv'
  BY EnvironmentTypes, OtherTypes, StageTypes, BatchTypes, ThrowsTypes DEF Next, Step

LEMMA TypeInitOK == Init => TypeInv
  <1> SUFFICES ASSUME Init PROVE TypeInv
    OBVIOUS
  <1>1. "off" \in Points /\ "off" \notin Holding
    BY DEF Points, Holding
  <1>2. Counted(NoJob, "off")
    BY <1>1, NoJobCounts
  <1>3. at = [w \in Workers |-> "off"] /\ job = [w \in Workers |-> NoJob]
        /\ aged = FALSE /\ faults = 0 /\ outbox = {}
        /\ lease = [owner |-> NoWorker, live |-> FALSE]
    BY DEF Init
  <1>4. lease \in Leases /\ faults \in 0 .. MaxFaults /\ aged \in BOOLEAN
    <2>1. [owner |-> NoWorker, live |-> FALSE] \in Leases
      BY DEF Leases
    <2>2. 0 \in 0 .. MaxFaults
      BY MirrorAssumption
    <2> QED  BY <1>3, <2>1, <2>2
  <1>5. at \in [Workers -> Points] /\ \A w \in Workers : Counted(job[w], at[w])
    BY <1>1, <1>2, <1>3
  <1> QED  BY <1>3, <1>4, <1>5 DEF TypeInv, StatesOK

\* A row of the outbox is one of the rows that enqueue stages.
LEMMA RowTypes ==
    ASSUME IInv, KeepInv, TypeInv
    PROVE  outbox \subseteq [id : Nat \ {0}, rev : Nat \ {0}, entry : Entries, state : RowStates]
  <1> SUFFICES ASSUME NEW r \in outbox
               PROVE  r \in [id : Nat \ {0}, rev : Nat \ {0}, entry : Entries, state : RowStates]
    OBVIOUS
  <1>1. IsRow(r) /\ r.rev \in 1 .. Len(log) /\ r.entry = log[r.rev] /\ log \in Seq(Entries)
    BY DEF IInv, RowsOK, LogOK
  <1>2. r.rev \in Nat \ {0} /\ r.entry \in Entries
    BY <1>1
  <1>3. r.id \in Nat \ {0}
    BY DEF KeepInv, IdsOK
  <1>4. r.state \in RowStates
    BY DEF TypeInv, StatesOK
  <1> QED  BY <1>1, <1>2, <1>3, <1>4 DEF IsRow

\* Every variable of the sync has its type: among them, a worker never uploads more batches
\* than a pass may have, and no row of the outbox is without an id, a revision and an entry
\* of the log (syncPass, enqueue, claim, fail).
THEOREM MirrorTypeCorrect == Spec => []MirrorTypeOK
  <1>1. IInv /\ TypeInv /\ [Next]_vars => TypeInv'
    BY TypeStepOK
  <1>2. IInv /\ TableInv /\ [Next]_vars => TableInv'
    BY TableStepOK
  <1>3. IInv /\ KeepInv /\ [Next]_vars => KeepInv'
    BY KeepStepOK
  <1>4. IInv /\ KeepInv /\ TableInv /\ TypeInv => MirrorTypeOK
    <2> SUFFICES ASSUME IInv, KeepInv, TableInv, TypeInv PROVE MirrorTypeOK
      OBVIOUS
    <2>1. revision \in Nat /\ known \in Nat /\ highWater \in Nat
      BY DEF IInv, LogOK, AppliedInOrder
    <2>2. table \in [Keys -> [rev : Nat, live : BOOLEAN, value : {0} \cup Values]]
          /\ snapshot \subseteq Keys
      BY DEF TableInv, State, States, Rows
    <2>3. DOMAIN job = Workers /\ \A w \in Workers : job[w].revision \in Nat
      BY <2>1 DEF IInv, JobsOK, JobOK
    <2>4. outbox \subseteq [id : Nat \ {0}, rev : Nat \ {0}, entry : Entries,
                            state : {"ready", "leased", "failed"}]
      BY RowTypes DEF RowStates
    <2> QED  BY <2>1, <2>2, <2>3, <2>4 DEF MirrorTypeOK, TypeInv, Leases, Counted
  <1> QED  BY <1>1, <1>2, <1>3, <1>4, TypeInitOK, TableInitOK, KeepInitOK, MirrorInvariant,
              PTL DEF Spec

----------------------------------------------------------------------------
(* The retrieval worker. *)

Stored == rag.embedded \cup Chunkless

\* A thread that is done with a page holds all of it that is not stored.
Holds(thread, page) ==
    /\ thread.is = "queued" => thread.page = page
    /\ thread.is = "done" => page \subseteq Stored \cup thread.page

Below(docs, others) == \A d \in docs, e \in others : d < e

\* What a stream found and is not stored is still ahead, in the order of the query.
StreamSound ==
    /\ work.at = "fetch" => work.stream.rest = work.stream.all
    /\ work.at # "fetch" =>
         /\ work.stream.all \subseteq Stored \cup work.page \cup work.lookahead \cup work.stream.rest
         /\ Below(work.page, work.lookahead) /\ Below(work.page, work.stream.rest)
         /\ Below(work.lookahead, work.stream.rest)
    /\ work.at = "top" =>
         /\ work.page = {} /\ work.lookahead # {}
         /\ work.stagePending => Holds(stager, work.lookahead)
    /\ work.at = "collect" => work.page # {} /\ work.lookahead = {} /\ Holds(stager, work.page)
    /\ work.at = "embed" =>
         /\ work.page # {}
         /\ work.page \subseteq Stored \cup work.candidates
                                \cup (IF writer.is = "none" THEN {} ELSE writer.page)
         /\ work.stagePending => Holds(stager, work.lookahead)
         /\ ~work.endPending => work.lookahead # {}

Threads == [is : {"none", "queued", "done", "failed"}, page : SUBSET Docs]
Streams == [open : BOOLEAN, full : BOOLEAN, all : SUBSET Docs, rest : SUBSET Docs]
Works ==
    [at : {"top", "fetch", "stage", "collect", "embed", "off"}, stream : Streams,
     page : SUBSET Docs, live : BOOLEAN, candidates : SUBSET Docs, lookahead : SUBSET Docs,
     stagePending : BOOLEAN, endPending : BOOLEAN]
Saves == [caughtUp : BOOLEAN, cursor : Nat, sweepDue : BOOLEAN]
RagTyped ==
    /\ mirror \in [docs : SUBSET Docs, late : SUBSET Docs]
    /\ rag \in [staged : SUBSET Docs, embedded : SUBSET Docs]
    /\ saved \in Saves /\ work \in Works
    /\ stager \in Threads /\ writer \in Threads

RagInv ==
    /\ RagTyped
    /\ ~work.stream.open => work.stream.all = {}
    /\ ~work.stream.open \/ work.at = "fetch" => work.lookahead = {}
    /\ work.at \in {"fetch", "collect"} => work.stream.open
    /\ work.at \in {"stage", "off"} => ~work.stream.open
    /\ work.at = "stage" => work.live
    /\ work.at = "collect" => ~work.live
    /\ work.at = "embed" => (work.live <=> ~work.stream.open)
    /\ work.stream.open => StreamSound

LEMMA FiniteHasMin ==
  ASSUME NEW S \in SUBSET Nat, S # {}, IsFiniteSet(S)
  PROVE  \E x \in S : \A y \in S : x <= y
<1>1. PICK m \in Nat : \A y \in S : y <= m
  BY FiniteHasMax
<1> DEFINE T == {m - y : y \in S}
<1>2. T \in SUBSET Nat /\ T # {}
  <2>1. \A y \in S : y \in Nat /\ m - y \in Nat
    BY <1>1
  <2> QED BY <2>1
<1>3. IsFiniteSet(T)
  <2>1. T \subseteq 0..m
    BY <1>1
  <2>2. IsFiniteSet(0..m)
    BY FS_Interval
  <2> HIDE DEF T
  <2> QED BY <2>1, <2>2, FS_Subset
<1>4. PICK t \in T : \A u \in T : u <= t
  <2> HIDE DEF T
  <2> QED BY <1>2, <1>3, FiniteHasMax
<1>5. PICK x \in S : t = m - x
  OBVIOUS
<1>6. \A y \in S : m - y \in T
  OBVIOUS
<1>7. \A y \in S : x <= y
  <2> HIDE DEF T
  <2> QED BY <1>1, <1>4, <1>5, <1>6
<1> QED BY <1>7

\* A page is the first part of what a query found, and something of it if it found anything.
LEMMA FirstPageIs ==
  ASSUME NEW rows \in SUBSET Docs
  PROVE  /\ FirstPage(rows) \in SUBSET Docs /\ Behind(rows) \in SUBSET Docs
         /\ rows = FirstPage(rows) \cup Behind(rows)
         /\ Below(FirstPage(rows), Behind(rows))
         /\ rows # {} => FirstPage(rows) # {}
<1> DEFINE UpTo(d) == {e \in rows : e <= d}
<1>1. IsFiniteSet(rows) /\ rows \in SUBSET Nat /\ PageSize \in Nat \ {0}
  BY RagAssumption, FS_Subset
<1>2. \A d : UpTo(d) \in SUBSET rows /\ IsFiniteSet(UpTo(d)) /\ Cardinality(UpTo(d)) \in Nat
  <2>1. \A d : UpTo(d) \in SUBSET rows
    OBVIOUS
  <2> HIDE DEF UpTo
  <2> QED BY <1>1, <2>1, FS_Subset, FS_CardinalityType
<1>3. \A d : d \in FirstPage(rows) <=> d \in rows /\ Cardinality(UpTo(d)) <= PageSize
  BY DEF FirstPage
<1>4. ASSUME NEW d \in FirstPage(rows), NEW e \in Behind(rows) PROVE d < e
  <2>1. d \in rows /\ e \in rows /\ d \in Nat /\ e \in Nat
        /\ Cardinality(UpTo(d)) <= PageSize /\ ~(Cardinality(UpTo(e)) <= PageSize)
    BY <1>1, <1>3 DEF Behind
  <2>2. SUFFICES ASSUME e <= d PROVE FALSE
    BY <2>1
  <2>3. UpTo(e) \subseteq UpTo(d)
    <3>1. \A x \in rows : x \in Nat /\ (x <= e => x <= d)
      BY <1>1, <2>1, <2>2
    <3> QED BY <3>1
  <2> HIDE DEF UpTo
  <2>4. Cardinality(UpTo(e)) <= Cardinality(UpTo(d))
    BY <1>2, <2>3, FS_Subset
  <2> QED BY <1>1, <1>2, <2>1, <2>4
<1>5. ASSUME rows # {} PROVE FirstPage(rows) # {}
  <2>1. PICK d \in rows : \A e \in rows : d <= e
    BY <1>1, <1>5, FiniteHasMin
  <2>2. UpTo(d) = {d}
    <3>1. \A x \in rows : x \in Nat /\ d \in Nat /\ (x <= d <=> x = d)
      BY <1>1, <2>1
    <3> QED BY <3>1
  <2>3. Cardinality(UpTo(d)) = 1
    BY <2>2, FS_Singleton
  <2> HIDE DEF UpTo
  <2> QED BY <1>1, <1>3, <2>1, <2>3
<1> QED BY <1>3, <1>4, <1>5 DEF Behind, Below, FirstPage

LEMMA NoPageIs == NoPage \in Threads
BY DEF NoPage, Threads

LEMMA NewPassIs ==
  ASSUME NEW w, w \in {NewPass, [NewPass EXCEPT !.at = "off"]}
  PROVE  /\ w \in Works /\ w.at \in {"top", "off"}
         /\ ~w.stream.open /\ w.stream.all = {} /\ w.lookahead = {}
<1>1. NoStream \in Streams /\ ~NoStream.open /\ NoStream.all = {}
  BY DEF NoStream, Streams
<1>2. NewPass \in Works /\ NewPass.at = "top" /\ NewPass.stream = NoStream /\ NewPass.lookahead = {}
  BY <1>1 DEF NewPass, Works
<1>3. CASE w = NewPass
  BY <1>1, <1>2, <1>3
<1>4. CASE w = [NewPass EXCEPT !.at = "off"]
  <2>1. w \in Works /\ w.at = "off" /\ w.stream = NewPass.stream /\ w.lookahead = NewPass.lookahead
    BY <1>2, <1>4 DEF Works
  <2> QED BY <1>1, <1>2, <2>1
<1> QED BY <1>3, <1>4

LEMMA RagInitial == RagInit => RagInv
<1> SUFFICES ASSUME RagInit PROVE RagInv
  OBVIOUS
<1> USE DEF RagInit
<1>1. mirror \in [docs : SUBSET Docs, late : SUBSET Docs] /\ rag \in [staged : SUBSET Docs, embedded : SUBSET Docs]
  BY RagAssumption
<1>2. saved \in Saves
  BY DEF Saves
<1> QED BY <1>1, <1>2, NewPassIs, NoPageIs DEF RagInv, RagTyped

\* A worker that starts anew has nothing to keep.
LEMMA StartsAnew ==
  ASSUME RagInv, work' \in {NewPass, [NewPass EXCEPT !.at = "off"]},
         UNCHANGED <<mirror, rag>>, saved' \in Saves, stager' \in Threads, writer' \in Threads
  PROVE  RagInv'
<1>1. /\ work' \in Works /\ work'.at \in {"top", "off"}
      /\ ~work'.stream.open /\ work'.stream.all = {} /\ work'.lookahead = {}
  BY NewPassIs
<1> QED BY <1>1 DEF RagInv, RagTyped

LEMMA StepPoll ==
  ASSUME RagInv, Poll PROVE RagInv'
<1> USE DEF RagInv, Poll
<1>1. LivePage \in SUBSET Docs
  BY FirstPageIs DEF LivePage, Candidates, RagTyped
<1>2. /\ work' \in Works /\ work'.at = "stage" /\ work'.live /\ work'.stream = work.stream
      /\ work'.lookahead = work.lookahead
  BY <1>1 DEF RagTyped, Works
<1>3. RagTyped'
  BY <1>2 DEF RagTyped
<1> QED BY <1>2, <1>3

LEMMA StepOpens ==
  ASSUME RagInv, OpenStream PROVE RagInv'
<1> USE DEF RagInv, OpenStream
<1>1. StreamRows(saved.caughtUp) \in SUBSET Docs /\ saved.caughtUp \in BOOLEAN
  BY DEF StreamRows, Candidates, RagTyped, Saves
<1> DEFINE stream == [open |-> TRUE, full |-> saved.caughtUp, all |-> StreamRows(saved.caughtUp),
                      rest |-> StreamRows(saved.caughtUp)]
<1>2. stream \in Streams /\ stream.open /\ stream.rest = stream.all
  BY <1>1 DEF Streams
<1>3. work' = [work EXCEPT !.at = "fetch", !.stream = stream]
  OBVIOUS
<1> HIDE DEF stream
<1>4. work' \in Works /\ work'.at = "fetch" /\ work'.stream = stream /\ work'.lookahead = work.lookahead
  BY <1>2, <1>3 DEF RagTyped, Works
<1>5. RagTyped'
  BY <1>4 DEF RagTyped
<1> QED BY <1>2, <1>4, <1>5 DEF StreamSound

\* The pages of a stream are taken from its rest.
LEMMA RestIs ==
  ASSUME work \in Works, NEW rest \in SUBSET Docs
  PROVE  LET stream == [work.stream EXCEPT !.rest = rest]
         IN /\ stream \in Streams /\ stream.rest = rest
            /\ stream.all = work.stream.all /\ stream.open = work.stream.open
<1>1. work.stream \in Streams
  BY DEF Works
<1> QED BY <1>1 DEF Streams

LEMMA CatchesUp ==
  ASSUME NEW state \in Saves, NEW full \in BOOLEAN
  PROVE  CatchUp(state, full) \in Saves /\ CatchUp(state, full).cursor = state.cursor
BY DEF CatchUp, Saves

LEMMA StepFetches ==
  ASSUME RagInv, FetchFirst PROVE RagInv'
<1> USE DEF RagInv, FetchFirst
<1> DEFINE rest == work.stream.rest
<1>1. /\ rest \in SUBSET Docs /\ rest = work.stream.all /\ work.lookahead = {} /\ work.stream.open
      /\ work.stream.full \in BOOLEAN
  BY DEF RagTyped, StreamSound, Works, Streams
<1>2. CASE rest = {}
  <2>1. NoStream \in Streams /\ ~NoStream.open /\ NoStream.all = {}
    BY DEF NoStream, Streams
  <2>2. /\ work' = [work EXCEPT !.at = "top", !.stream = NoStream]
        /\ saved' = CatchUp(saved, work.stream.full) /\ UNCHANGED stager
    BY <1>2
  <2>3. /\ work' \in Works /\ work'.at = "top" /\ work'.stream = NoStream
        /\ work'.lookahead = work.lookahead
    BY <2>1, <2>2 DEF RagTyped, Works
  <2>4. saved' \in Saves
    BY <1>1, <2>2, CatchesUp DEF RagTyped
  <2>5. RagTyped'
    BY <2>2, <2>3, <2>4 DEF RagTyped
  <2> QED BY <1>1, <2>1, <2>3, <2>5
<1>3. CASE rest # {}
  <2>1. /\ FirstPage(rest) \in SUBSET Docs /\ Behind(rest) \in SUBSET Docs /\ FirstPage(rest) # {}
        /\ rest = FirstPage(rest) \cup Behind(rest) /\ Below(FirstPage(rest), Behind(rest))
    BY <1>1, <1>3, FirstPageIs
  <2>2. /\ work' = [work EXCEPT !.at = "collect", !.page = FirstPage(rest), !.live = FALSE,
                                !.stream.rest = Behind(rest)]
        /\ stager' = Job(FirstPage(rest)) /\ UNCHANGED <<mirror, rag, saved, writer>>
    BY <1>3
  <2> DEFINE stream == [work.stream EXCEPT !.rest = Behind(rest)]
  <2>3. stream \in Streams /\ stream.rest = Behind(rest) /\ stream.all = work.stream.all /\ stream.open
    BY <1>1, <2>1, RestIs DEF RagTyped
  <2>4. work' = [work EXCEPT !.at = "collect", !.page = FirstPage(rest), !.live = FALSE, !.stream = stream]
    BY <2>2 DEF RagTyped, Works
  <2> HIDE DEF stream
  <2>5. /\ work' \in Works /\ work'.at = "collect" /\ work'.stream = stream
        /\ work'.page = FirstPage(rest) /\ work'.lookahead = work.lookahead /\ ~work'.live
    BY <2>1, <2>3, <2>4 DEF RagTyped, Works
  <2>6. RagTyped'
    BY <2>1, <2>2, <2>5 DEF RagTyped, Threads, Job
  <2>7. /\ work'.at = "collect" /\ work'.stream.open /\ work'.stream.all = work.stream.all
        /\ work'.page = FirstPage(rest) /\ work'.lookahead = {} /\ work'.stream.rest = Behind(rest)
    BY <1>1, <2>3, <2>5
  <2>8. Holds(stager, work.page)'
    BY <2>2, <2>7 DEF Holds, Job
  <2>9. StreamSound'
    BY <1>1, <2>1, <2>7, <2>8 DEF StreamSound, Below
  <2> QED BY <2>6, <2>7, <2>9, <2>5
<1> QED BY <1>2, <1>3

LEMMA StepTakes ==
  ASSUME RagInv, TakeLookahead PROVE RagInv'
<1> USE DEF RagInv, TakeLookahead
<1>1. /\ work.stream.open /\ StreamSound /\ work.at = "top"
      /\ work.page = {} /\ work.lookahead # {}
  BY DEF StreamSound
<1>2. /\ work' = [work EXCEPT !.at = "collect", !.page = work.lookahead, !.live = FALSE, !.lookahead = {}]
      /\ work'.at = "collect" /\ work'.stream = work.stream /\ work'.page = work.lookahead /\ work'.lookahead = {}
      /\ ~work'.live
      /\ work' \in Works
  BY DEF RagTyped, Works
<1>3. RagTyped'
  <2>1. work.lookahead \in SUBSET Docs
    BY DEF RagTyped, Works
  <2>2. stager' \in Threads
    BY <2>1 DEF RagTyped, Threads, Job
  <2> QED BY <1>2, <2>2 DEF RagTyped
<1>4. Holds(stager, work.page)'
  BY <1>1, <1>2 DEF StreamSound, Holds, Job, Stored
<1>5. StreamSound'
  <2>1. Stored' = Stored
    BY DEF Stored
  <2> QED BY <1>1, <1>2, <1>4, <2>1 DEF StreamSound, Below
<1> QED BY <1>1, <1>2, <1>3, <1>5

LEMMA StepCollects ==
  ASSUME RagInv, CollectBatch PROVE RagInv'
<1> USE DEF RagInv, CollectBatch
<1> DEFINE rest == work.stream.rest
           ahead == FirstPage(rest)
<1>1. /\ work.stream.open /\ StreamSound /\ work.at = "collect" /\ rest \in SUBSET Docs
      /\ work.page # {} /\ work.lookahead = {} /\ Holds(stager, work.page) /\ stager.is = "done"
  BY DEF StreamSound, RagTyped, Works, Streams
<1>2. /\ ahead \in SUBSET Docs /\ Behind(rest) \in SUBSET Docs
      /\ rest = ahead \cup Behind(rest) /\ Below(ahead, Behind(rest))
  BY <1>1, FirstPageIs
<1>3. /\ work' = [work EXCEPT !.at = "embed", !.candidates = stager.page, !.lookahead = ahead,
                    !.stream.rest = Behind(rest), !.stagePending = StagedAhead(ahead),
                    !.endPending = @ \/ ahead = {}]
      /\ stager' = IF ahead = {} THEN NoPage ELSE Job(ahead)
  OBVIOUS
<1> HIDE DEF ahead
<1> DEFINE stream == [work.stream EXCEPT !.rest = Behind(rest)]
<1>4. stream \in Streams /\ stream.rest = Behind(rest) /\ stream.all = work.stream.all /\ stream.open
  BY <1>1, <1>2, RestIs DEF RagTyped
<1>5. stager.page \in SUBSET Docs /\ StagedAhead(ahead) \in BOOLEAN
  BY DEF RagTyped, Threads, StagedAhead
<1>6. work' = [work EXCEPT !.at = "embed", !.candidates = stager.page, !.lookahead = ahead, !.stream = stream,
                 !.stagePending = StagedAhead(ahead), !.endPending = @ \/ ahead = {}]
  BY <1>3 DEF RagTyped, Works
<1> HIDE DEF stream
<1>7. /\ work' \in Works /\ work'.at = "embed" /\ work'.stream = stream
      /\ work'.page = work.page /\ work'.candidates = stager.page
      /\ work'.lookahead = ahead /\ work'.live = work.live
      /\ ~work'.endPending => ahead # {}
      /\ work'.stagePending => ahead # {}
  <2>1. work \in Works
    BY DEF RagTyped
  <2>2. ahead \in SUBSET Docs
    BY <1>2
  <2>3. work' \in Works
    BY ONLY <1>4, <1>5, <1>6, <2>1, <2>2 DEF Works
  <2>4. /\ work'.at = "embed" /\ work'.stream = stream /\ work'.page = work.page
        /\ work'.candidates = stager.page /\ work'.lookahead = ahead /\ work'.live = work.live
        /\ work'.stagePending = StagedAhead(ahead) /\ work'.endPending = (work.endPending \/ ahead = {})
    BY ONLY <1>6, <2>1 DEF Works
  <2> QED  BY ONLY <2>3, <2>4 DEF StagedAhead
<1>8. RagTyped'
  BY <1>2, <1>3, <1>7 DEF RagTyped, Threads, Job, NoPage
<1>9. work'.stream.open /\ work'.stream.all = work.stream.all /\ work'.stream.rest = Behind(rest)
  BY <1>4, <1>7
<1>10. work.page \subseteq Stored \cup stager.page
  BY <1>1 DEF Holds
<1>11. work'.stagePending => Holds(stager, work.lookahead)'
  BY <1>3, <1>7 DEF Holds, Job
<1>12. StreamSound'
  <2>1. Stored' = Stored
    BY DEF Stored
  <2>2. Below(work.page, ahead) /\ Below(work.page, Behind(rest))
    BY <1>1, <1>2 DEF StreamSound, Below
  <2> QED BY <1>1, <1>2, <1>9, <1>10, <1>11, <1>7, <2>1, <2>2 DEF StreamSound
<1> QED BY <1>1, <1>8, <1>9, <1>12, <1>7

LEMMA StepStages ==
  ASSUME RagInv, StageLive PROVE RagInv'
<1> USE DEF RagInv, StageLive
<1>1. work.page \in SUBSET Docs /\ Unembedded(work.page) \in SUBSET Docs
  BY DEF RagTyped, Works, Unembedded
<1>2. /\ work' \in Works /\ work'.at = "embed" /\ work'.live = work.live /\ work'.stream = work.stream
      /\ work'.lookahead = work.lookahead
  BY <1>1 DEF RagTyped, Works
<1>3. rag' \in [staged : SUBSET Docs, embedded : SUBSET Docs]
  BY <1>1 DEF RagTyped
<1>4. RagTyped'
  BY <1>2, <1>3 DEF RagTyped
<1> QED BY <1>2, <1>4

LEMMA StepEncodes ==
  ASSUME RagInv, Encode PROVE RagInv'
<1> USE DEF RagInv, Encode
<1>1. PICK d \in work.candidates : writer' = Job({d}) /\ work' = [work EXCEPT !.candidates = @ \ {d}]
  OBVIOUS
<1>2. work.candidates \in SUBSET Docs
  BY DEF RagTyped, Works
<1>3. /\ work' \in Works /\ work' = [work EXCEPT !.candidates = work.candidates \ {d}]
      /\ work'.candidates = work.candidates \ {d}
      /\ work'.at = "embed" /\ work'.live = work.live /\ work'.stream = work.stream
      /\ work'.lookahead = work.lookahead /\ work'.page = work.page
      /\ work'.stagePending = work.stagePending /\ work'.endPending = work.endPending
  BY <1>1, <1>2 DEF RagTyped, Works
<1>4. writer' \in Threads /\ writer'.is = "queued" /\ writer'.page = {d}
  BY <1>1, <1>2 DEF Threads, Job
<1>5. RagTyped'
  BY <1>3, <1>4 DEF RagTyped
<1>6. StreamSound => StreamSound'
  <2>1. Stored' = Stored /\ (Holds(stager, work.lookahead) => Holds(stager, work.lookahead)')
    BY <1>3 DEF Stored, Holds
  <2> QED BY <1>3, <1>4, <2>1 DEF StreamSound
<1> QED BY <1>3, <1>5, <1>6

\* The page whose batches are written is stored.
LEMMA PageIsStored ==
  ASSUME RagInv, BatchWritten, ~work.live
  PROVE  /\ work.stream.open /\ Max(work.page) \in work.page
         /\ work.page \subseteq Stored /\ Max(work.page) \in Nat
         /\ \A d \in work.stream.all : d <= Max(work.page) => d \in Stored
<1> USE DEF RagInv, BatchWritten
<1>1. work.stream.open /\ StreamSound /\ work.page # {} /\ work.page \subseteq Stored
  BY DEF StreamSound
<1>2. /\ work.page \in SUBSET Nat /\ work.lookahead \in SUBSET Nat
      /\ work.stream.rest \in SUBSET Nat /\ work.stream.all \in SUBSET Nat
  BY RagAssumption DEF RagTyped, Works, Streams
<1>3. IsFiniteSet(work.page)
  BY RagAssumption, FS_Subset DEF RagTyped, Works
<1>4. Max(work.page) \in work.page
  BY <1>1, <1>2, <1>3, FiniteHasMax
<1>5. ASSUME NEW d \in work.stream.all, d <= Max(work.page), d \notin Stored PROVE FALSE
  <2>1. d \in work.lookahead \cup work.stream.rest
    BY <1>1, <1>5 DEF StreamSound
  <2>2. Max(work.page) < d
    BY <1>1, <1>4, <2>1 DEF StreamSound, Below
  <2>3. d \in Nat /\ Max(work.page) \in Nat
    BY <1>2, <1>4
  <2> QED BY <1>5, <2>2, <2>3
<1> QED BY <1>1, <1>2, <1>4, <1>5

LEMMA StepPageDone ==
  ASSUME RagInv, PageDone PROVE RagInv'
<1> USE DEF PageDone
<1> DEFINE moved == IF work.live THEN saved
                    ELSE [saved EXCEPT !.cursor = Max(work.page), !.caughtUp = FALSE]
<1>1. moved \in Saves
  <2>1. saved \in Saves
    BY DEF RagInv, RagTyped
  <2>2. ~work.live => Max(work.page) \in Nat
    BY PageIsStored
  <2> QED BY <2>1, <2>2 DEF Saves
<1>2. saved' = IF work.endPending THEN CatchUp(moved, work.stream.full) ELSE moved
  OBVIOUS
<1> HIDE DEF moved
<1>3. saved' \in Saves
  <2>1. work.stream.full \in BOOLEAN
    BY DEF RagInv, RagTyped, Works, Streams
  <2> QED BY <1>1, <1>2, <2>1, CatchesUp
<1>4. stager' \in Threads /\ writer' \in Threads
  BY DEF RagInv, RagTyped
<1>5. CASE work.endPending
  BY <1>3, <1>4, <1>5, StartsAnew
<1>6. CASE ~work.endPending
  <2> USE DEF RagInv
  <2>1. work' = [work EXCEPT !.at = "top", !.page = {}]
    BY <1>6
  <2>2. /\ work' \in Works /\ work'.at = "top" /\ work'.page = {} /\ work'.stream = work.stream
        /\ work'.lookahead = work.lookahead /\ work'.stagePending = work.stagePending
    BY <2>1 DEF RagTyped, Works
  <2>3. RagTyped'
    BY <1>3, <1>4, <2>2 DEF RagTyped
  <2>4. ASSUME work.stream.open PROVE StreamSound'
    <3>1. work.at = "embed" /\ StreamSound /\ ~work.live /\ work.page \subseteq Stored
      BY <2>4, PageIsStored DEF BatchWritten
    <3>2. Stored' = Stored /\ (Holds(stager, work.lookahead) => Holds(stager, work.lookahead)')
      BY <2>2 DEF Stored, Holds
    <3> QED BY <1>6, <2>2, <3>1, <3>2 DEF StreamSound, Below
  <2> QED BY <2>2, <2>3, <2>4
<1> QED BY <1>5, <1>6

\* Storing more, or failing, leaves what is held.
LEMMA ThreadsMove ==
  ASSUME RagInv, UNCHANGED work, RagTyped',
         rag.embedded \subseteq rag'.embedded,
         \A page : Holds(stager, page) => Holds(stager, page)',
         writer.is # "none" => (writer'.is # "none" /\ writer'.page = writer.page)
                                  \/ writer.page \subseteq rag'.embedded
  PROVE  RagInv'
<1> USE DEF RagInv
<1>1. Stored \subseteq Stored'
  BY DEF Stored
<1>2. /\ Holds(stager, work.page) => Holds(stager, work.page)'
      /\ Holds(stager, work.lookahead) => Holds(stager, work.lookahead)'
  BY DEF Holds
<1>3. (IF writer.is = "none" THEN {} ELSE writer.page)
        \subseteq Stored' \cup (IF writer'.is = "none" THEN {} ELSE writer'.page)
  BY DEF Stored
<1>4. StreamSound => StreamSound'
  BY <1>1, <1>2, <1>3 DEF StreamSound, Below
<1> QED BY <1>4

LEMMA StepThreads ==
  ASSUME RagInv, StagerCommits \/ WriterCommits \/ ThreadFails PROVE RagInv'
<1>0. RagTyped /\ stager.page \in SUBSET Docs /\ writer.page \in SUBSET Docs
  BY DEF RagInv, RagTyped, Threads
<1>1. CASE StagerCommits
  <2> USE <1>1 DEF StagerCommits
  <2>1. rag' \in [staged : SUBSET Docs, embedded : SUBSET Docs] /\ rag'.embedded = rag.embedded
    BY <1>0 DEF RagTyped
  <2>2. stager' \in Threads /\ stager'.is = "done" /\ stager'.page = stager.page \ Stored
    BY <1>0 DEF Threads, Unembedded, Stored
  <2>3. RagTyped'
    BY <1>0, <2>1, <2>2 DEF RagTyped
  <2>4. \A page : Holds(stager, page) => Holds(stager, page)'
    BY <2>1, <2>2 DEF Holds, Stored
  <2> QED BY <2>1, <2>3, <2>4, ThreadsMove
<1>2. CASE WriterCommits
  <2> USE <1>2 DEF WriterCommits
  <2>1. /\ rag' \in [staged : SUBSET Docs, embedded : SUBSET Docs]
        /\ rag'.embedded = rag.embedded \cup writer.page
    BY <1>0 DEF RagTyped
  <2>2. RagTyped'
    BY <1>0, <2>1, NoPageIs DEF RagTyped
  <2>3. \A page : Holds(stager, page) => Holds(stager, page)'
    BY <2>1 DEF Holds, Stored
  <2> QED BY <2>1, <2>2, <2>3, ThreadsMove
<1>3. CASE ThreadFails
  <2> USE <1>3 DEF ThreadFails
  <2>1. CASE stager.is = "queued" /\ stager' = [stager EXCEPT !.is = "failed"] /\ UNCHANGED writer
    <3>1. stager' \in Threads /\ stager'.is = "failed"
      BY <1>0, <2>1 DEF RagTyped, Threads
    <3>2. RagTyped' /\ \A page : Holds(stager, page)'
      BY <1>0, <2>1, <3>1 DEF RagTyped, Holds
    <3> QED BY <2>1, <3>2, ThreadsMove
  <2>2. CASE writer.is = "queued" /\ writer' = [writer EXCEPT !.is = "failed"] /\ UNCHANGED stager
    <3>1. writer' \in Threads /\ writer'.is = "failed" /\ writer'.page = writer.page
      BY <1>0, <2>2 DEF RagTyped, Threads
    <3>2. RagTyped' /\ \A page : Holds(stager, page) => Holds(stager, page)'
      BY <1>0, <2>2, <3>1 DEF RagTyped, Holds, Stored
    <3> QED BY <2>2, <3>1, <3>2, ThreadsMove
  <2> QED BY <2>1, <2>2
<1> QED BY <1>1, <1>2, <1>3

LEMMA RagStep == RagInv /\ [RagNext]_ragvars => RagInv'
<1> SUFFICES ASSUME RagInv, [RagNext]_ragvars PROVE RagInv'
  OBVIOUS
<1>0. saved \in Saves /\ stager \in Threads /\ writer \in Threads
  BY DEF RagInv, RagTyped
<1>1. CASE PassFails \/ StagerRaises \/ WriterRaises \/ RagRestart \/ RagCrash
  <2>1. /\ work' \in {NewPass, [NewPass EXCEPT !.at = "off"]} /\ UNCHANGED <<mirror, rag, saved>>
        /\ stager' \in {stager, NoPage} /\ writer' \in {writer, NoPage}
    BY <1>1 DEF PassFails, StagerRaises, WriterRaises, RagRestart, RagCrash, FailPass
  <2> QED BY <1>0, <2>1, NoPageIs, StartsAnew
<1>2. CASE Poll \/ OpenStream \/ FetchFirst \/ TakeLookahead \/ CollectBatch
  BY <1>2, StepPoll, StepOpens, StepFetches, StepTakes, StepCollects
<1>3. CASE StageLive \/ Encode \/ PageDone
  BY <1>3, StepStages, StepEncodes, StepPageDone
<1>4. CASE StagerCommits \/ WriterCommits \/ ThreadFails
  BY <1>4, StepThreads
<1>5. CASE Arrive \/ AgeOut \/ SweepTime \/ UNCHANGED ragvars
  <2>1. mirror' \in [docs : SUBSET Docs, late : SUBSET Docs] /\ saved' \in Saves
    <3>1. mirror \in [docs : SUBSET Docs, late : SUBSET Docs]
      BY DEF RagInv, RagTyped
    <3>2. ASSUME Arrive PROVE mirror' \in [docs : SUBSET Docs, late : SUBSET Docs] /\ saved' = saved
      BY <3>1, <3>2 DEF Arrive
    <3>3. ASSUME SweepTime PROVE saved' \in Saves /\ mirror' = mirror
      BY <1>0, <3>3 DEF SweepTime, Saves
    <3> QED BY <1>0, <1>5, <3>1, <3>2, <3>3 DEF AgeOut, ragvars
  <2>2. UNCHANGED <<rag, work, stager, writer>>
    BY <1>5 DEF Arrive, AgeOut, SweepTime, ragvars
  <2>3. RagTyped'
    BY <2>1, <2>2 DEF RagInv, RagTyped
  <2>4. \A page : Holds(stager, page) => Holds(stager, page)'
    BY <2>2 DEF Holds, Stored
  <2> QED BY <2>2, <2>3, <2>4, ThreadsMove
<1> QED BY <1>1, <1>2, <1>3, <1>4, <1>5 DEF RagNext, RagLoop, RagThreads

\* The saved cursor of the retrieval worker never passes a document whose vectors are not
\* stored, for any documents and page size, however the threads run, fail or are started
\* again and whatever the mirror gets or loses meanwhile (rag_worker.py:415-418, 608-618).
THEOREM CursorIsSound == RagInit /\ [][RagNext]_ragvars => CursorSound
<1> DEFINE Sound == saved'.cursor # saved.cursor =>
             \A d \in work.stream.all : d <= saved'.cursor => d \in rag.embedded \cup Chunkless
<1>1. RagInv /\ [RagNext]_ragvars => [Sound]_ragvars
  <2> SUFFICES ASSUME RagInv, RagNext, saved'.cursor # saved.cursor PROVE Sound
    OBVIOUS
  <2>0. saved \in Saves /\ work.stream.full \in BOOLEAN
    BY DEF RagInv, RagTyped, Works, Streams
  <2>1. CASE PageDone
    <3> USE <2>1 DEF PageDone
    <3>1. ~work.live /\ saved'.cursor = Max(work.page)
      <4> DEFINE moved == IF work.live THEN saved
                          ELSE [saved EXCEPT !.cursor = Max(work.page), !.caughtUp = FALSE]
      <4>1. saved' = IF work.endPending THEN CatchUp(moved, work.stream.full) ELSE moved
        OBVIOUS
      <4>2. moved.cursor = IF work.live THEN saved.cursor ELSE Max(work.page)
        BY <2>0 DEF Saves
      <4>3. moved \in Saves
        <5>1. ~work.live => Max(work.page) \in Nat
          BY PageIsStored
        <5> QED BY <2>0, <5>1 DEF Saves
      <4> HIDE DEF moved
      <4>4. saved'.cursor = moved.cursor
        <5>1. CatchUp(moved, work.stream.full).cursor = moved.cursor
          BY ONLY <2>0, <4>3, CatchesUp
        <5> QED  BY ONLY <4>1, <5>1
      <4> QED BY <4>2, <4>4
    <3> QED BY <3>1, PageIsStored DEF Stored
  <2>2. CASE FetchFirst
    BY <2>0, <2>2, CatchesUp DEF FetchFirst
  <2>3. CASE SweepTime
    BY <2>0, <2>3 DEF SweepTime, Saves
  <2>4. CASE ~(PageDone \/ FetchFirst \/ SweepTime)
    BY <2>4 DEF RagNext, RagLoop, RagThreads, Poll, OpenStream, TakeLookahead, CollectBatch,
         StageLive, Encode, PassFails, StagerRaises, WriterRaises, RagRestart, RagCrash, FailPass,
         StagerCommits, WriterCommits, ThreadFails, Arrive, AgeOut
  <2> QED BY <2>1, <2>2, <2>3, <2>4
<1> QED
  BY RagInitial, RagStep, <1>1, PTL DEF CursorSound
==============================================================================
