----------------------------- MODULE MirrorSync -----------------------------
(***************************************************************************)
(* `sync run` with the Postgres transport for one source: the loop of      *)
(* syncRun and syncPass (src/scripts/cli.ts), the outbox and the revisions *)
(* in the local SQLite state (src/src/sync-state.ts), and the fenced       *)
(* uploads into the remote tables (src/src/postgres.ts).                   *)
(*                                                                         *)
(* A step of a worker runs from one await to the next, or to the next      *)
(* commit of the local state, so that it can be killed between two of them *)
(* and interleaves with a worker that runs at the same time.               *)
(***************************************************************************)
EXTENDS Naturals, FiniteSets, FiniteSetsExt, Listing

CONSTANTS
    Workers,             \* processes that run the sync
    Modes,               \* subset of {"daemon", "once"}
    OverlapAt,           \* where a worker may be when another one starts: nowhere, as long
                         \* as the lock excludes (see SyncLock)
    StableToken,         \* TRUE: /etc/machine-id is there, so workerToken survives a restart
    CrashPoints,         \* where a worker may be killed
    BatchSize,           \* sync.batch_size
    MaxBatches,          \* maxUploadBatchesPerSource
    MaxOutbox,           \* sync.max_outbox_bytes, in rows
    MaxFaults,           \* bound: crashes, signals, errors of the network and the disk
    Keys,                \* natural keys of the remote tables
    Values,              \* contents of a record
    FirstSources,        \* states the source can start in
    SourceMoves(_),      \* those that can follow one
    Fingerprint(_),      \* sourcePathFingerprint
    NoCheckpoint,        \* no checkpoint stored yet
    Discover(_, _, _, _) \* what discoverSource can return

NoWorker == "no worker"
Machine == "machine"
Gone == "a worker that ended"

Ops == {"upsert", "prefix", "snapshot_begin", "snapshot_end"}
Entries == [op : Ops, keys : SUBSET Keys, value : Values, marked : BOOLEAN]

\* enqueue marks the records of a snapshot, all those of a key, and writes the control
\* record that ends the snapshot after them.
Bracketed(entries) ==
    \A i \in DOMAIN entries :
        entries[i].op = "upsert" /\ entries[i].marked =>
            /\ \E j \in DOMAIN entries : i < j /\ entries[j].op # "upsert"
            /\ \A j \in DOMAIN entries :
                i < j /\ entries[j].keys = entries[i].keys
                /\ (\A k \in i .. j : entries[k].op = "upsert") => entries[j].marked

\* What an adapter returns: records and control records in the order in which they are
\* staged, whether there are control records, its checkpoint `cp`, and how it ended.
IsFound(found) ==
    /\ {found.forced, found.complete, found.hasMore, found.blocked, found.skipped} \subseteq BOOLEAN
    /\ found.rows \in Seq(Entries)
    /\ found.forced \/ \A i \in DOMAIN found.rows : ~found.rows[i].marked
    /\ Bracketed(found.rows)

Points == {"off", "poll", "discover", "lease", "fence", "claim", "claimed", "upload",
           "committed", "stored", "maintain", "finish"}

ASSUME MirrorAssumption ==
    /\ Modes \subseteq {"daemon", "once"}
    /\ StableToken \in BOOLEAN
    /\ OverlapAt \subseteq Points \ {"off"} /\ CrashPoints \subseteq Points \ {"off"}
    /\ BatchSize \in Nat /\ MaxBatches \in Nat /\ MaxOutbox \in Nat /\ MaxFaults \in Nat

VARIABLES
    source,      \* the source
    revision,    \* local_revision: records staged so far
    known,       \* remote_revision_high_water in the local state
    outbox,      \* rows of the outbox
    checkpoint,  \* source_cursor
    scan,        \* source_scan: {} or the fingerprint of the last complete scan
    aged,        \* whether that scan is older than rescan_interval_ms
    highWater,   \* remote_revision_high_water in Postgres
    lease,       \* [owner, live] of the source in Postgres
    table,       \* rows of the remote tables, rev 0 where there is none
    snapshot,    \* sync_snapshot_seen
    at,          \* at[w]: where worker w is
    job,         \* job[w]: the local variables of syncRun and syncPass
    faults,      \* faults so far
    log,         \* history: entries staged, in the order of their revisions
    applied,     \* history: entries applied to the remote tables
    past         \* history: two workers overlapped; a worker was killed "half" way, between
                 \* setRemoteRevision and acknowledge; a discovery was "over" the cap,
                 \* "partial", "blocked" because the source shrank, or "skipped" a file

local == <<revision, known, outbox, checkpoint, scan, aged>>
remote == <<highWater, lease, table, snapshot>>
history == <<log, applied, past>>
vars == <<source, local, remote, at, job, faults, history>>

NoJob == [once |-> FALSE, stopping |-> FALSE, failed |-> FALSE, progressed |-> FALSE,
          whole |-> FALSE, seen |-> {}, cp |-> NoCheckpoint, rows |-> {}, revision |-> 0,
          batch |-> 0]

NoRow == [rev |-> 0, live |-> FALSE, value |-> 0]
EmptyTable == [k \in Keys |-> NoRow]

Running(w) == at[w] # "off"
Token(w) == IF StableToken THEN Machine ELSE w

Init ==
    /\ source \in FirstSources
    /\ revision = 0 /\ known = 0
    /\ outbox = {}
    /\ checkpoint = NoCheckpoint
    /\ scan = {} /\ aged = FALSE
    /\ highWater = 0
    /\ lease = [owner |-> NoWorker, live |-> FALSE]
    /\ table = EmptyTable
    /\ snapshot = {}
    /\ at = [w \in Workers |-> "off"]
    /\ job = [w \in Workers |-> NoJob]
    /\ faults = 0
    /\ log = <<>> /\ applied = <<>> /\ past = {}

Goto(w, point) == at' = [at EXCEPT ![w] = point]

\* The process ends; without a machine-id its token is never used again.
End(w) ==
    /\ Goto(w, "off")
    /\ job' = [job EXCEPT ![w] = NoJob]
    /\ lease' = IF ~StableToken /\ lease.owner = w THEN [lease EXCEPT !.owner = Gone] ELSE lease

Fault == faults < MaxFaults /\ faults' = faults + 1

----------------------------------------------------------------------------
(* The outbox *)

Ready(rows) == {r \in rows : r.state = "ready"}

\* Mutant: one row too many.
DropThroughNext(rows, rev) == {r \in rows : r.rev > rev + 1}
DropThrough(rows, rev) == {r \in rows : r.rev > rev}

\* id integer primary key: the largest id in the table plus one.
NextId(rows) == IF rows = {} THEN 1 ELSE 1 + Max({r.id : r \in rows})

\* normalized_record keeps a record as long as the outbox has a row for its key.
Staged(rows, entry) ==
    \E r \in rows :
        /\ r.entry.op = "upsert" /\ r.entry.keys = entry.keys /\ r.entry.value = entry.value
        /\ \A q \in rows : q.entry.op = "upsert" /\ q.entry.keys = entry.keys => q.rev <= r.rev

\* The entries of a discovery that are staged: all of them when there are control
\* records, otherwise those that differ from what is staged already.
Fresh(rows, found) ==
    IF found.forced THEN found.rows
    ELSE Keep(found.rows, {e \in Entries : ~Staged(rows, e)})

Enqueued(rows, entries) ==
    rows \cup {[id |-> NextId(rows) + i - 1, rev |-> revision + i, entry |-> entries[i],
                state |-> "ready"] : i \in DOMAIN entries}

\* claim: ready rows that continue `after` without a gap.
Claimable(rows, after) ==
    {r \in Ready(rows) :
        /\ r.rev \in after + 1 .. after + BatchSize
        /\ \A n \in after + 1 .. r.rev : \E q \in Ready(rows) : q.rev = n}

SetState(rows, ids, state) ==
    {IF r.id \in ids THEN [r EXCEPT !.state = state] ELSE r : r \in rows}
Ids(rows) == {r.id : r \in rows}

----------------------------------------------------------------------------
(* The remote tables *)

\* One row: a control record, or an upsert that the guard
\* excluded.record_revision > record_revision lets through.
ApplyRow(state, r) ==
    LET tombstone(keys) ==
            [k \in Keys |-> IF k \in keys /\ state.table[k].live
                            THEN [state.table[k] EXCEPT !.live = FALSE, !.rev = r.rev]
                            ELSE state.table[k]]
    IN CASE r.entry.op = "prefix" -> [state EXCEPT !.table = tombstone(r.entry.keys)]
         [] r.entry.op = "snapshot_begin" -> [state EXCEPT !.snapshot = {}]
         [] r.entry.op = "snapshot_end" ->
                [table |-> tombstone(r.entry.keys \ state.snapshot), snapshot |-> {}]
         [] OTHER ->
                [table |-> [k \in Keys |->
                                IF k \in r.entry.keys /\ r.rev > state.table[k].rev
                                THEN [rev |-> r.rev, live |-> TRUE, value |-> r.entry.value]
                                ELSE state.table[k]],
                 snapshot |-> IF r.entry.marked THEN state.snapshot \cup r.entry.keys
                              ELSE state.snapshot]

\* deduplicateRemoteKeys: between two control records only the last row of a key counts.
Superseded(rows, r) ==
    \E q \in rows :
        /\ r.entry.op = "upsert" /\ q.entry.op = "upsert"
        /\ q.rev > r.rev /\ q.entry.keys = r.entry.keys
        /\ \A c \in rows : c.rev \in r.rev .. q.rev => c.entry.op = "upsert"

\* The rows of the `count` revisions above low, in the order of their revisions.
ApplyAll(rows, state, low, count) ==
    LET after[n \in 0 .. count] ==
          IF n = 0 THEN state
          ELSE IF \E r \in rows : r.rev = low + n
          THEN ApplyRow(after[n - 1], CHOOSE r \in rows : r.rev = low + n)
          ELSE after[n - 1]
    IN after[count]

\* Mutant: the control records after the data records.
UpsertThenControl(rows) ==
    ApplyAll({r \in rows : r.entry.op # "upsert"},
             ApplyAll({r \in rows : r.entry.op = "upsert"},
                      [table |-> table, snapshot |-> snapshot], highWater, Cardinality(rows)),
             highWater, Cardinality(rows))

UpsertRecords(rows) ==
    ApplyAll({r \in rows : ~Superseded(rows, r)},
             [table |-> table, snapshot |-> snapshot], highWater, Cardinality(rows))

----------------------------------------------------------------------------
(* The environment *)

SourceChanges ==
    /\ source' \in SourceMoves(source)
    /\ UNCHANGED <<local, remote, at, job, faults, history>>

\* A claim's lease, or the delay of failed rows, runs out: the rows of a claim share it.
RowsReady ==
    /\ \E state \in {"leased", "failed"} :
        LET due == {r \in outbox : r.state = state}
        IN due # {} /\ outbox' = SetState(outbox, Ids(due), "ready")
    /\ UNCHANGED <<source, revision, known, checkpoint, scan, aged, remote, at, job, faults, history>>

\* rescan_interval_ms
ScanAges ==
    /\ scan # {} /\ ~aged
    /\ aged' = TRUE
    /\ UNCHANGED <<source, revision, known, outbox, checkpoint, scan, remote, at, job, faults, history>>

\* 30 seconds without an upload, which may take longer.
LeaseLapses ==
    /\ lease.live
    /\ lease' = [lease EXCEPT !.live = FALSE]
    /\ UNCHANGED <<source, local, highWater, table, snapshot, at, job, faults, history>>

Start(w) ==
    /\ ~Running(w)
    /\ \A v \in Workers : at[v] \in OverlapAt \cup {"off"}
    /\ \E mode \in Modes : job' = [job EXCEPT ![w].once = (mode = "once")]
    /\ Goto(w, "poll")
    /\ past' = IF \E v \in Workers : Running(v) THEN past \cup {"overlap"} ELSE past
    /\ UNCHANGED <<source, local, remote, faults, log, applied>>

Crash(w) ==
    /\ at[w] \in CrashPoints
    /\ Fault
    /\ End(w)
    /\ past' = IF at[w] = "stored" THEN past \cup {"half"} ELSE past
    /\ UNCHANGED <<source, local, highWater, table, snapshot, log, applied>>

\* SIGTERM, SIGINT
Signal(w) ==
    /\ Running(w) /\ ~job[w].stopping
    /\ Fault
    /\ job' = [job EXCEPT ![w].stopping = TRUE]
    /\ UNCHANGED <<source, local, remote, at, history>>

\* `installation adopt`, which does not take the lock.
Adopt ==
    /\ known' = highWater
    /\ outbox' = DropThrough(outbox, highWater)
    /\ <<known, outbox>>' # <<known, outbox>>
    /\ UNCHANGED <<source, revision, checkpoint, scan, aged, remote, at, job, faults, history>>

----------------------------------------------------------------------------
(* syncRun and syncPass *)

\* The end of a pass: syncRun returns, or sleeps and polls again.
LeavePass(w, j, rows) ==
    IF j.stopping \/ (j.once /\ (j.failed \/ (~j.progressed /\ rows = {})))
    THEN End(w)
    ELSE /\ Goto(w, "poll")
         /\ job' = [job EXCEPT ![w] = [NoJob EXCEPT !.once = j.once]]
         /\ UNCHANGED lease

Skippable(w) ==
    /\ ~job[w].once
    /\ scan = {Fingerprint(source)} /\ ~aged
    /\ Ready(outbox) = {}

Backpressure == 4 * Cardinality(outbox) >= 3 * MaxOutbox

\* shouldSkipSource: unchanged, and nothing owed.
SkipSource(w) ==
    /\ at[w] = "poll"
    /\ job[w].stopping \/ Skippable(w)
    /\ LeavePass(w, job[w], outbox)
    /\ UNCHANGED <<source, local, highWater, table, snapshot, faults, history>>

OpenSource(w) ==
    /\ at[w] = "poll"
    /\ ~job[w].stopping /\ ~Skippable(w)
    /\ job' = [job EXCEPT ![w].seen = {source}, ![w].cp = checkpoint]
    /\ Goto(w, IF Backpressure THEN "lease" ELSE "discover")
    /\ UNCHANGED <<source, local, remote, faults, history>>

\* The source could not be read.
DiscoverFails(w) ==
    /\ at[w] = "discover"
    /\ \/ Fault
       \/ /\ \E seen \in job[w].seen : Discover(job[w].cp, seen, source, job[w].stopping) = {}
          /\ UNCHANGED faults
    /\ Goto(w, "finish")
    /\ job' = [job EXCEPT ![w].failed = TRUE]
    /\ UNCHANGED <<source, local, remote, history>>

\* discoverSource and enqueue: over the cap nothing is staged, checkpoint included.
Stage(w) ==
    /\ at[w] = "discover"
    /\ \E seen \in job[w].seen :
        \E found \in Discover(job[w].cp, seen, source, job[w].stopping) :
            /\ IsFound(found)
            /\ \E entries \in {Fresh(outbox, found)} : \E rows \in {Enqueued(outbox, entries)} :
               \/ /\ Cardinality(rows) > MaxOutbox
                  /\ Goto(w, "finish")
                  /\ job' = [job EXCEPT ![w].failed = TRUE, ![w].whole = found.complete]
                  /\ past' = past \cup {"over"}
                  /\ UNCHANGED <<local, lease, log>>
               \/ /\ Cardinality(rows) <= MaxOutbox
                  /\ outbox' = rows
                  /\ revision' = revision + Len(entries)
                  /\ log' = log \o entries
                  /\ checkpoint' = found.cp
                  /\ past' = past \cup (IF found.hasMore THEN {"partial"} ELSE {})
                                  \cup (IF found.blocked THEN {"blocked"} ELSE {})
                                  \cup (IF found.skipped THEN {"skipped"} ELSE {})
                  /\ IF job[w].stopping
                     THEN End(w)
                     ELSE /\ Goto(w, "lease")
                          /\ job' = [job EXCEPT ![w].whole = found.complete,
                                                ![w].progressed = found.rows # <<>>]
                          /\ UNCHANGED lease
                  /\ UNCHANGED <<known, scan, aged>>
    /\ UNCHANGED <<source, highWater, table, snapshot, faults, applied>>

\* The catch blocks: rows that were claimed are failed, whatever has their ids by now.
Throw(w) ==
    /\ outbox' = SetState(outbox, Ids(job[w].rows), "failed")
    /\ job' = [job EXCEPT ![w].failed = TRUE, ![w].rows = {}]
    /\ Goto(w, "finish")

NetworkError(w) ==
    /\ at[w] \in {"lease", "fence", "upload"}
    /\ Fault
    /\ Throw(w)
    /\ UNCHANGED <<source, revision, known, checkpoint, scan, aged, remote, history>>

LeaseIsMine(w) == lease.owner \in {NoWorker, Token(w)} \/ ~lease.live

\* ensureRemoteSource
EnsureRemoteSource(w) ==
    /\ at[w] = "lease" /\ LeaseIsMine(w)
    /\ lease' = [owner |-> Token(w), live |-> TRUE]
    /\ Goto(w, "fence")
    /\ UNCHANGED <<source, local, highWater, table, snapshot, job, faults, history>>

LeaseRefused(w) ==
    /\ at[w] = "lease" /\ ~LeaseIsMine(w)
    /\ Throw(w)
    /\ UNCHANGED <<source, revision, known, checkpoint, scan, aged, remote, faults, history>>

\* Mutant: the local state is believed.
ReadLocalFence(w) ==
    /\ at[w] = "fence"
    /\ job' = [job EXCEPT ![w].revision = known]
    /\ Goto(w, "claim")
    /\ UNCHANGED <<source, local, remote, faults, history>>

\* readRemoteFence and reconcileCommitted
ReadRemoteFence(w) ==
    /\ at[w] = "fence"
    /\ highWater <= revision
    /\ IF highWater > known
       THEN known' = highWater /\ outbox' = DropThrough(outbox, highWater)
       ELSE UNCHANGED <<known, outbox>>
    /\ job' = [job EXCEPT ![w].revision = highWater]
    /\ Goto(w, "claim")
    /\ UNCHANGED <<source, revision, checkpoint, scan, aged, remote, faults, history>>

\* Mutant: as many batches as there are.
ClaimAll(w) ==
    /\ at[w] = "claim"
    /\ LET rows == Claimable(outbox, job[w].revision)
       IN IF ~job[w].stopping /\ rows # {}
          THEN job' = [job EXCEPT ![w].rows = rows] /\ Goto(w, "claimed")
          ELSE job' = [job EXCEPT ![w].rows = {}] /\ Goto(w, "maintain")
    /\ UNCHANGED <<source, local, remote, faults, history>>

Claim(w) ==
    /\ at[w] = "claim"
    /\ LET rows == Claimable(outbox, job[w].revision)
       IN IF job[w].batch < MaxBatches /\ ~job[w].stopping /\ rows # {}
          THEN job' = [job EXCEPT ![w].rows = rows] /\ Goto(w, "claimed")
          ELSE job' = [job EXCEPT ![w].rows = {}] /\ Goto(w, "maintain")
    /\ UNCHANGED <<source, local, remote, faults, history>>

\* claim leases row by row: a row that was taken meanwhile is left out.
LeaseRows(w) ==
    /\ at[w] = "claimed"
    /\ LET open == {r.id : r \in {q \in outbox : q.state # "leased"}}
           rows == {r \in job[w].rows : r.id \in open}
       IN /\ outbox' = SetState(outbox, Ids(rows), "leased")
          /\ job' = [job EXCEPT ![w].rows = rows]
          /\ Goto(w, IF rows = {} THEN "maintain" ELSE "upload")
    /\ UNCHANGED <<source, revision, known, checkpoint, scan, aged, remote, faults, history>>

\* Mutant: only the rows are checked.
FencePassesAnyRevision(w) ==
    {r.rev : r \in job[w].rows} = job[w].revision + 1 .. job[w].revision + Cardinality(job[w].rows)

\* Owner, revision and contiguous rows (uploadFenced).
FencePasses(w) ==
    /\ lease.owner = Token(w)
    /\ highWater = job[w].revision
    /\ {r.rev : r \in job[w].rows} = highWater + 1 .. highWater + Cardinality(job[w].rows)

Commit(w) ==
    /\ FencePasses(w)
    /\ LET rows == job[w].rows
       IN /\ \E after \in {UpsertRecords(rows)} :
                table' = after.table /\ snapshot' = after.snapshot
          /\ highWater' = job[w].revision + Cardinality(rows)
          /\ applied' = applied \o [i \in 1 .. Cardinality(rows) |->
                (CHOOSE r \in rows : r.rev = job[w].revision + i).entry]
    /\ lease' = [lease EXCEPT !.live = TRUE]

UploadFenced(w) ==
    /\ at[w] = "upload"
    /\ Commit(w)
    /\ job' = [job EXCEPT ![w].revision = highWater']
    /\ Goto(w, "committed")
    /\ UNCHANGED <<source, local, faults, log, past>>

\* The transaction commits and the answer is lost.
ReplyLost(w) ==
    /\ at[w] = "upload"
    /\ Commit(w)
    /\ Fault
    /\ Throw(w)
    /\ UNCHANGED <<source, revision, known, checkpoint, scan, aged, log, past>>

FenceFails(w) ==
    /\ at[w] = "upload" /\ ~FencePasses(w)
    /\ Throw(w)
    /\ UNCHANGED <<source, revision, known, checkpoint, scan, aged, remote, faults, history>>

SetRemoteRevision(w) ==
    /\ at[w] = "committed"
    /\ known' = job[w].revision
    /\ Goto(w, "stored")
    /\ UNCHANGED <<source, revision, outbox, checkpoint, scan, aged, remote, job, faults, history>>

\* By id, whatever row has it by now.
Acknowledge(w) ==
    /\ at[w] = "stored"
    /\ outbox' = {r \in outbox : r.id \notin Ids(job[w].rows)}
    /\ job' = [job EXCEPT ![w].progressed = TRUE, ![w].batch = @ + 1]
    /\ Goto(w, "claim")
    /\ UNCHANGED <<source, revision, known, checkpoint, scan, aged, remote, faults, history>>

\* purgeRemoteTombstones, when it is due.
Maintain(w) ==
    /\ at[w] = "maintain"
    /\ \E purged \in {{}, {k \in Keys : ~table[k].live}} :
        table' = [k \in Keys |-> IF k \in purged THEN NoRow ELSE table[k]]
    /\ Goto(w, "finish")
    /\ UNCHANGED <<source, local, highWater, lease, snapshot, job, faults, history>>

\* recordSourceComplete, and the end of the pass.
Finish(w) ==
    /\ at[w] = "finish"
    /\ IF job[w].whole
       THEN scan' = {Fingerprint(seen) : seen \in job[w].seen} /\ aged' = FALSE
       ELSE UNCHANGED <<scan, aged>>
    /\ LeavePass(w, job[w], outbox)
    /\ UNCHANGED <<source, revision, known, outbox, checkpoint, highWater, table, snapshot, faults,
                   history>>

----------------------------------------------------------------------------
(* Specification *)

Step(w) ==
    \/ SkipSource(w) \/ OpenSource(w) \/ DiscoverFails(w) \/ Stage(w)
    \/ EnsureRemoteSource(w) \/ LeaseRefused(w) \/ ReadRemoteFence(w)
    \/ Claim(w) \/ LeaseRows(w)
    \/ UploadFenced(w) \/ ReplyLost(w) \/ FenceFails(w) \/ NetworkError(w)
    \/ SetRemoteRevision(w) \/ Acknowledge(w) \/ Maintain(w) \/ Finish(w)

Next ==
    \/ SourceChanges \/ RowsReady \/ ScanAges \/ LeaseLapses \/ Adopt
    \/ \E w \in Workers : Start(w) \/ Crash(w) \/ Signal(w) \/ Step(w)

Spec == Init /\ [][Next]_vars

\* A process that runs goes on, time passes, and the sync is started again when no
\* worker runs (Restart=on-failure in the unit, or the user).  The source, a user who
\* adopts, and faults are under no obligation.
Fairness ==
    /\ \A w \in Workers : WF_vars(Step(w))
    /\ WF_vars(RowsReady) /\ WF_vars(ScanAges) /\ WF_vars(LeaseLapses)
    /\ WF_vars((\A w \in Workers : ~Running(w)) /\ \E w \in Workers : Start(w))

FairSpec == Spec /\ Fairness

----------------------------------------------------------------------------
(* Properties *)

MirrorTypeOK ==
    /\ revision \in Nat /\ known \in Nat /\ highWater \in Nat
    /\ outbox \subseteq [id : Nat \ {0}, rev : Nat \ {0}, entry : Entries,
                         state : {"ready", "leased", "failed"}]
    /\ aged \in BOOLEAN
    /\ lease \in [owner : {NoWorker, Machine, Gone} \cup Workers, live : BOOLEAN]
    /\ table \in [Keys -> [rev : Nat, live : BOOLEAN, value : {0} \cup Values]]
    /\ snapshot \subseteq Keys
    /\ at \in [Workers -> Points]
    /\ DOMAIN job = Workers
    /\ \A w \in Workers : job[w].revision \in Nat /\ job[w].batch \in 0 .. MaxBatches
    /\ faults \in 0 .. MaxFaults

\* Every staged record is applied exactly once and in the order in which it was staged,
\* whatever overlaps, is killed, or gets no answer (uploadFenced, reconcileCommitted).
\* The local state never claims more than what was applied.
AppliedInOrder ==
    /\ Len(log) = revision
    /\ highWater <= revision /\ known <= highWater
    /\ applied = SubSeq(log, 1, highWater)

\* The same as a refinement of what the mirror promises.
Mirror == INSTANCE OrderedMirror
MirrorsLog == Mirror!MirrorSpec

\* What the remote tables show is what one gets by applying the records one by one:
\* batches, the rows dropped from them as duplicates, the revision guards of the upserts
\* and purged tombstones make no difference (postgres.ts:93-250).
LiveRows(rows) == {[key |-> k, value |-> rows[k].value] : k \in {q \in Keys : rows[q].live}}
Replay ==
    ApplyAll({[rev |-> i, entry |-> applied[i]] : i \in 1 .. Len(applied)},
             [table |-> EmptyTable, snapshot |-> {}], 0, Len(applied))
TableIsReplay == LiveRows(table) = LiveRows(Replay.table)

\* A record that was not applied is in the outbox: an acknowledgement, a reconciliation or
\* an adoption never removes one, as long as two workers do not overlap.
NothingLost ==
    "overlap" \notin past =>
        \A n \in highWater + 1 .. revision : \E r \in outbox : r.rev = n /\ r.entry = log[n]

\* The outbox becomes empty again and again, so `sync run --once` can end (cli.ts:500-502),
\* unless two workers overlapped, a worker was killed between setRemoteRevision and
\* acknowledge, or a discovery did not fit.
OutboxDrains ==
    []<>(outbox = {} \/ past \cap {"overlap", "half", "over"} # {})

\* The same without the exception for a kill (sync-state.test.ts:120, cli.ts:500-502).
OutboxDrainsAfterKill == []<>(outbox = {} \/ past \cap {"overlap", "over"} # {})
=============================================================================
