----------------------------- MODULE S3Sync_proofs -----------------------------
(***************************************************************************)
(* A source that is recorded complete is whole, and a version that is      *)
(* acknowledged is assembled, for every walk, any changes of the files     *)
(* and any faults.                                                         *)
(***************************************************************************)
EXTENDS S3Sync, SequenceTheorems, TLAPS

Versions == [content : Seq(Nat), mtime : Nat]
\* Where a process has walked the source.
Walking == {"file", "hash", "upload", "sent", "error", "walked"}
Steps == {"off", "idle", "scan", "returned"} \cup Walking
IsPass(p) ==
    /\ DOMAIN p = {"at", "mode", "aborted", "snapshot", "index", "full", "complete", "failed",
                   "progress", "failure", "start"}
    /\ p.at \in Steps /\ p.snapshot \in Seq(Versions) /\ p.index \in Nat

S3Types ==
    /\ disk \in [S3Files -> Versions]
    /\ s3File \in [S3Files -> Versions]
    /\ IsPass(pass)

\* Two versions of one file with one time stamp are one version.
Agree(v, w) == v.mtime = w.mtime => v = w

\* A version that was read is not newer than the file.
Seen(f, v) == v.mtime <= disk[f].mtime /\ Agree(v, disk[f])

Snapshots ==
    /\ DOMAIN pass.snapshot = DOMAIN Walk
    /\ \A i \in DOMAIN Walk :
         /\ Seen(Walk[i], pass.snapshot[i])
         /\ Agree(pass.snapshot[i], s3File[Walk[i]])

IsAcknowledged(i) == s3File[Walk[i]] = pass.snapshot[i]

Progress ==
    /\ pass.at \in {"hash", "upload", "sent", "error"} => pass.index \in DOMAIN Walk
    /\ pass.at = "file" => pass.index \in 1..(Len(Walk) + 1)
    /\ pass.at = "scan" => pass.index = 1
    /\ pass.at = "walked" => ~pass.complete
    /\ pass.complete => \A i \in DOMAIN Walk : i < pass.index => IsAcknowledged(i)

WalkInv ==
    /\ S3Types
    /\ \A f \in S3Files : Seen(f, s3File[f])
    /\ pass.at = "scan" => pass.index = 1
    /\ pass.at \in Walking => Snapshots /\ Progress

----------------------------------------------------------------------------

LEMMA OffIsPass == IsPass(Off) /\ Off.at = "off" /\ Off.index = 1
  BY DEF Off, IsPass, Steps

LEMMA NoVersionIsOne == NoVersion \in Versions /\ NoVersion.mtime = 0
  BY DEF NoVersion, Versions

LEMMA S3Initial == S3Init => WalkInv
<1> SUFFICES ASSUME S3Init PROVE WalkInv
  OBVIOUS
<1> USE DEF S3Init
<1>1. PICK c \in Contents : disk = [f \in S3Files |-> [content |-> c, mtime |-> 1]]
  <2> DEFINE c0 == CHOOSE c \in Contents : Len(c) = 1
  <2>1. c0 \in Contents
    BY S3Assumption
  <2> HIDE DEF c0
  <2> QED
    BY <2>1 DEF c0
<1>2. c \in Seq(Nat)
  BY S3Assumption
<1>3. S3Types
  <2>1. [content |-> c, mtime |-> 1] \in Versions
    BY <1>2 DEF Versions
  <2> QED
    BY <1>1, <2>1, OffIsPass, NoVersionIsOne DEF S3Types
<1>4. \A f \in S3Files : Seen(f, s3File[f])
  BY <1>1 DEF Seen, Agree, NoVersion
<1>5. pass.at = "off"
  BY OffIsPass
<1> QED
  BY <1>3, <1>4, <1>5 DEF WalkInv, Walking

\* Steps that leave the files, the receipts and what was walked alone.
LEMMA S3Outside ==
  ASSUME WalkInv, UNCHANGED <<disk, s3File>>, IsPass(pass'),
         pass'.at \notin Walking, pass'.at = "scan" => pass'.index = 1
  PROVE  WalkInv'
<1>1. S3Types'
  BY DEF WalkInv, S3Types
<1>2. \A f \in S3Files : Seen(f, s3File[f])'
  BY DEF WalkInv, Seen, Agree
<1> QED
  BY <1>1, <1>2 DEF WalkInv

LEMMA S3Inside ==
  ASSUME WalkInv, UNCHANGED <<disk, s3File>>, IsPass(pass'),
         pass.at \in Walking, pass'.at \in Walking,
         pass'.snapshot = pass.snapshot, Progress'
  PROVE  WalkInv'
<1>1. S3Types'
  BY DEF WalkInv, S3Types
<1>2. \A f \in S3Files : Seen(f, s3File[f])'
  BY DEF WalkInv, Seen, Agree
<1>3. Snapshots'
  BY DEF WalkInv, Snapshots, Seen, Agree
<1> QED
  BY <1>1, <1>2, <1>3 DEF WalkInv, Walking

LEMMA S3Unchanged == WalkInv /\ UNCHANGED <<disk, s3File, pass>> => WalkInv'
  BY DEF WalkInv, S3Types, Seen, Agree, Snapshots, Progress, IsAcknowledged

LEMMA S3Starts ==
  ASSUME WalkInv, (\E mode \in {"daemon", "once"} : StartSync(mode)) \/ BeginPass
  PROVE  WalkInv'
<1>1. IsPass(pass')
  BY OffIsPass DEF StartSync, BeginPass, IsPass, Steps, WalkInv, S3Types
<1>2. pass'.at \in {"idle", "returned", "scan"} /\ pass'.index = 1
  BY OffIsPass DEF StartSync, BeginPass, IsPass
<1> QED
  BY <1>1, <1>2, S3Outside DEF StartSync, BeginPass, Walking, WalkInv, S3Types

LEMMA S3Ends ==
  ASSUME WalkInv, EndPass \/ Loop \/ S3Killed \/ ScanFails PROVE WalkInv'
<1>1. IsPass(pass')
  BY OffIsPass DEF EndPass, Loop, S3Killed, ScanFails, IsPass, Steps, WalkInv, S3Types
<1>2. UNCHANGED <<disk, s3File>> /\ pass'.at \in {"off", "idle", "returned"}
  BY OffIsPass DEF EndPass, Loop, S3Killed, ScanFails, IsPass, WalkInv, S3Types
<1> QED
  BY <1>1, <1>2, S3Outside DEF Walking

\* The walk sees every file as it is.
LEMMA S3Scanned == WalkInv /\ Scan => WalkInv'
<1> SUFFICES ASSUME WalkInv, Scan PROVE WalkInv'
  OBVIOUS
<1> USE DEF Scan, WalkInv
<1>1. /\ pass'.snapshot = [i \in DOMAIN Walk |-> disk[Walk[i]]]
      /\ pass'.at = "file" /\ pass'.index = 1
  BY DEF S3Types, IsPass
<1>2. \A i \in DOMAIN Walk : Walk[i] \in S3Files
  BY DEF S3Files
<1>3. pass'.snapshot \in Seq(Versions)
  BY <1>1, <1>2, S3Assumption DEF S3Types
<1>4. S3Types'
  BY <1>1, <1>3 DEF S3Types, IsPass, Steps, Walking
<1>5. \A f \in S3Files : Seen(f, s3File[f])'
  BY DEF Seen, Agree
<1>6. Snapshots'
  BY <1>1, <1>2 DEF Snapshots, Seen, Agree, S3Types, Versions
<1>7. Progress'
  BY <1>1, S3Assumption DEF Progress, IsAcknowledged
<1> QED
  BY <1>1, <1>4, <1>5, <1>6, <1>7

LEMMA S3Deferred == WalkInv /\ Defer => WalkInv'
<1> SUFFICES ASSUME WalkInv, Defer PROVE WalkInv'
  OBVIOUS
<1>1. IsPass(pass')
  BY DEF Defer, AtFile, WalkInv, S3Types, IsPass
<1>2. pass.index \in 1..Len(Walk)
  BY S3Assumption DEF Defer, AtFile, WalkInv, Progress, Walking
<1>3. Progress'
  BY <1>2, S3Assumption DEF Defer, AtFile, WalkInv, Progress, S3Types, IsPass
<1> QED
  BY <1>1, <1>3, S3Inside DEF Defer, AtFile, WalkInv, S3Types, IsPass, Walking

\* The metadata is enough because it belongs to one version.
LEMMA S3Skipped == WalkInv /\ SkipFile => WalkInv'
<1> SUFFICES ASSUME WalkInv, SkipFile PROVE WalkInv'
  OBVIOUS
<1>1. IsPass(pass')
  BY DEF SkipFile, WalkInv, S3Types, IsPass
<1>2. pass.at = "file" /\ pass.index \in 1..Len(Walk) /\ pass.index \in DOMAIN Walk
  BY S3Assumption DEF SkipFile, AtFile, WalkInv, Progress, Walking
<1>3. s3File[Walk[pass.index]].mtime = pass.snapshot[pass.index].mtime
  BY DEF SkipFile, KnownByMetadata, SameMetadata, File, Found
<1>4. IsAcknowledged(pass.index)
  BY <1>2, <1>3 DEF WalkInv, Walking, Snapshots, Agree, IsAcknowledged
<1>5. /\ pass'.at = "file" /\ pass'.index = pass.index + 1
      /\ pass'.snapshot = pass.snapshot /\ pass'.complete = pass.complete
  BY <1>2 DEF SkipFile, WalkInv, S3Types, IsPass
<1>6. pass.complete => \A i \in DOMAIN Walk : i < pass.index + 1 => IsAcknowledged(i)
  BY <1>2, <1>4, S3Assumption DEF WalkInv, Walking, Progress
<1>7. Progress'
  BY <1>2, <1>5, <1>6, S3Assumption DEF Progress, IsAcknowledged, SkipFile
<1> QED
  BY <1>1, <1>2, <1>5, <1>7, S3Inside DEF SkipFile, Walking

\* Steps between the walk of a file and the end of its upload.
LEMMA S3Moves ==
  ASSUME WalkInv, TakeFile \/ HashFails \/ Upload \/ UploadFails \/ ReceiptFails
  PROVE  WalkInv'
<1> USE DEF TakeFile, AtFile, HashFails, Upload, UploadFails, ReceiptFails
<1>1. pass.at \in Walking /\ pass.index \in DOMAIN Walk
  BY S3Assumption DEF WalkInv, Progress, Walking
<1>2. /\ IsPass(pass')
      /\ pass'.at \in {"hash", "sent", "error"} /\ pass'.snapshot = pass.snapshot
      /\ pass'.index = pass.index /\ pass'.complete = pass.complete
  BY DEF WalkInv, S3Types, IsPass, Steps, Walking
<1>3. UNCHANGED <<disk, s3File>>
  OBVIOUS
<1>4. Progress'
  BY <1>1, <1>2, <1>3 DEF WalkInv, Progress, IsAcknowledged
<1> QED
  BY <1>1, <1>2, <1>3, <1>4, S3Inside DEF Walking

\* The receipt of a file is the version that was walked.
LEMMA S3Acknowledged ==
  ASSUME WalkInv, pass.at \in {"hash", "sent"}, NEW uploaded \in BOOLEAN,
         Acknowledge(uploaded), UNCHANGED <<disk>>
  PROVE  WalkInv'
<1> DEFINE f == Walk[pass.index]
           v == pass.snapshot[pass.index]
<1>1. pass.at \in Walking /\ pass.index \in DOMAIN Walk /\ f \in S3Files
  BY DEF WalkInv, Progress, Walking, S3Files
<1>2. v \in Versions
  BY <1>1 DEF WalkInv, Snapshots, S3Types, IsPass
<1>3. s3File' = [s3File EXCEPT ![f] = v]
  BY DEF Acknowledge, File, Found
<1>4. /\ IsPass(pass')
      /\ pass'.at = "file" /\ pass'.snapshot = pass.snapshot
      /\ pass'.index = pass.index + 1 /\ pass'.complete = pass.complete
  BY DEF Acknowledge, WalkInv, S3Types, IsPass, Steps, Walking
<1>5. S3Types'
  BY <1>1, <1>2, <1>3, <1>4 DEF WalkInv, S3Types
<1>6. \A g \in S3Files : Seen(g, s3File[g])'
  BY <1>1, <1>3 DEF WalkInv, Snapshots, Seen, Agree, S3Types
<1>7. \A i \in DOMAIN Walk : s3File'[Walk[i]] = IF i = pass.index THEN v ELSE s3File[Walk[i]]
  BY <1>1, <1>3, S3Assumption DEF WalkInv, S3Types, S3Files
<1>8. Snapshots'
  BY <1>1, <1>4, <1>7 DEF WalkInv, Snapshots, Seen, Agree
<1>9. Progress'
  <2>1. pass.index + 1 \in 1..(Len(Walk) + 1)
    BY <1>1, S3Assumption
  <2>2. pass.complete => \A i \in DOMAIN Walk : i < pass.index + 1 => IsAcknowledged(i)'
    BY <1>1, <1>4, <1>7, S3Assumption DEF WalkInv, Progress, IsAcknowledged
  <2> QED
    BY <1>4, <2>1, <2>2 DEF Progress
<1> QED
  BY <1>4, <1>5, <1>6, <1>8, <1>9 DEF WalkInv

LEMMA S3Hashed == WalkInv /\ HashFile => WalkInv'
<1> SUFFICES ASSUME WalkInv, HashFile PROVE WalkInv'
  OBVIOUS
<1>1. CASE Unchanged(Acknowledged(File), Found)
  BY <1>1, S3Acknowledged DEF HashFile
<1>2. CASE ~Unchanged(Acknowledged(File), Found)
  <2>1. pass.at \in Walking /\ pass.index \in DOMAIN Walk /\ File \in S3Files
    BY DEF HashFile, WalkInv, Progress, Walking, S3Files, File
  <2>2. /\ IsPass(pass')
        /\ pass'.at = "upload" /\ pass'.snapshot = pass.snapshot
        /\ pass'.index = pass.index /\ pass'.complete = pass.complete
    BY <1>2 DEF HashFile, WalkInv, S3Types, IsPass, Steps, Walking
  <2>3. UNCHANGED <<disk, s3File>>
    BY <1>2 DEF HashFile
  <2>4. Progress'
    BY <2>1, <2>2, <2>3 DEF WalkInv, Progress, IsAcknowledged
  <2> QED
    BY <2>1, <2>2, <2>3, <2>4, S3Inside DEF Walking
<1> QED
  BY <1>1, <1>2

LEMMA S3Received == WalkInv /\ Receipt => WalkInv'
  BY S3Acknowledged DEF Receipt

LEMMA S3Failed == WalkInv /\ FileFails => WalkInv'
<1> SUFFICES ASSUME WalkInv, FileFails PROVE WalkInv'
  OBVIOUS
<1>1. /\ IsPass(pass')
      /\ pass'.at = "walked" /\ pass'.snapshot = pass.snapshot /\ ~pass'.complete
  BY DEF FileFails, WalkInv, S3Types, IsPass, Steps, Walking
<1>2. Progress'
  BY <1>1 DEF Progress
<1> QED
  BY <1>1, <1>2, S3Inside DEF FileFails, Walking

LEMMA S3Signalled == WalkInv /\ Signal => WalkInv'
<1> SUFFICES ASSUME WalkInv, Signal PROVE WalkInv'
  OBVIOUS
<1>1. /\ IsPass(pass')
      /\ pass'.at = pass.at /\ pass'.snapshot = pass.snapshot
      /\ pass'.index = pass.index /\ pass'.complete = pass.complete
  BY DEF Signal, WalkInv, S3Types, IsPass
<1>2. UNCHANGED <<disk, s3File>>
  BY DEF Signal
<1>3. CASE pass.at \in Walking
  <2>1. Progress'
    BY <1>1, <1>2, <1>3 DEF WalkInv, Progress, IsAcknowledged
  <2> QED
    BY <1>1, <1>2, <1>3, <2>1, S3Inside
<1>4. CASE pass.at \notin Walking
  BY <1>1, <1>2, <1>4, S3Outside DEF WalkInv, S3Types
<1> QED
  BY <1>3, <1>4

\* A changed file is newer than everything that was seen of it.
LEMMA S3Changed == ASSUME NEW f \in S3Files, WalkInv, Change(f) PROVE WalkInv'
<1> USE DEF Change, WalkInv
<1>1. PICK c \in Contents : disk' = [disk EXCEPT ![f] = [content |-> c, mtime |-> @.mtime + 1]]
  OBVIOUS
<1>2. c \in Seq(Nat)
  BY S3Assumption
<1>3. /\ disk' \in [S3Files -> Versions]
      /\ disk'[f].mtime = disk[f].mtime + 1
      /\ \A g \in S3Files \ {f} : disk'[g] = disk[g]
  BY <1>1, <1>2 DEF S3Types, Versions
<1>4. S3Types'
  BY <1>3 DEF S3Types
<1>5. ASSUME NEW g \in S3Files, NEW v \in Versions, Seen(g, v) PROVE Seen(g, v)'
  BY <1>3, <1>5 DEF Seen, Agree, S3Types, Versions
<1>6. \A g \in S3Files : Seen(g, s3File[g])'
  BY <1>3, <1>5 DEF S3Types, Seen, Agree, Versions
<1>7. pass.at \in Walking => Snapshots'
  <2> SUFFICES ASSUME pass.at \in Walking, NEW i \in DOMAIN Walk
               PROVE  /\ Seen(Walk[i], pass.snapshot[i])'
                      /\ Agree(pass.snapshot[i], s3File[Walk[i]])'
    BY DEF Snapshots
  <2>1. Walk[i] \in S3Files
    BY DEF S3Files
  <2>2. pass.snapshot[i] \in Versions
    BY DEF Snapshots, S3Types, IsPass
  <2>3. Seen(Walk[i], pass.snapshot[i])'
    BY <1>5, <2>1, <2>2 DEF Snapshots
  <2> QED
    BY <2>1, <2>3 DEF Snapshots, Agree
<1>8. pass.at \in Walking => Progress'
  BY DEF Progress, IsAcknowledged
<1> QED
  BY <1>4, <1>6, <1>7, <1>8

LEMMA S3Step == WalkInv /\ [S3Next]_s3vars => WalkInv'
<1> SUFFICES ASSUME WalkInv, [S3Next]_s3vars PROVE WalkInv'
  OBVIOUS
<1>1. CASE S3Process
  BY <1>1, S3Starts, S3Ends, S3Scanned, S3Deferred, S3Skipped, S3Moves, S3Hashed, S3Received,
     S3Failed DEF S3Process
<1>2. CASE \E mode \in {"daemon", "once"} : StartSync(mode)
  BY <1>2, S3Starts
<1>3. CASE Signal \/ S3Killed
  BY <1>3, S3Signalled, S3Ends
<1>4. CASE \E f \in S3Files \cup {WholeSource} : RetryS3(f) \/ RetryTime(f)
  BY <1>4, S3Unchanged DEF RetryS3, RetryTime
<1>5. CASE \E f \in S3Files : Change(f)
  BY <1>5, S3Changed
<1>6. CASE FullScanTime
  BY <1>6, S3Unchanged DEF FullScanTime
<1>7. CASE UNCHANGED s3vars
  BY <1>7, S3Unchanged DEF s3vars
<1> QED
  BY <1>1, <1>2, <1>3, <1>4, <1>5, <1>6, <1>7 DEF S3Next

\* A source is recorded complete only when every file of the walk is acknowledged in the
\* version that was walked, with changes during the walk, failures, signals and crashes
\* anywhere (cli.ts:719-724).
THEOREM CompleteSourceIsWhole == S3Init /\ [][S3Next]_s3vars => []CompleteIsWhole
<1>1. WalkInv => CompleteIsWhole
  <2> SUFFICES ASSUME WalkInv, Completes PROVE \A i \in DOMAIN Walk : s3File[Walk[i]] = pass.snapshot[i]
    BY DEF CompleteIsWhole
  <2>1. pass.at = "file" /\ pass.index > Len(Walk) /\ pass.complete
    BY DEF Completes, Walked, WalkInv, Progress, Walking, S3Types, IsPass
  <2>2. pass.index \in Nat /\ \A i \in DOMAIN Walk : i < pass.index => IsAcknowledged(i)
    BY <2>1 DEF WalkInv, Progress, Walking, S3Types, IsPass
  <2> QED
    BY <2>1, <2>2, S3Assumption DEF IsAcknowledged
<1> QED
  BY S3Initial, S3Step, <1>1, PTL

----------------------------------------------------------------------------
(* The receipts and what session-center has. *)

Rows == [version : Versions, count : Nat, exhausted : BOOLEAN, due : BOOLEAN]
ArchiveTypes ==
    /\ archive \in [S3Files -> Seq(Nat)]
    /\ s3Failure \in [S3Files \cup {WholeSource} -> Rows]
    /\ ahead \in [S3Files -> BOOLEAN] /\ forgotten \in [S3Files -> BOOLEAN]
    /\ pass.failure \in BOOLEAN /\ pass.start \in Nat

\* What session-center took is known of: by a failure row, or by the process that sent it.
Remembered(f) ==
    \/ s3Failure[f] # NoFailure
    \/ pass.at \in {"sent", "error"} /\ File = f
    \/ pass.at \in {"hash", "upload"} /\ File = f /\ pass.failure

\* An upload starts at the acknowledged bytes or at none, and what was sent makes the
\* version of the walk, unless the file has moved on.
Uploading == pass.at = "upload" => pass.start = UploadFrom(Acknowledged(File), Found)
Sent ==
    pass.at = "sent" /\ disk[File].mtime = Found.mtime /\ (forgotten[File] => pass.start = 0)
        => archive[File] = Found.content

\* Without a failure row there is nothing to distrust.
Trusting == pass.at \in {"hash", "upload"} /\ ~pass.failure => s3Failure[File] = NoFailure

ArchiveInv ==
    /\ ArchiveTypes
    /\ ReceiptArchived
    /\ \A f \in S3Files : ahead[f] /\ ~forgotten[f] => Remembered(f)
    /\ Trusting /\ Uploading /\ Sent

----------------------------------------------------------------------------

LEMMA OffIsIdle == Off.failure = FALSE /\ Off.failure \in BOOLEAN /\ Off.start = 0 /\ Off.start \in Nat
  BY DEF Off

LEMMA NoFailureIsRow == NoFailure \in Rows
  BY NoVersionIsOne DEF NoFailure, Rows

LEMMA SourceIsNoFile == WholeSource \notin S3Files
  BY S3Assumption DEF WholeSource, S3Files

\* A failure of one more version is a row of its own.
LEMMA FailureIsRow ==
  ASSUME NEW row \in Rows, NEW v \in Versions
  PROVE  FailureRow(row, v) \in Rows /\ FailureRow(row, v) # NoFailure
<1> DEFINE same == row # NoFailure /\ SameMetadata(row.version, v) /\ ~row.exhausted
           count == IF same THEN row.count + 1 ELSE 1
<1>1. count \in Nat /\ count > 0
  BY DEF Rows
<1>2. FailureRow(row, v) = [version |-> v, count |-> count, exhausted |-> count >= RetryAttempts,
                            due |-> FALSE]
  BY DEF FailureRow
<1> HIDE DEF count
<1>3. FailureRow(row, v) \in Rows
  BY <1>1, <1>2 DEF Rows
<1>4. FailureRow(row, v).count # NoFailure.count
  BY <1>1, <1>2 DEF NoFailure
<1> QED
  BY <1>3, <1>4

\* The bytes behind a prefix complete it.
LEMMA PrefixCompleted ==
  ASSUME NEW p \in Seq(Nat), NEW c \in Seq(Nat), IsPrefix(p, c)
  PROVE  Assembled(p, Len(p), SubSeq(c, Len(p) + 1, Len(c))) = c
<1> DEFINE b == SubSeq(c, Len(p) + 1, Len(c))
<1>1. Len(p) \in Nat /\ Len(c) \in Nat /\ Len(p) <= Len(c)
  BY DEF IsPrefix
<1>2. \A i \in 1..Len(p) : p[i] = c[i]
  <2> SUFFICES ASSUME NEW i \in 1..Len(p) PROVE p[i] = c[i]
    OBVIOUS
  <2>1. SubSeq(p, 1, Len(p)) = SubSeq(c, 1, Len(p))
    BY DEF IsPrefix
  <2>2. SubSeq(p, 1, Len(p))[i] = p[i] /\ SubSeq(c, 1, Len(p))[i] = c[i]
    BY <1>1
  <2> QED
    BY <2>1, <2>2
<1>3. SubSeq(p, 1, Len(p)) = p
  BY <1>1
<1>4. b \in Seq(Nat) /\ Len(b) = Len(c) - Len(p)
      /\ \A i \in 1..(Len(c) - Len(p)) : b[i] = c[i + Len(p)]
  BY <1>1
<1> HIDE DEF b
<1>5. /\ p \o b \in Seq(Nat) /\ Len(p \o b) = Len(c)
      /\ \A i \in 1..Len(c) : (p \o b)[i] = IF i <= Len(p) THEN p[i] ELSE b[i - Len(p)]
  BY <1>1, <1>4, ConcatProperties
<1>6. ASSUME NEW i \in 1..Len(c) PROVE (p \o b)[i] = c[i]
  <2>1. CASE i <= Len(p)
    BY <1>1, <1>2, <1>5, <2>1
  <2>2. CASE i > Len(p)
    <3>1. i - Len(p) \in 1..(Len(c) - Len(p)) /\ (i - Len(p)) + Len(p) = i
      BY <1>1, <2>2
    <3>2. (p \o b)[i] = b[i - Len(p)]
      BY <1>1, <1>5, <2>2
    <3>3. b[i - Len(p)] = c[(i - Len(p)) + Len(p)]
      BY <1>4, <3>1
    <3> QED
      BY <3>1, <3>2, <3>3
  <2>3. i <= Len(p) \/ i > Len(p)
    BY <1>1
  <2> QED
    BY <2>1, <2>2, <2>3
<1>7. p \o b = c
  BY <1>5, <1>6, SeqEqual
<1> QED
  BY <1>1, <1>3, <1>7 DEF Assembled, b

LEMMA WholeBody ==
  ASSUME NEW p \in Seq(Nat), NEW c \in Seq(Nat)
  PROVE  Assembled(p, 0, SubSeq(c, 1, Len(c))) = c
<1>1. Len(p) \in Nat /\ SubSeq(p, 1, 0) = <<>> /\ SubSeq(c, 1, Len(c)) = c
  OBVIOUS
<1> QED
  BY <1>1 DEF Assembled

LEMMA PartIsSeq ==
  ASSUME NEW c \in Seq(Nat), NEW m \in Nat, NEW n \in Nat, n <= Len(c)
  PROVE  SubSeq(c, m + 1, n) \in Seq(Nat)
<1>1. \A i \in (m + 1)..n : c[i] \in Nat
  OBVIOUS
<1> QED
  BY <1>1, SubSeqProperties

LEMMA AssembledIsSeq ==
  ASSUME NEW p \in Seq(Nat), NEW k \in Nat, NEW b \in Seq(Nat)
  PROVE  Assembled(p, k, b) \in Seq(Nat)
<1> DEFINE n == IF k <= Len(p) THEN k ELSE Len(p)
<1>1. n \in Nat /\ n <= Len(p)
  OBVIOUS
<1> HIDE DEF n
<1>2. SubSeq(p, 1, n) \in Seq(Nat)
  BY <1>1
<1>3. Assembled(p, k, b) = SubSeq(p, 1, n) \o b
  BY DEF Assembled, n
<1> QED
  BY <1>2, <1>3

----------------------------------------------------------------------------

LEMMA ArchiveInitial == S3Init => ArchiveInv
<1> SUFFICES ASSUME S3Init PROVE ArchiveInv
  OBVIOUS
<1> USE DEF S3Init
<1>1. ArchiveTypes
  <2>1. archive \in [S3Files -> Seq(Nat)]
    BY EmptySeq
  <2>2. s3Failure \in [S3Files \cup {WholeSource} -> Rows]
    BY NoFailureIsRow
  <2>3. ahead \in [S3Files -> BOOLEAN] /\ forgotten \in [S3Files -> BOOLEAN]
    OBVIOUS
  <2>4. pass.failure = FALSE /\ pass.start = 0
    BY OffIsIdle
  <2>5. pass.failure \in BOOLEAN
    BY <2>4, Zenon
  <2>6. pass.start \in Nat
    BY <2>4
  <2> QED
    BY <2>1, <2>2, <2>3, <2>5, <2>6, Zenon DEF ArchiveTypes
<1>2. ReceiptArchived
  BY DEF ReceiptArchived
<1> QED
  BY <1>1, <1>2, OffIsPass DEF ArchiveInv, Trusting, Uploading, Sent

\* The file under way is one of the walk, in a version that was read.
LEMMA AtWork ==
  ASSUME WalkInv, pass.at \in {"hash", "upload", "sent", "error"}
  PROVE  /\ File \in S3Files /\ Found \in Versions /\ Seen(File, Found)
         /\ Agree(Found, s3File[File])
<1>1. pass.index \in DOMAIN Walk /\ Snapshots
  BY DEF WalkInv, Walking, Progress
<1> QED
  BY <1>1 DEF File, Found, S3Files, Snapshots, WalkInv, S3Types, IsPass

\* Steps that send nothing, acknowledge nothing and forget nothing silently.
LEMMA ArchiveKept ==
  ASSUME ArchiveInv, ArchiveTypes', Trusting', UNCHANGED <<disk, archive, s3File, ahead>>,
         pass'.at \notin {"upload", "sent"},
         \A f \in S3Files : forgotten[f] => forgotten'[f],
         \A f \in S3Files : ahead[f] /\ ~forgotten'[f] => Remembered(f)'
  PROVE  ArchiveInv'
<1>1. ReceiptArchived'
  BY DEF ArchiveInv, ReceiptArchived
<1> QED
  BY <1>1 DEF ArchiveInv, Uploading, Sent

\* Steps of others, and those that only settle how the pass goes on.
LEMMA ArchiveRests ==
  ASSUME WalkInv, ArchiveInv, UNCHANGED <<disk, archive, s3File, ahead, forgotten>>, ArchiveTypes',
         \A f \in S3Files : s3Failure[f] # NoFailure <=> s3Failure'[f] # NoFailure,
         UNCHANGED <<pass.at, pass.index, pass.snapshot, pass.failure, pass.start>>
  PROVE  ArchiveInv'
<1>1. File' = File /\ Found' = Found
  BY DEF File, Found
<1>2. \A f \in S3Files : Remembered(f) => Remembered(f)'
  BY <1>1 DEF Remembered
<1>3. ReceiptArchived'
  BY DEF ArchiveInv, ReceiptArchived
<1>4. Uploading'
  BY <1>1 DEF ArchiveInv, Uploading, UploadFrom, Appends, Acknowledged
<1>5. Sent'
  BY <1>1 DEF ArchiveInv, Sent
<1>6. Trusting'
  BY <1>1, AtWork DEF ArchiveInv, Trusting
<1> QED
  BY <1>2, <1>3, <1>4, <1>5, <1>6 DEF ArchiveInv

\* A walk that begins, goes on or ends: what was taken is remembered by its failure row.
LEMMA ArchiveWalks ==
  ASSUME WalkInv, ArchiveInv,
         \/ \E mode \in {"daemon", "once"} : StartSync(mode)
         \/ BeginPass \/ Scan \/ ScanFails \/ Defer \/ SkipFile \/ EndPass \/ Loop
  PROVE  ArchiveInv'
<1> USE DEF StartSync, BeginPass, Scan, ScanFails, Defer, SkipFile, AtFile, EndPass, Walked, Loop
<1>1. UNCHANGED <<disk, archive, s3File, ahead, forgotten>>
  OBVIOUS
<1>2. pass.at \notin {"hash", "upload", "sent", "error"}
  OBVIOUS
<1>3. /\ pass'.at \notin {"hash", "upload", "sent", "error"}
      /\ pass'.failure \in BOOLEAN /\ pass'.start \in Nat
  <2>1. IsPass(pass) /\ pass.failure \in BOOLEAN /\ pass.start \in Nat
    BY DEF WalkInv, S3Types, ArchiveInv, ArchiveTypes
  <2>2. CASE (\E mode \in {"daemon", "once"} : StartSync(mode)) \/ BeginPass \/ EndPass \/ Loop
    <3>1. pass'.failure = Off.failure /\ pass'.start = Off.start
      BY <2>2, OffIsPass DEF IsPass
    <3>2. pass'.at \in {"idle", "returned", "scan", "off"}
      BY <2>2, OffIsPass DEF IsPass
    <3> QED
      BY <3>1, <3>2, OffIsIdle
  <2>3. CASE Scan \/ ScanFails \/ Defer \/ SkipFile
    <3>1. pass'.failure = pass.failure /\ pass'.start = pass.start /\ pass'.at \in {"file", "returned"}
      BY <2>1, <2>3 DEF IsPass
    <3> QED
      BY <2>1, <3>1
  <2> QED
    BY <2>2, <2>3, Zenon
<1>4. /\ s3Failure' \in [S3Files \cup {WholeSource} -> Rows]
      /\ \A f \in S3Files : s3Failure'[f] = s3Failure[f]
  <2>1. s3Failure \in [S3Files \cup {WholeSource} -> Rows]
    BY DEF ArchiveInv, ArchiveTypes
  <2>2. \/ s3Failure' = s3Failure
        \/ s3Failure' = [s3Failure EXCEPT ![WholeSource] = NoFailure]
        \/ s3Failure' = [s3Failure EXCEPT ![WholeSource] = FailureRow(@, NoVersion)]
    OBVIOUS
  <2>3. FailureRow(s3Failure[WholeSource], NoVersion) \in Rows
    BY <2>1, NoVersionIsOne, FailureIsRow
  <2> QED
    BY <2>1, <2>2, <2>3, NoFailureIsRow, SourceIsNoFile, ZenonT(30)
<1>5. ArchiveTypes'
  BY <1>1, <1>3, <1>4 DEF ArchiveInv, ArchiveTypes
<1>6. \A f \in S3Files : ahead[f] /\ ~forgotten'[f] => Remembered(f)'
  BY <1>1, <1>2, <1>4 DEF ArchiveInv, Remembered
<1> QED
  BY <1>1, <1>3, <1>5, <1>6, ArchiveKept DEF Trusting

\* A deleted failure row is remembered by the process that deleted it.
LEMMA ArchiveTakes == WalkInv /\ ArchiveInv /\ TakeFile => ArchiveInv'
<1> SUFFICES ASSUME WalkInv, ArchiveInv, TakeFile PROVE ArchiveInv'
  OBVIOUS
<1> USE DEF TakeFile, AtFile
<1>1. File \in S3Files
  BY S3Assumption DEF WalkInv, Walking, Progress, File, S3Files
<1>2. /\ pass'.at = "hash" /\ pass'.failure = (s3Failure[File] # NoFailure)
      /\ pass'.start = pass.start /\ pass'.index = pass.index
  BY DEF WalkInv, S3Types, IsPass
<1>3. File' = File
  BY <1>2 DEF File
<1>4. /\ s3Failure' \in [S3Files \cup {WholeSource} -> Rows]
      /\ \A f \in S3Files \ {File} : s3Failure'[f] = s3Failure[f]
  BY NoFailureIsRow DEF ArchiveInv, ArchiveTypes
<1>5. ArchiveTypes'
  BY <1>2, <1>4 DEF ArchiveInv, ArchiveTypes
<1>6. \A f \in S3Files : ahead[f] /\ ~forgotten[f] => Remembered(f)'
  BY <1>2, <1>3, <1>4 DEF ArchiveInv, Remembered
<1>7. Trusting'
  BY <1>1, <1>2, <1>3, NoFailureIsRow DEF Trusting, ArchiveInv, ArchiveTypes
<1> QED
  BY <1>2, <1>5, <1>6, <1>7, ArchiveKept

LEMMA ArchiveErrs ==
  ASSUME WalkInv, ArchiveInv, HashFails \/ UploadFails \/ ReceiptFails
  PROVE  ArchiveInv'
<1> USE DEF HashFails, UploadFails, ReceiptFails
<1>1. UNCHANGED <<disk, archive, s3File, s3Failure, ahead, forgotten>>
  OBVIOUS
<1>2. /\ pass.at \in {"hash", "upload", "sent"} /\ pass'.at = "error" /\ pass'.failure = pass.failure
      /\ pass'.start = pass.start /\ pass'.index = pass.index
  BY DEF WalkInv, S3Types, IsPass
<1>3. File' = File
  BY <1>2 DEF File
<1>4. ArchiveTypes'
  BY <1>1, <1>2 DEF ArchiveInv, ArchiveTypes
<1>5. \A f \in S3Files : ahead[f] /\ ~forgotten'[f] => Remembered(f)'
  BY <1>1, <1>2, <1>3 DEF ArchiveInv, Remembered
<1> QED
  BY <1>1, <1>2, <1>4, <1>5, ArchiveKept DEF Trusting

LEMMA ArchiveFails == WalkInv /\ ArchiveInv /\ FileFails => ArchiveInv'
<1> SUFFICES ASSUME WalkInv, ArchiveInv, FileFails PROVE ArchiveInv'
  OBVIOUS
<1> USE DEF FileFails
<1>1. File \in S3Files /\ Found \in Versions
  BY AtWork
<1>2. pass'.at = "walked" /\ pass'.failure = pass.failure /\ pass'.start = pass.start
  BY DEF WalkInv, S3Types, IsPass
<1>3. /\ s3Failure' \in [S3Files \cup {WholeSource} -> Rows]
      /\ s3Failure'[File] # NoFailure
      /\ \A f \in S3Files \ {File} : s3Failure'[f] = s3Failure[f]
  BY <1>1, FailureIsRow DEF ArchiveInv, ArchiveTypes
<1>4. ArchiveTypes'
  BY <1>2, <1>3 DEF ArchiveInv, ArchiveTypes
<1>5. \A f \in S3Files : ahead[f] /\ ~forgotten[f] => Remembered(f)'
  BY <1>3 DEF ArchiveInv, Remembered
<1> QED
  BY <1>2, <1>4, <1>5, ArchiveKept DEF Trusting

\* What a killed process or a cleared row was the last to know of is forgotten.
LEMMA ArchiveForgets ==
  ASSUME WalkInv, ArchiveInv, S3Killed \/ \E f \in S3Files \cup {WholeSource} : RetryS3(f)
  PROVE  ArchiveInv'
<1> USE DEF S3Killed, RetryS3
<1>1. UNCHANGED <<disk, archive, s3File, ahead>>
  OBVIOUS
<1>0. pass'.at = "off" /\ pass'.failure \in BOOLEAN /\ pass'.start \in Nat
  <2>1. CASE pass' = Off
    BY <2>1, OffIsPass, OffIsIdle, Zenon
  <2>2. CASE pass' = pass /\ pass.at = "off"
    BY <2>2 DEF ArchiveInv, ArchiveTypes
  <2> QED
    BY <2>1, <2>2
<1>2. s3Failure' \in [S3Files \cup {WholeSource} -> Rows]
  BY NoFailureIsRow DEF ArchiveInv, ArchiveTypes
<1>3. forgotten' = [f \in S3Files |-> forgotten[f] \/ (ahead[f] /\ s3Failure'[f] = NoFailure)]
  BY DEF Forget
<1>4. ArchiveTypes'
  <2>1. forgotten' \in [S3Files -> BOOLEAN]
    BY <1>3, Zenon DEF ArchiveInv, ArchiveTypes
  <2> QED
    BY <1>0, <1>1, <1>2, <2>1 DEF ArchiveInv, ArchiveTypes
<1>5. \A f \in S3Files : ahead[f] /\ ~forgotten'[f] => Remembered(f)'
  BY <1>3 DEF Remembered
<1>6. \A f \in S3Files : forgotten[f] => forgotten'[f]
  BY <1>3
<1> QED
  BY <1>0, <1>1, <1>4, <1>5, <1>6, ArchiveKept DEF Trusting

\* What is acknowledged is what session-center has.
LEMMA ArchiveAcknowledged ==
  ASSUME WalkInv, ArchiveInv, UNCHANGED <<disk, archive>>, NEW uploaded \in BOOLEAN,
         Acknowledge(uploaded), File \in S3Files, pass.at \in {"hash", "sent"},
         ~forgotten'[File] => archive[File] = Found.content
  PROVE  ArchiveInv'
<1> DEFINE f == File
<1>1. /\ s3File' = [s3File EXCEPT ![f] = Found]
      /\ s3Failure' = [s3Failure EXCEPT ![f] = NoFailure]
      /\ ahead' = [ahead EXCEPT ![f] = FALSE]
      /\ forgotten' = [forgotten EXCEPT ![f] = @ /\ ~(uploaded /\ pass.start = 0)]
  BY DEF Acknowledge
<1>2. pass'.at = "file" /\ pass'.failure = pass.failure /\ pass'.start = pass.start
  BY DEF Acknowledge, WalkInv, S3Types, IsPass
<1> HIDE DEF f
<1>3. f \in S3Files /\ s3File \in [S3Files -> Versions]
  BY DEF f, WalkInv, S3Types
<1>4. /\ s3Failure \in [S3Files \cup {WholeSource} -> Rows]
      /\ ahead \in [S3Files -> BOOLEAN] /\ forgotten \in [S3Files -> BOOLEAN]
  BY DEF ArchiveInv, ArchiveTypes
<1>5. \A g \in S3Files \ {f} : /\ s3File'[g] = s3File[g] /\ s3Failure'[g] = s3Failure[g]
                               /\ ahead'[g] = ahead[g] /\ forgotten'[g] = forgotten[g]
  BY <1>1, <1>3, <1>4
<1>6. s3File'[f] = Found /\ ahead'[f] = FALSE
  BY <1>1, <1>3, <1>4
<1>7. ArchiveTypes'
  <2>1. s3Failure' \in [S3Files \cup {WholeSource} -> Rows]
    BY <1>1, <1>4, NoFailureIsRow
  <2>2. ahead' \in [S3Files -> BOOLEAN] /\ forgotten' \in [S3Files -> BOOLEAN]
    BY <1>1, <1>4, Zenon
  <2>3. archive' \in [S3Files -> Seq(Nat)]
    BY DEF ArchiveInv, ArchiveTypes
  <2>4. pass'.failure \in BOOLEAN /\ pass'.start \in Nat
    BY <1>2 DEF ArchiveInv, ArchiveTypes
  <2> QED
    BY <2>1, <2>2, <2>3, <2>4 DEF ArchiveTypes
<1>8. ReceiptArchived'
  <2> SUFFICES ASSUME NEW g \in S3Files, s3File'[g] # NoVersion, ~ahead'[g], ~forgotten'[g]
               PROVE  archive'[g] = s3File'[g].content
    BY DEF ReceiptArchived
  <2>1. CASE g = f
    BY <1>6, <2>1 DEF f
  <2>2. CASE g # f
    BY <1>5, <2>2 DEF ArchiveInv, ReceiptArchived
  <2> QED
    BY <2>1, <2>2
<1>9. \A g \in S3Files : ahead'[g] /\ ~forgotten'[g] => Remembered(g)'
  <2> SUFFICES ASSUME NEW g \in S3Files, ahead'[g], ~forgotten'[g] PROVE Remembered(g)'
    OBVIOUS
  <2>1. g # f
    BY <1>6
  <2>2. Remembered(g)
    BY <1>5, <2>1 DEF ArchiveInv
  <2>3. s3Failure[g] # NoFailure
    BY <2>1, <2>2 DEF Remembered, f
  <2> QED
    BY <1>5, <2>1, <2>3 DEF Remembered
<1> QED
  BY <1>2, <1>7, <1>8, <1>9 DEF ArchiveInv, Trusting, Uploading, Sent

\* The acknowledged version is trusted only if nothing failed since, so it is there.
LEMMA AcknowledgedIsThere ==
  ASSUME WalkInv, ArchiveInv, pass.at \in {"hash", "upload"}, ~pass.failure,
         ~forgotten[File], s3File[File] # NoVersion
  PROVE  archive[File] = s3File[File].content
<1>1. File \in S3Files
  BY AtWork
<1>2. ~ahead[File]
  BY <1>1 DEF ArchiveInv, Trusting, Remembered
<1> QED
  BY <1>1, <1>2 DEF ArchiveInv, ReceiptArchived

LEMMA ArchiveHashes == WalkInv /\ ArchiveInv /\ HashFile => ArchiveInv'
<1> SUFFICES ASSUME WalkInv, ArchiveInv, HashFile PROVE ArchiveInv'
  OBVIOUS
<1>1. pass.at = "hash" /\ File \in S3Files /\ UNCHANGED <<disk, archive>>
  BY AtWork DEF HashFile
<1>2. CASE Unchanged(Acknowledged(File), Found)
  <2>1. Acknowledge(FALSE)
    BY <1>2 DEF HashFile
  <2>2. ~pass.failure /\ s3File[File] # NoVersion /\ s3File[File].content = Found.content
    BY <1>2 DEF Unchanged, Acknowledged
  <2>3. forgotten'[File] = forgotten[File]
    BY <1>1, <2>1 DEF Acknowledge, ArchiveInv, ArchiveTypes
  <2>4. ~forgotten'[File] => archive[File] = Found.content
    BY <1>1, <2>2, <2>3, AcknowledgedIsThere
  <2> QED
    BY <1>1, <2>1, <2>4, ArchiveAcknowledged
<1>3. CASE ~Unchanged(Acknowledged(File), Found)
  <2>1. /\ pass' = [pass EXCEPT !.at = "upload", !.start = UploadFrom(Acknowledged(File), Found)]
        /\ UNCHANGED <<disk, archive, s3File, s3Failure, ahead, forgotten>>
    BY <1>3 DEF HashFile
  <2>2. /\ pass'.at = "upload" /\ pass'.start = UploadFrom(Acknowledged(File), Found)
        /\ pass'.index = pass.index /\ pass'.snapshot = pass.snapshot /\ pass'.failure = pass.failure
    BY <2>1 DEF WalkInv, S3Types, IsPass
  <2>3. File' = File /\ Found' = Found /\ Acknowledged(File)' = Acknowledged(File)
    BY <2>1, <2>2 DEF File, Found, Acknowledged
  <2>4. UploadFrom(Acknowledged(File), Found) \in Nat
    <3>1. Acknowledged(File) \in Versions
      BY <1>1, NoVersionIsOne DEF Acknowledged, WalkInv, S3Types
    <3> QED
      BY <3>1 DEF UploadFrom, Versions
  <2>5. ArchiveTypes'
    BY <2>1, <2>2, <2>4 DEF ArchiveInv, ArchiveTypes
  <2>6. ReceiptArchived'
    BY <2>1 DEF ArchiveInv, ReceiptArchived
  <2>7. \A f \in S3Files : ahead'[f] /\ ~forgotten'[f] => Remembered(f)'
    BY <1>1, <2>1, <2>2, <2>3 DEF ArchiveInv, Remembered
  <2>8. Trusting' /\ Uploading' /\ Sent'
    BY <1>1, <2>1, <2>2, <2>3 DEF ArchiveInv, Trusting, Uploading, Sent
  <2> QED
    BY <2>5, <2>6, <2>7, <2>8 DEF ArchiveInv
<1> QED
  BY <1>2, <1>3

\* An append completes what is there, a complete version replaces it.
LEMMA UploadIsFound ==
  ASSUME WalkInv, ArchiveInv, Upload, disk[File].mtime = Found.mtime,
         forgotten[File] => pass.start = 0
  PROVE  archive'[File] = Found.content
<1>1. /\ pass.at = "upload" /\ File \in S3Files /\ Found \in Versions
      /\ Seen(File, Found)
  BY AtWork DEF Upload
<1>2. disk[File] = Found
  BY <1>1 DEF Seen, Agree
<1> DEFINE c == Found.content
           body == SubSeq(c, pass.start + 1, Len(c))
<1>3. c \in Seq(Nat) /\ archive[File] \in Seq(Nat)
  BY <1>1 DEF Versions, ArchiveInv, ArchiveTypes
<1>4. archive'[File] = Assembled(archive[File], pass.start, body)
  BY <1>1, <1>2 DEF Upload, ArchiveInv, ArchiveTypes
<1>5. pass.start = UploadFrom(Acknowledged(File), Found)
  BY <1>1 DEF ArchiveInv, Uploading
<1>6. CASE pass.start = 0
  <2>1. body = SubSeq(c, 1, Len(c))
    BY <1>6
  <2> QED
    BY <1>3, <1>4, <1>6, <2>1, WholeBody
<1>7. CASE pass.start # 0
  <2>1. Appends(Acknowledged(File), Found) /\ pass.start = Len(Acknowledged(File).content)
    BY <1>5, <1>7 DEF UploadFrom
  <2>2. /\ Acknowledged(File) = s3File[File] /\ ~pass.failure /\ s3File[File] # NoVersion
        /\ IsPrefix(s3File[File].content, c)
    BY <2>1 DEF Appends, Acknowledged
  <2>3. archive[File] = s3File[File].content
    BY <1>1, <1>7, <2>2, AcknowledgedIsThere
  <2>4. Assembled(archive[File], Len(archive[File]), SubSeq(c, Len(archive[File]) + 1, Len(c))) = c
    BY <1>3, <2>2, <2>3, PrefixCompleted
  <2> QED
    BY <1>4, <2>1, <2>2, <2>3, <2>4
<1> QED
  BY <1>6, <1>7

LEMMA ArchiveUploads == WalkInv /\ ArchiveInv /\ Upload => ArchiveInv'
<1> SUFFICES ASSUME WalkInv, ArchiveInv, Upload PROVE ArchiveInv'
  OBVIOUS
<1> USE DEF Upload
<1>1. /\ pass.at = "upload" /\ File \in S3Files /\ Found \in Versions
  BY AtWork
<1>2. /\ UNCHANGED <<disk, s3File, s3Failure, forgotten>>
      /\ ahead' = [ahead EXCEPT ![File] = TRUE]
  OBVIOUS
<1>3. /\ pass'.at \in {"sent", "error"} /\ pass'.failure = pass.failure /\ pass'.start = pass.start
      /\ pass'.index = pass.index /\ pass'.snapshot = pass.snapshot
  BY DEF WalkInv, S3Types, IsPass
<1>4. File' = File /\ Found' = Found
  BY <1>3 DEF File, Found
<1>5. \A g \in S3Files \ {File} : archive'[g] = archive[g] /\ ahead'[g] = ahead[g]
  BY DEF ArchiveInv, ArchiveTypes
<1>6. ahead'[File]
  BY <1>1, <1>2, Zenon DEF ArchiveInv, ArchiveTypes
<1>7. ArchiveTypes'
  <2>1. archive' \in [S3Files -> Seq(Nat)]
    <3> DEFINE body == SubSeq(disk[File].content, pass.start + 1, Len(Found.content))
    <3>1. disk[File].content \in Seq(Nat) /\ Found.content \in Seq(Nat) /\ pass.start \in Nat
      BY <1>1 DEF WalkInv, S3Types, Versions, ArchiveInv, ArchiveTypes
    <3>2. body \in Seq(Nat)
      <4>1. Len(Found.content) \in Nat /\ Len(Found.content) <= Len(disk[File].content)
        BY <3>1
      <4> QED
        BY <3>1, <4>1, PartIsSeq
    <3>3. Assembled(archive[File], pass.start, body) \in Seq(Nat)
      BY <1>1, <3>1, <3>2, AssembledIsSeq DEF ArchiveInv, ArchiveTypes
    <3> QED
      BY <3>3 DEF ArchiveInv, ArchiveTypes
  <2>2. ahead' \in [S3Files -> BOOLEAN] /\ forgotten' \in [S3Files -> BOOLEAN]
    BY <1>2, Zenon DEF ArchiveInv, ArchiveTypes
  <2> QED
    BY <1>2, <1>3, <2>1, <2>2 DEF ArchiveInv, ArchiveTypes
<1>8. ReceiptArchived'
  <2> SUFFICES ASSUME NEW g \in S3Files, s3File'[g] # NoVersion, ~ahead'[g], ~forgotten'[g]
               PROVE  archive'[g] = s3File'[g].content
    BY DEF ReceiptArchived
  <2>1. g # File
    BY <1>6
  <2> QED
    BY <1>2, <1>5, <2>1 DEF ArchiveInv, ReceiptArchived
<1>9. \A g \in S3Files : ahead'[g] /\ ~forgotten'[g] => Remembered(g)'
  <2> SUFFICES ASSUME NEW g \in S3Files, ahead'[g], ~forgotten'[g] PROVE Remembered(g)'
    OBVIOUS
  <2>1. CASE g = File
    BY <1>3, <1>4, <2>1 DEF Remembered
  <2>2. CASE g # File
    BY <1>1, <1>2, <1>5, <2>2 DEF ArchiveInv, Remembered
  <2> QED
    BY <2>1, <2>2
<1>10. Sent'
  <2> SUFFICES ASSUME disk[File].mtime = Found.mtime, forgotten[File] => pass.start = 0
               PROVE  archive'[File] = Found.content
    BY <1>2, <1>3, <1>4 DEF Sent
  <2> QED
    BY UploadIsFound
<1> QED
  BY <1>3, <1>7, <1>8, <1>9, <1>10 DEF ArchiveInv, Trusting, Uploading

\* The receipt is of what was sent, because the file has not moved since.
LEMMA ArchiveReceives == WalkInv /\ ArchiveInv /\ Receipt => ArchiveInv'
<1> SUFFICES ASSUME WalkInv, ArchiveInv, Receipt PROVE ArchiveInv'
  OBVIOUS
<1>1. pass.at = "sent" /\ File \in S3Files /\ Acknowledge(TRUE) /\ UNCHANGED <<disk, archive>>
  BY AtWork DEF Receipt
<1>2. disk[File].mtime = Found.mtime
  BY DEF Receipt, SameMetadata
<1>3. forgotten'[File] <=> forgotten[File] /\ pass.start # 0
  BY <1>1, Zenon DEF Acknowledge, ArchiveInv, ArchiveTypes
<1>4. ~forgotten'[File] => archive[File] = Found.content
  BY <1>1, <1>2, <1>3 DEF ArchiveInv, Sent
<1> QED
  BY <1>1, <1>4, ArchiveAcknowledged

LEMMA ArchiveWaits ==
  ASSUME WalkInv, ArchiveInv,
         Signal \/ FullScanTime \/ \E f \in S3Files \cup {WholeSource} : RetryTime(f)
  PROVE  ArchiveInv'
<1> USE DEF Signal, FullScanTime, RetryTime
<1>1. UNCHANGED <<disk, archive, s3File, ahead, forgotten>>
  OBVIOUS
<1>2. UNCHANGED <<pass.at, pass.index, pass.snapshot, pass.failure, pass.start>>
  BY DEF WalkInv, S3Types, IsPass
<1>3. /\ s3Failure' \in [S3Files \cup {WholeSource} -> Rows]
      /\ \A f \in S3Files : s3Failure[f] # NoFailure <=> s3Failure'[f] # NoFailure
  <2>1. s3Failure \in [S3Files \cup {WholeSource} -> Rows]
    BY DEF ArchiveInv, ArchiveTypes
  <2>2. CASE s3Failure' = s3Failure
    BY <2>1, <2>2
  <2>3. ASSUME NEW f \in S3Files \cup {WholeSource}, RetryTime(f)
        PROVE  /\ s3Failure' \in [S3Files \cup {WholeSource} -> Rows]
               /\ \A g \in S3Files : s3Failure[g] # NoFailure <=> s3Failure'[g] # NoFailure
    <3> DEFINE row == [s3Failure[f] EXCEPT !.due = TRUE]
    <3>1. row \in Rows /\ row.due = TRUE
      BY <2>1, ZenonT(30) DEF Rows
    <3>2. row # NoFailure
      BY <3>1, Zenon DEF NoFailure
    <3>3. s3Failure' = [s3Failure EXCEPT ![f] = row] /\ s3Failure[f] # NoFailure
      BY <2>3
    <3> HIDE DEF row
    <3> QED
      BY <2>1, <3>1, <3>2, <3>3
  <2> QED
    BY <2>2, <2>3
<1>4. ArchiveTypes'
  BY <1>1, <1>2, <1>3 DEF ArchiveInv, ArchiveTypes
<1> QED
  BY <1>1, <1>2, <1>3, <1>4, ArchiveRests

\* A file that changes has moved on from what was sent of it.
LEMMA ArchiveMovesOn == ASSUME NEW f \in S3Files, WalkInv, ArchiveInv, Change(f) PROVE ArchiveInv'
<1> USE DEF Change
<1>1. UNCHANGED <<archive, s3File, s3Failure, pass, ahead, forgotten>>
  OBVIOUS
<1>2. /\ disk'[f].mtime = disk[f].mtime + 1
      /\ \A g \in S3Files \ {f} : disk'[g] = disk[g]
  BY DEF WalkInv, S3Types, Versions
<1>3. File' = File /\ Found' = Found
  BY <1>1 DEF File, Found
<1>4. Sent'
  <2> SUFFICES ASSUME pass.at = "sent", disk'[File].mtime = Found.mtime,
                      forgotten[File] => pass.start = 0
               PROVE  archive[File] = Found.content
    BY <1>1, <1>3 DEF Sent
  <2>1. File \in S3Files /\ Found.mtime <= disk[File].mtime
        /\ Found.mtime \in Nat /\ disk[File].mtime \in Nat
    BY AtWork DEF Seen, WalkInv, S3Types, Versions
  <2>2. File # f
    BY <1>2, <2>1
  <2> QED
    BY <1>2, <2>1, <2>2 DEF ArchiveInv, Sent
<1> QED
  BY <1>1, <1>3, <1>4 DEF ArchiveInv, ArchiveTypes, ReceiptArchived, Remembered, Trusting, Uploading,
     Acknowledged, UploadFrom, Appends

LEMMA ArchiveStep == WalkInv /\ ArchiveInv /\ [S3Next]_s3vars => ArchiveInv'
<1> SUFFICES ASSUME WalkInv, ArchiveInv, [S3Next]_s3vars PROVE ArchiveInv'
  OBVIOUS
<1>1. CASE S3Process
  BY <1>1, ArchiveWalks, ArchiveTakes, ArchiveErrs, ArchiveFails, ArchiveHashes, ArchiveUploads,
     ArchiveReceives DEF S3Process
<1>2. CASE \E mode \in {"daemon", "once"} : StartSync(mode)
  BY <1>2, ArchiveWalks
<1>3. CASE Signal \/ S3Killed \/ FullScanTime
  BY <1>3, ArchiveWaits, ArchiveForgets
<1>4. CASE \E f \in S3Files \cup {WholeSource} : RetryS3(f) \/ RetryTime(f)
  BY <1>4, ArchiveForgets, ArchiveWaits
<1>5. CASE \E f \in S3Files : Change(f)
  BY <1>5, ArchiveMovesOn
<1>6. CASE UNCHANGED s3vars
  BY <1>6, ArchiveRests DEF s3vars, ArchiveInv, ArchiveTypes
<1> QED
  BY <1>1, <1>2, <1>3, <1>4, <1>5, <1>6 DEF S3Next

\* An acknowledged version is what session-center has assembled, whichever requests, answers
\* or processes were lost and however the files changed meanwhile, unless an acceptance was
\* forgotten (s3-sync.ts:49-62, cli.ts:685-699).
THEOREM ReceiptsAreArchived == S3Init /\ [][S3Next]_s3vars => []ReceiptArchived
<1>1. S3Init => WalkInv /\ ArchiveInv
  BY S3Initial, ArchiveInitial
<1>2. WalkInv /\ ArchiveInv /\ [S3Next]_s3vars => (WalkInv /\ ArchiveInv)'
  BY S3Step, ArchiveStep
<1>3. ArchiveInv => ReceiptArchived
  BY DEF ArchiveInv
<1> QED
  BY <1>1, <1>2, <1>3, PTL
=============================================================================
