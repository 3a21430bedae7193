-------------------------------- MODULE S3Sync --------------------------------
(* The S3 transport of the sync command (cli.ts syncS3Pass, s3-sync.ts): one source is
   walked, every changed file is hashed and sent to session-center as an append or as a
   complete version, and the acknowledged version is stored as a local hint. The process
   may be killed or told to stop at any step, files change at any time, a request may be
   lost before or after session-center took it.

   A file is a sequence of blocks; its time stamp is a counter that every change moves.
   Hashes are the content itself. Time is two facts that become true: a retry is due, a
   full scan is due. The sync lock (SyncLock) leaves one process at a time.              *)
EXTENDS Naturals, Sequences, FiniteSets, SequencesExt

CONSTANTS
    Walk,            \* the source's files in the order of the walk
    Contents,        \* what a file can contain: sequences of blocks
    RetryAttempts,   \* config.sync.failure_retry_attempts
    Refused,         \* the files session-center never accepts
    MaxS3Changes,    \* bound: changes of files
    MaxS3Faults      \* bound: lost requests, unreadable roots, signals, crashes, commands

ASSUME S3Assumption ==
    /\ Len(Walk) \in Nat /\ DOMAIN Walk = 1..Len(Walk)
    /\ \A i, j \in DOMAIN Walk : Walk[i] = Walk[j] => i = j
    /\ \A i \in DOMAIN Walk : Walk[i] # "__source__"   \* stored as "\u0000source", which names no file
    /\ Contents \subseteq Seq(Nat) /\ (\E c \in Contents : Len(c) = 1)
    /\ RetryAttempts \in Nat \ {0}
    /\ MaxS3Changes \in Nat
    /\ MaxS3Faults \in Nat

VARIABLES
    disk,       \* file -> [content, mtime]
    archive,    \* file -> the content session-center has assembled
    s3File,     \* file -> the acknowledged version, or NoVersion (table s3_file)
    s3Failure,  \* file or WholeSource -> its failure row, or NoFailure (table s3_failure)
    fullDue,    \* the interval since the last full scan has passed (table source_scan)
    pass,       \* the running process
    ahead,      \* history: session-center took a version that has no receipt yet
    forgotten,  \* history: ... and nothing local remembers the attempt
    tries,      \* history: file -> [version, count] of automatic attempts that failed
    s3Faults    \* faults left

s3vars == <<disk, archive, s3File, s3Failure, fullDue, pass, ahead, forgotten, tries, s3Faults>>

S3Files == {Walk[i] : i \in DOMAIN Walk}
WholeSource == "__source__"
NoVersion == [content |-> <<>>, mtime |-> 0]
NoFailure == [version |-> NoVersion, count |-> 0, exhausted |-> FALSE, due |-> FALSE]
Off == [at |-> "off", mode |-> "daemon", aborted |-> FALSE, snapshot |-> <<>>, index |-> 1,
        full |-> FALSE, complete |-> TRUE, failed |-> FALSE, progress |-> FALSE,
        failure |-> FALSE, start |-> 0]

S3Init ==
    /\ disk = [f \in S3Files |-> [content |-> CHOOSE c \in Contents : Len(c) = 1, mtime |-> 1]]
    /\ archive = [f \in S3Files |-> <<>>]
    /\ s3File = [f \in S3Files |-> NoVersion]
    /\ s3Failure = [f \in S3Files \cup {WholeSource} |-> NoFailure]
    /\ fullDue = TRUE
    /\ pass = Off
    /\ ahead = [f \in S3Files |-> FALSE]
    /\ forgotten = [f \in S3Files |-> FALSE]
    /\ tries = [f \in S3Files |-> [version |-> NoVersion, count |-> 0]]
    /\ s3Faults = MaxS3Faults

-------------------------------------------------------------------------------
(* The rows of sync-state.ts. *)

SameMetadata(v, w) == Len(v.content) = Len(w.content) /\ v.mtime = w.mtime
\* s3RetryDue: no failure row, or one whose delay is over.
RetryDue(f) == s3Failure[f] = NoFailure \/ (~s3Failure[f].exhausted /\ s3Failure[f].due)

\* recordS3Failure: the row after one more failure of version v.
FailureRow(row, v) ==
    LET same == row # NoFailure /\ SameMetadata(row.version, v) /\ ~row.exhausted
        count == IF same THEN row.count + 1 ELSE 1
    IN [version |-> v, count |-> count, exhausted |-> count >= RetryAttempts, due |-> FALSE]

-------------------------------------------------------------------------------
(* planS3Upload: skip, append or replace. *)

Unchanged(previous, v) == previous # NoVersion /\ previous.content = v.content
\* An append needs the acknowledged bytes as its prefix.
Appends(previous, v) ==
    /\ previous # NoVersion
    /\ Len(v.content) > Len(previous.content)
    /\ IsPrefix(previous.content, v.content)

UploadFrom(previous, v) == IF Appends(previous, v) THEN Len(previous.content) ELSE 0

\* Mutant: the acknowledged version is trusted also after a failure.
AcknowledgedAlways(f) == s3File[f]
\* What a plan starts from: after a failure the acknowledged version is not trusted.
Acknowledged(f) == IF pass.failure THEN NoVersion ELSE s3File[f]
\* session-center puts the body of a request at its start offset, or behind what it has.
Assembled(old, start, body) ==
    SubSeq(old, 1, IF start <= Len(old) THEN start ELSE Len(old)) \o body

-------------------------------------------------------------------------------
(* The process. *)

File == Walk[pass.index]
Found == pass.snapshot[pass.index]
\* Without a process and a failure row nothing remembers what was taken.
Forget(failures) ==
    forgotten' = [f \in S3Files |-> forgotten[f] \/ (ahead[f] /\ failures[f] = NoFailure)]

StartSync(mode) ==
    /\ pass.at = "off"
    /\ pass' = [Off EXCEPT !.at = "idle", !.mode = mode]
    /\ UNCHANGED <<disk, archive, s3File, s3Failure, fullDue, ahead, forgotten, tries, s3Faults>>

\* --once clears the source's failure; otherwise a failure that is not due, of a root that
\* has not changed, defers the source.
BeginPass ==
    /\ pass.at = "idle" /\ ~pass.aborted
    /\ \E rootChanged \in BOOLEAN :
        LET row == s3Failure[WholeSource]
            deferred == pass.mode = "daemon" /\ row # NoFailure /\ ~rootChanged /\ ~RetryDue(WholeSource)
            cleared == pass.mode = "once" \/ (row # NoFailure /\ rootChanged)
        IN /\ rootChanged => row # NoFailure
           /\ s3Failure' = IF cleared THEN [s3Failure EXCEPT ![WholeSource] = NoFailure] ELSE s3Failure
           /\ pass' = [Off EXCEPT !.mode = pass.mode, !.failed = deferred,
                                  !.at = IF deferred THEN "returned" ELSE "scan"]
    /\ UNCHANGED <<disk, archive, s3File, fullDue, ahead, forgotten, tries, s3Faults>>

Scan ==
    /\ pass.at = "scan"
    /\ pass' = [pass EXCEPT !.at = "file", !.snapshot = [i \in DOMAIN Walk |-> disk[Walk[i]]],
                            !.full = pass.mode = "once" \/ fullDue]
    /\ UNCHANGED <<disk, archive, s3File, s3Failure, fullDue, ahead, forgotten, tries, s3Faults>>

\* The root cannot be read: a failure of the source.
ScanFails ==
    /\ pass.at = "scan" /\ s3Faults > 0
    /\ s3Faults' = s3Faults - 1
    /\ s3Failure' = IF pass.aborted THEN s3Failure
                    ELSE [s3Failure EXCEPT ![WholeSource] = FailureRow(@, NoVersion)]
    /\ pass' = [pass EXCEPT !.at = "returned", !.failed = ~pass.aborted]
    /\ UNCHANGED <<disk, archive, s3File, fullDue, ahead, forgotten, tries>>

AtFile == pass.at = "file" /\ ~pass.aborted /\ pass.index <= Len(Walk)

\* A failed version waits for its retry; the walk goes on behind it.
Deferred == /\ pass.mode = "daemon"
            /\ ~RetryDue(File)
            /\ SameMetadata(s3Failure[File].version, Found)
\* Mutant: a deferred file ends the walk.
DeferBreaks ==
    /\ AtFile /\ Deferred
    /\ pass' = [pass EXCEPT !.at = "walked", !.complete = FALSE, !.failed = TRUE]
    /\ UNCHANGED <<disk, archive, s3File, s3Failure, fullDue, ahead, forgotten, tries, s3Faults>>
Defer ==
    /\ AtFile /\ Deferred
    /\ pass' = [pass EXCEPT !.index = @ + 1, !.complete = FALSE, !.failed = TRUE]
    /\ UNCHANGED <<disk, archive, s3File, s3Failure, fullDue, ahead, forgotten, tries, s3Faults>>
\* The metadata of the walk is enough for a file that has not changed or failed.
KnownByMetadata ==
    ~pass.full /\ s3Failure[File] = NoFailure /\ SameMetadata(s3File[File], Found)
SkipFile ==
    /\ AtFile /\ ~Deferred /\ KnownByMetadata
    /\ pass' = [pass EXCEPT !.index = @ + 1]
    /\ UNCHANGED <<disk, archive, s3File, s3Failure, fullDue, ahead, forgotten, tries, s3Faults>>

\* The failure row is read, and deleted with --once or when the file changed before its
\* retry was due.
TakeFile ==
    /\ AtFile /\ ~Deferred /\ ~KnownByMetadata
    /\ pass' = [pass EXCEPT !.at = "hash", !.failure = s3Failure[File] # NoFailure]
    /\ s3Failure' = IF pass.mode = "once" \/ ~RetryDue(File)
                      THEN [s3Failure EXCEPT ![File] = NoFailure] ELSE s3Failure
    /\ tries' = IF pass.mode = "once" THEN [tries EXCEPT ![File].count = 0] ELSE tries
    /\ UNCHANGED <<disk, archive, s3File, fullDue, ahead, forgotten, s3Faults>>

\* The receipt of the file and the end of its failure, uploaded or not.
Acknowledge(uploaded) ==
    /\ s3File' = [s3File EXCEPT ![File] = Found]
    /\ s3Failure' = [s3Failure EXCEPT ![File] = NoFailure]
    /\ ahead' = [ahead EXCEPT ![File] = FALSE]
    /\ forgotten' = [forgotten EXCEPT ![File] = @ /\ ~(uploaded /\ pass.start = 0)]
    /\ pass' = [pass EXCEPT !.at = "file", !.index = @ + 1,
                            !.progress = @ \/ uploaded]

\* Hashing reads the size of the walk; a file that moved since then fails.
HashFile ==
    /\ pass.at = "hash"
    /\ SameMetadata(disk[File], Found)
    /\ IF Unchanged(Acknowledged(File), Found)
         THEN Acknowledge(FALSE)
         ELSE /\ pass' = [pass EXCEPT !.at = "upload", !.start = UploadFrom(Acknowledged(File), Found)]
              /\ UNCHANGED <<s3File, s3Failure, ahead, forgotten>>
    /\ UNCHANGED <<disk, archive, fullDue, tries, s3Faults>>
HashFails ==
    /\ pass.at = "hash"
    /\ ~SameMetadata(disk[File], Found)
    /\ pass' = [pass EXCEPT !.at = "error"]
    /\ UNCHANGED <<disk, archive, s3File, s3Failure, fullDue, ahead, forgotten, tries, s3Faults>>

\* The body is what the file holds between start and the size of the walk while it is sent.
\* session-center takes it; the answer may be lost.
Upload ==
    /\ pass.at = "upload" /\ ~pass.aborted /\ File \notin Refused
    /\ Len(disk[File].content) >= Len(Found.content)
    /\ archive' = [archive EXCEPT ![File] =
         Assembled(@, pass.start, SubSeq(disk[File].content, pass.start + 1, Len(Found.content)))]
    /\ ahead' = [ahead EXCEPT ![File] = TRUE]
    /\ \/ pass' = [pass EXCEPT !.at = "sent"] /\ UNCHANGED s3Faults
       \/ pass' = [pass EXCEPT !.at = "error"] /\ s3Faults > 0 /\ s3Faults' = s3Faults - 1
    /\ UNCHANGED <<disk, s3File, s3Failure, fullDue, forgotten, tries>>

\* Refused, interrupted, lost on the way, or too short a body.
UploadFails ==
    /\ pass.at = "upload"
    /\ \/ (pass.aborted \/ File \in Refused \/ Len(disk[File].content) < Len(Found.content))
          /\ UNCHANGED s3Faults
       \/ s3Faults > 0 /\ s3Faults' = s3Faults - 1
    /\ pass' = [pass EXCEPT !.at = "error"]
    /\ UNCHANGED <<disk, archive, s3File, s3Failure, fullDue, ahead, forgotten, tries>>

\* The receipt is stored only if the file is still the one that was walked.
Receipt ==
    /\ pass.at = "sent" /\ SameMetadata(disk[File], Found)
    /\ Acknowledge(TRUE)
    /\ UNCHANGED <<disk, archive, fullDue, tries, s3Faults>>
ReceiptFails ==
    /\ pass.at = "sent" /\ ~SameMetadata(disk[File], Found)
    /\ pass' = [pass EXCEPT !.at = "error"]
    /\ UNCHANGED <<disk, archive, s3File, s3Failure, fullDue, ahead, forgotten, tries, s3Faults>>

\* The first failing file ends the walk; a signal is recorded as a failure of the file too.
FileFails ==
    /\ pass.at = "error"
    /\ s3Failure' = [s3Failure EXCEPT ![File] = FailureRow(@, Found)]
    /\ tries' = [tries EXCEPT ![File] =
         [version |-> Found, count |-> IF SameMetadata(@.version, Found) THEN @.count + 1 ELSE 1]]
    /\ pass' = [pass EXCEPT !.at = "walked", !.complete = FALSE, !.failed = @ \/ ~pass.aborted]
    /\ UNCHANGED <<disk, archive, s3File, fullDue, ahead, forgotten, s3Faults>>

Walked == pass.at = "walked" \/ (pass.at = "file" /\ (pass.aborted \/ pass.index > Len(Walk)))
Completes == Walked /\ pass.complete /\ ~pass.aborted

\* recordS3SourceComplete, only after a walk in which every file was dealt with.
EndPass ==
    /\ Walked
    /\ IF Completes
         THEN /\ fullDue' = (fullDue /\ ~pass.full)
              /\ s3Failure' = [s3Failure EXCEPT ![WholeSource] = NoFailure]
         ELSE UNCHANGED <<fullDue, s3Failure>>
    /\ pass' = [Off EXCEPT !.at = "returned", !.mode = pass.mode, !.aborted = pass.aborted,
                           !.failed = pass.failed, !.progress = pass.progress]
    /\ UNCHANGED <<disk, archive, s3File, ahead, forgotten, tries, s3Faults>>

\* syncRun: --once stops after a failure or a pass without progress, both after a signal.
Stops == \/ pass.aborted
         \/ pass.mode = "once" /\ (pass.failed \/ ~pass.progress)
Loop ==
    /\ pass.at = "returned" \/ (pass.at = "idle" /\ pass.aborted)
    /\ pass' = IF Stops THEN Off ELSE [Off EXCEPT !.at = "idle", !.mode = pass.mode]
    /\ UNCHANGED <<disk, archive, s3File, s3Failure, fullDue, ahead, forgotten, tries, s3Faults>>

-------------------------------------------------------------------------------
(* What happens around it. *)

Signal ==
    /\ pass.at # "off" /\ ~pass.aborted /\ s3Faults > 0
    /\ s3Faults' = s3Faults - 1
    /\ pass' = [pass EXCEPT !.aborted = TRUE]
    /\ UNCHANGED <<disk, archive, s3File, s3Failure, fullDue, ahead, forgotten, tries>>

S3Killed ==
    /\ pass.at # "off" /\ s3Faults > 0
    /\ s3Faults' = s3Faults - 1
    /\ pass' = Off
    /\ UNCHANGED <<disk, archive, s3File, s3Failure, fullDue, ahead, tries>>
    /\ Forget(s3Failure)

\* sync retry-s3 takes the lock, so it runs while no sync does.
RetryS3(f) ==
    /\ pass.at = "off" /\ s3Failure[f] # NoFailure /\ s3Faults > 0
    /\ s3Faults' = s3Faults - 1
    /\ s3Failure' = [s3Failure EXCEPT ![f] = NoFailure]
    /\ tries' = IF f = WholeSource THEN tries ELSE [tries EXCEPT ![f].count = 0]
    /\ UNCHANGED <<disk, archive, s3File, fullDue, pass, ahead>>
    /\ Forget(s3Failure')

Change(f) ==
    /\ f \notin Refused
    /\ disk[f].mtime <= MaxS3Changes
    /\ \E c \in Contents : disk' = [disk EXCEPT ![f] = [content |-> c, mtime |-> @.mtime + 1]]
    /\ UNCHANGED <<archive, s3File, s3Failure, fullDue, pass, ahead, forgotten, tries, s3Faults>>

RetryTime(f) ==
    /\ s3Failure[f] # NoFailure /\ ~s3Failure[f].exhausted /\ ~s3Failure[f].due
    /\ s3Failure' = [s3Failure EXCEPT ![f].due = TRUE]
    /\ UNCHANGED <<disk, archive, s3File, fullDue, pass, ahead, forgotten, tries, s3Faults>>
FullScanTime ==
    /\ ~fullDue /\ pass.at = "idle"
    /\ fullDue' = TRUE
    /\ UNCHANGED <<disk, archive, s3File, s3Failure, pass, ahead, forgotten, tries, s3Faults>>

S3Process ==
    \/ BeginPass \/ Scan \/ ScanFails
    \/ Defer \/ SkipFile \/ TakeFile \/ HashFile \/ HashFails
    \/ Upload \/ UploadFails \/ Receipt \/ ReceiptFails \/ FileFails
    \/ EndPass \/ Loop
S3Next ==
    \/ S3Process
    \/ \E mode \in {"daemon", "once"} : StartSync(mode)
    \/ Signal \/ S3Killed
    \/ \E f \in S3Files \cup {WholeSource} : RetryS3(f) \/ RetryTime(f)
    \/ \E f \in S3Files : Change(f)
    \/ FullScanTime

-------------------------------------------------------------------------------
(* Properties. *)

S3Version == [content : Contents \cup {<<>>}, mtime : 0..(MaxS3Changes + 1)]
S3TypeOK ==
    /\ disk \in [S3Files -> S3Version]
    /\ \A f \in S3Files : Len(archive[f]) <= Len(CHOOSE c \in Contents : \A d \in Contents : Len(d) <= Len(c))
    /\ s3File \in [S3Files -> S3Version]
    /\ s3Failure \in [S3Files \cup {WholeSource} ->
         [version : S3Version, count : 0..RetryAttempts, exhausted : BOOLEAN, due : BOOLEAN]]
    /\ \A f \in S3Files \cup {WholeSource} : s3Failure[f].exhausted => s3Failure[f].count = RetryAttempts
    /\ pass.index \in 1..(Len(Walk) + 1)
    /\ pass.at \notin {"off", "idle", "scan", "returned"} => Len(pass.snapshot) = Len(Walk)

\* The acknowledged version is what session-center has assembled, through lost answers,
\* rewrites, restored files and retries, as long as no acceptance was forgotten: a process
\* that dies between the request and its receipt, or a cleared failure row, leaves nothing
\* that tells the next plan not to append (s3-sync.ts:49-62, cli.ts:687-691).
ReceiptArchived ==
    \A f \in S3Files :
        s3File[f] # NoVersion /\ ~ahead[f] /\ ~forgotten[f] => archive[f] = s3File[f].content

\* A source is recorded complete only when every file of the walk is acknowledged in the
\* version that was walked (cli.ts:719-724).
CompleteIsWhole ==
    Completes => \A i \in DOMAIN Walk : s3File[Walk[i]] = pass.snapshot[i]

\* One version of a file fails at most RetryAttempts times before a person asks for more
\* (sync-state.ts:262-264), across restarts, signals and changes of other files.
RetriesBounded == \A f \in S3Files : tries[f].count <= RetryAttempts

\* Session-center, or a person with a failure to look at, eventually has every file: one
\* that always fails holds up those behind it in the walk only for its own retries
\* (cli.ts:661-671, 716).
Settled(f) == \/ SameMetadata(s3File[f], disk[f])
              \/ s3Failure[f].exhausted
              \/ s3Failure[WholeSource].exhausted
FilesSettle == \A f \in S3Files : <>[]Settled(f)
===============================================================================
