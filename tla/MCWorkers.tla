------------------------------ MODULE MCWorkers ------------------------------
(***************************************************************************)
(* The processes that run on (the lock, S3, RAG), the stores, and the      *)
(* hybrid mode (its hooks and its collection), in one run.  They share no  *)
(* state with each other: the initial state chooses the one that runs, the *)
(* others rest.                                                            *)
(***************************************************************************)
EXTENDS SyncLock, S3Sync, RagPipeline, AttemptStoreOps, VccHooks, VccSource

VARIABLE part   \* the component that runs

Parts == {"store", "lock", "s3", "rag", "vcc", "source"}

----------------------------------------------------------------------------
(* Instances *)

\* SyncLock: a service and a command.
CONSTANTS w1, w2
TwoWorkers == {w1, w2}
OneService == {w1}
Everywhere == Acquiring \cup {"held"} \cup Releasing

\* AttemptStoreOps: three sessions.  The hybrid hooks
\* (VccHooks) run in the first of them only.
CONSTANTS s1, s2, s3
ThreeSessions == {s1, s2, s3}

\* S3Sync: a file the receiver refuses is walked before one it takes.  The contents
\* grow, are replaced and are truncated.
CONSTANTS bad, good
BadFirst == <<bad, good>>
BadRefused == {bad}
ThreeContents == {<<1>>, <<2>>, <<1, 2>>}

\* RagPipeline: documents 1 and 4 arrive later, 4 supersedes 2, 3 has no chunk.
FiveDocs == 1 .. 5
ThreeDocs == {2, 3, 5}
FourSupersedes == [d \in FiveDocs |-> IF d = 4 THEN {2} ELSE {}]
ThreeChunkless == {3}

----------------------------------------------------------------------------

\* One initial state of VccSource for the others.
SourceRests == SourceInit /\ Len(session) = 1

allvars ==
    <<part, vars, s3vars, ragvars, opsVars, vccvars, sourcevars>>

WorkersInit ==
    /\ part \in Parts
    /\ Init /\ S3Init /\ RagInit /\ OpsInit /\ VccInit
    /\ IF part = "source" THEN SourceInit ELSE SourceRests

WorkersNext ==
    /\ UNCHANGED part
    /\ IF part = "store" THEN OpsNext ELSE UNCHANGED opsVars
    /\ IF part = "lock" THEN Next ELSE UNCHANGED vars
    /\ IF part = "s3" THEN S3Next ELSE UNCHANGED s3vars
    /\ IF part = "rag" THEN RagNext ELSE UNCHANGED ragvars
    /\ IF part = "vcc" THEN SessionStep(s1) \/ DeliverOtherEvent \/ Tick ELSE UNCHANGED vccvars
    /\ IF part = "source" THEN SourceNext ELSE UNCHANGED sourcevars

\* Fairness of SyncLock, as its Fairness.
LockFairness ==
    /\ \A p \in Workers :
        /\ WF_vars(part = "lock" /\ Acquire(p))
        /\ WF_vars(part = "lock" /\ (ReleaseUnlink(p) \/ ReleaseRmdir(p)))
    /\ \A p \in Services : WF_vars(part = "lock" /\ at[p] = "failed" /\ Start(p))

\* A pass goes on, the service is started again however often it is stopped, and time
\* reaches the retry of a failure row.
S3Fairness ==
    /\ WF_s3vars(part = "s3" /\ S3Process)
    /\ SF_s3vars(part = "s3" /\ StartSync("daemon"))
    /\ \A f \in S3Files \cup {WholeSource} : WF_s3vars(part = "s3" /\ RetryTime(f))

\* The main loop and the two threads of the worker go on, recent rows grow old and the
\* time of the sweep comes.
RagFairness ==
    /\ WF_ragvars(part = "rag" /\ RagLoop)
    /\ WF_ragvars(part = "rag" /\ StagerCommits)
    /\ WF_ragvars(part = "rag" /\ WriterCommits)
    /\ WF_ragvars(part = "rag" /\ AgeOut)
    /\ WF_ragvars(part = "rag" /\ SweepTime)

WorkersSpec ==
    /\ WorkersInit /\ [][WorkersNext]_allvars
    /\ LockFairness /\ S3Fairness /\ RagFairness

\* Pids are compared for equality only: a process that starts gets the least free one.
LeastPid ==
    \A p \in Workers : pid[p] = 0 /\ pid'[p] # 0 =>
        \A n \in 1 .. pid'[p] - 1 : n \in AlivePids \cup WrittenPids

----------------------------------------------------------------------------
\* The variables of the component that runs have the values its module describes; the
\* lock names its holder, and no file is retried more often than its limit.
WorkersTypeOK ==
    CASE part = "store" -> OpsTypeOK /\ OrderTotal
      [] part = "lock" -> LockTypeOK /\ HolderNamed
      [] part = "s3" -> S3TypeOK /\ RetriesBounded
      [] part = "rag" -> RagTypeOK
      [] part = "vcc" -> VccTypeOK
      [] part = "source" -> SourceTypeOK

----------------------------------------------------------------------------
(* Liveness of the workers, where they run *)

\* The state file is archived or given up (S3Sync).
S3FilesSettle == part = "s3" => FilesSettle

\* The vectors come to cover the mirror (RagPipeline).
RagRunCatchesUp == part = "rag" => RagCatchesUp
=============================================================================
