------------------------------ MODULE SyncLock ------------------------------
(***************************************************************************)
(* The lock directory <state>.lock of src/scripts/cli.ts.  `sync run` and  *)
(* `sync retry-s3` acquire it (acquireSyncLock).                           *)
(*                                                                         *)
(* Each action is one system call.  rm(lock, {recursive, force}) is two:   *)
(* the pid file is unlinked, then the directory is removed; writeFile is   *)
(* two: open with O_CREAT|O_TRUNC, then write.                             *)
(***************************************************************************)
EXTENDS Naturals, FiniteSets

CONSTANTS
    Workers,      \* processes that acquire the lock
    Services,     \* those of them that are started again when they fail
    MaxPid,       \* bound: process IDs
    ReusePids,    \* TRUE when a pid that is still written somewhere is given out again
    CrashPoints   \* where a worker may be killed

Pids == 1 .. MaxPid

\* More pids than processes and than places where one is written.
ASSUME LockAssumption ==
    /\ IsFiniteSet(Workers)
    /\ Services \subseteq Workers
    /\ MaxPid \in Nat
    /\ MaxPid > 2 * Cardinality(Workers) + 1
    /\ ReusePids \in BOOLEAN

VARIABLES
    at,         \* at[p]: where process p is
    pid,        \* pid[p]: its process ID, 0 when it does not run
    seen,       \* seen[p]: lockPID, the pid it read from the lock
    open,       \* open[p]: the pid file it has open is the one in the directory
    directory,  \* whether the lock directory exists
    file,       \* content of its pid file
    past        \* history: "overlap", two acquisitions overlapped; "orphan", a process
                \* was killed while it acquired or released the lock

vars == <<at, pid, seen, open, directory, file, past>>

\* What is no pid: no file, and a file that was opened but not written.
Absent == 0
Empty == MaxPid + 1

Acquiring == {"mkdir", "read", "probe", "unlink", "rmdir", "mkdir_again", "create", "write"}
Releasing == {"release_unlink", "release_rmdir"}
\* "failed": killed, or ended with a non-zero code; "done": ended with 0.
Stopped == {"done", "failed"}

Running(p) == at[p] \notin Stopped
AlivePids == {pid[p] : p \in {q \in Workers : Running(q)}}
WrittenPids == {file} \cup {seen[p] : p \in Workers}

Init ==
    /\ at = [p \in Workers |-> "done"]
    /\ pid = [p \in Workers |-> 0]
    /\ seen = [p \in Workers |-> 0]
    /\ open = [p \in Workers |-> FALSE]
    /\ directory = FALSE
    /\ file = Absent
    /\ past = {}

Goto(p, point) == at' = [at EXCEPT ![p] = point]

End(p, point) ==
    /\ Goto(p, point)
    /\ pid' = [pid EXCEPT ![p] = 0]
    /\ seen' = [seen EXCEPT ![p] = 0]
    /\ open' = [open EXCEPT ![p] = FALSE]

----------------------------------------------------------------------------
(* The operating system and the service manager (external) *)

Start(p) ==
    /\ ~Running(p)
    /\ \E new \in Pids \ AlivePids :
        /\ new \in WrittenPids => ReusePids
        /\ pid' = [pid EXCEPT ![p] = new]
    /\ Goto(p, "mkdir")
    /\ past' = IF \E q \in Workers : at[q] \in Acquiring THEN past \cup {"overlap"} ELSE past
    /\ UNCHANGED <<seen, open, directory, file>>

Crash(p) ==
    /\ at[p] \in CrashPoints
    /\ End(p, "failed")
    /\ past' = IF at[p] = "held" THEN past ELSE past \cup {"orphan"}
    /\ UNCHANGED <<directory, file>>

----------------------------------------------------------------------------
(* acquireSyncLock *)

Mkdir(p) ==
    /\ at[p] = "mkdir"
    /\ Goto(p, IF directory THEN "read" ELSE "create")
    /\ directory' = TRUE
    /\ UNCHANGED <<pid, seen, open, file, past>>

\* A missing pid may belong to a process between mkdir and writeFile: refuse.
ReadPid(p) ==
    /\ at[p] = "read"
    /\ \/ /\ file \in Pids
          /\ Goto(p, "probe")
          /\ seen' = [seen EXCEPT ![p] = file]
          /\ UNCHANGED <<pid, open>>
       \/ /\ file \notin Pids
          /\ End(p, "failed")
    /\ UNCHANGED <<directory, file, past>>

\* Mutant: the pid is not probed.
ProbeNothing(p) ==
    /\ at[p] = "probe"
    /\ Goto(p, "unlink")
    /\ UNCHANGED <<pid, seen, open, directory, file, past>>

\* Mutant: an error of kill counts as an active process.
ProbeRefusing(p) ==
    /\ at[p] = "probe"
    /\ End(p, "failed")
    /\ UNCHANGED <<directory, file, past>>

\* process.kill(lockPID, 0)
Probe(p) ==
    /\ at[p] = "probe"
    /\ \/ /\ seen[p] \in AlivePids
          /\ End(p, "failed")
       \/ /\ seen[p] \notin AlivePids
          /\ Goto(p, "unlink")
          /\ UNCHANGED <<pid, seen, open>>
    /\ UNCHANGED <<directory, file, past>>

RemoveFile ==
    /\ file' = Absent
    /\ open' = [q \in Workers |-> FALSE]

Unlink(p) ==
    /\ at[p] = "unlink"
    /\ RemoveFile
    /\ Goto(p, "rmdir")
    /\ UNCHANGED <<pid, seen, directory, past>>

\* A directory that is not empty is not removed: rm throws.
Rmdir(p) ==
    /\ at[p] = "rmdir"
    /\ \/ /\ file = Absent
          /\ directory' = FALSE
          /\ Goto(p, "mkdir_again")
          /\ UNCHANGED <<pid, seen, open>>
       \/ /\ file # Absent
          /\ End(p, "failed")
          /\ UNCHANGED directory
    /\ UNCHANGED <<file, past>>

MkdirAgain(p) ==
    /\ at[p] = "mkdir_again"
    /\ \/ /\ ~directory
          /\ directory' = TRUE
          /\ Goto(p, "create")
          /\ UNCHANGED <<pid, seen, open>>
       \/ /\ directory
          /\ End(p, "failed")
          /\ UNCHANGED directory
    /\ UNCHANGED <<file, past>>

CreateFile(p) ==
    /\ at[p] = "create"
    /\ \/ /\ directory
          /\ file' = Empty
          /\ open' = [open EXCEPT ![p] = TRUE]
          /\ Goto(p, "write")
          /\ UNCHANGED <<pid, seen>>
       \/ /\ ~directory
          /\ End(p, "failed")
          /\ UNCHANGED file
    /\ UNCHANGED <<directory, past>>

\* Also succeeds when the file was unlinked meanwhile.
WritePid(p) ==
    /\ at[p] = "write"
    /\ file' = IF open[p] THEN pid[p] ELSE file
    /\ open' = [open EXCEPT ![p] = FALSE]
    /\ Goto(p, "held")
    /\ UNCHANGED <<pid, seen, directory, past>>

----------------------------------------------------------------------------
(* lock.release() *)

Release(p) ==
    /\ at[p] = "held"
    /\ Goto(p, "release_unlink")
    /\ UNCHANGED <<pid, seen, open, directory, file, past>>

ReleaseUnlink(p) ==
    /\ at[p] = "release_unlink"
    /\ RemoveFile
    /\ Goto(p, "release_rmdir")
    /\ UNCHANGED <<pid, seen, directory, past>>

ReleaseRmdir(p) ==
    /\ at[p] = "release_rmdir"
    /\ \/ /\ file = Absent
          /\ directory' = FALSE
          /\ End(p, "done")
       \/ /\ file # Absent
          /\ End(p, "failed")
          /\ UNCHANGED directory
    /\ UNCHANGED <<file, past>>

----------------------------------------------------------------------------
(* Specification *)

Acquire(p) ==
    \/ Mkdir(p) \/ ReadPid(p) \/ Probe(p) \/ Unlink(p) \/ Rmdir(p) \/ MkdirAgain(p)
    \/ CreateFile(p) \/ WritePid(p)

Next ==
    \E p \in Workers :
        \/ Start(p) \/ Crash(p) \/ Acquire(p)
        \/ Release(p) \/ ReleaseUnlink(p) \/ ReleaseRmdir(p)

Spec == Init /\ [][Next]_vars

\* A process that runs goes on; the service is started again when it failed
\* (Restart=on-failure, RestartSec=5 in the unit, cli.ts:1473).  Nothing obliges a
\* worker to release, nor a user to repeat a command.
Fairness ==
    /\ \A p \in Workers :
        WF_vars(Acquire(p)) /\ WF_vars(ReleaseUnlink(p) \/ ReleaseRmdir(p))
    /\ \A p \in Services : WF_vars(at[p] = "failed" /\ Start(p))

FairSpec == Spec /\ Fairness

----------------------------------------------------------------------------
(* Properties *)

\* Types, and the pid file exists only in the directory and while it is open.
LockTypeOK ==
    /\ at \in [Workers -> Acquiring \cup {"held"} \cup Releasing \cup Stopped]
    /\ pid \in [Workers -> {0} \cup Pids]
    /\ seen \in [Workers -> {0} \cup Pids]
    /\ open \in [Workers -> BOOLEAN]
    /\ directory \in BOOLEAN
    /\ file \in {Absent, Empty} \cup Pids
    /\ past \subseteq {"overlap", "orphan"}
    /\ file # Absent => directory
    /\ \A p \in Workers : open[p] => file # Absent

\* Two processes do not hold the lock at once (cli.ts:277-301).
HoldersExclude ==
    \A p, q \in Workers : at[p] = "held" /\ at[q] = "held" => p = q

\* They do not as long as no two acquisitions overlap, whatever is killed or fails in
\* between and whoever gets the pid of a process that is gone.
MutualExclusion == "overlap" \notin past => HoldersExclude

\* The holder's lock stays in place and names it, so that the next process refuses, as
\* long as no two acquisitions overlap.
HolderNamed ==
    "overlap" \notin past => \A p \in Workers : at[p] = "held" => directory /\ file = pid[p]

\* The pid of a process that no longer runs is in the lock.
Stale == file \in Pids /\ file \notin AlivePids

\* A lock that a killed holder left is taken over (cli.ts:286-298) when a service wants
\* it, also when several processes find it at once and some of them fail.  A process that
\* is killed while it acquires or releases can leave a lock without a pid, which every
\* other one refuses.
StaleLockTaken ==
    (Stale /\ \E p \in Services : at[p] \in Acquiring \cup {"failed"})
        ~> ("orphan" \in past \/ \E p \in Workers : at[p] = "held")
=============================================================================
