------------------------------ MODULE Cli_proofs ------------------------------
(***************************************************************************)
(* Proofs about the command line: the lock of the daemon and the commands  *)
(* that write the configuration next to it (cli.ts), and the installer     *)
(* (install.sh, configure.ts).                                             *)
(*                                                                         *)
(* The lock excludes as long as acquisitions do not overlap, for every set *)
(* of processes, with crashes anywhere and reused process IDs.             *)
(*                                                                         *)
(* What the commands set up can be served, and what a prune removed stays  *)
(* in the mirror, for every set of terminals and files and any number of   *)
(* commands, kills and failures, in any interleaving of their steps.       *)
(***************************************************************************)
EXTENDS SyncLock, SyncCommands, Installer, TLAPS

TypesInv ==
    /\ LockTypeOK
    /\ \A p \in Workers : Running(p) => pid[p] \in Pids

\* The processes that hold the lock, are about to, or give it back.
Owning == {"create", "write", "held", "release_unlink", "release_rmdir"}
\* The processes that clear a lock whose pid was dead.
Clearing == {"unlink", "rmdir", "mkdir_again"}

\* What every process finds of the lock at the point where it is.
Found(p) ==
    /\ at[p] \in Owning => directory
    /\ at[p] \in {"create", "release_rmdir"} => file = Absent
    /\ at[p] = "write" => open[p]
    /\ at[p] \in {"held", "release_unlink"} => file = pid[p]
    /\ at[p] \in {"rmdir", "mkdir_again"} => file = Absent

\* Only one process acquires.
Serial == \A p, q \in Workers : at[p] \in Acquiring /\ at[q] \in Acquiring => p = q

\* Only one process owns or clears the lock.
Sole ==
    \A p, q \in Workers :
        at[p] \in Owning \cup Clearing /\ at[q] \in Owning \cup Clearing => p = q

\* A process that is about to probe has read the pid of the owner, if there is one.
ProbesOwner ==
    \A p, q \in Workers :
        at[p] \in Owning /\ at[q] = "probe" => seen[q] = pid[p]

SerialInv ==
    /\ \A p \in Workers : Found(p)
    /\ Serial
    /\ Sole
    /\ ProbesOwner

LockInv == TypesInv /\ ("overlap" \notin past => SerialInv)

----------------------------------------------------------------------------

LEMMA LockInitial == Init => LockInv
<1> SUFFICES ASSUME Init PROVE LockInv
  OBVIOUS
<1> USE DEF Init
<1>1. TypesInv
  BY DEF TypesInv, LockTypeOK, Running, Stopped, Absent
<1>2. \A p \in Workers : at[p] = "done"
  OBVIOUS
<1>3. \A p \in Workers : Found(p)
  BY <1>2 DEF Found, Owning
<1>4. Serial
  BY <1>2 DEF Serial, Acquiring
<1>5. Sole
  BY <1>2 DEF Sole, Owning, Clearing
<1>6. ProbesOwner
  BY <1>2 DEF ProbesOwner, Owning
<1> QED
  BY <1>1, <1>3, <1>4, <1>5, <1>6 DEF LockInv, SerialInv

LEMMA StartPreserves ==
    ASSUME LockInv, NEW p \in Workers, Start(p)
    PROVE  LockInv'
<1>1. TypesInv'
  BY LockAssumption DEF LockInv, TypesInv, LockTypeOK, Running, Start, Goto, AlivePids, Acquiring, Releasing, Stopped, Absent, Empty, Pids
<1>2. ASSUME "overlap" \notin past' PROVE SerialInv'
  <2>1. SerialInv
    BY <1>2 DEF LockInv, Start
  <2>2. ASSUME NEW q \in Workers PROVE Found(q)'
    BY <2>1, LockAssumption DEF LockInv, TypesInv, LockTypeOK, Running, SerialInv, Found, Serial, Sole, Start, Goto, AlivePids, Owning, Clearing, Acquiring, Releasing, Stopped, Absent, Empty
  <2>3. Serial'
    BY <1>2, <2>1 DEF LockInv, TypesInv, LockTypeOK, SerialInv, Serial, Start, Goto, AlivePids, Acquiring, Releasing, Stopped
  <2>4. Sole'
    BY <2>1 DEF LockInv, TypesInv, LockTypeOK, SerialInv, Found, Serial, Sole, ProbesOwner, Start, Goto, AlivePids, Owning, Clearing, Acquiring, Releasing, Stopped
  <2>5. ProbesOwner'
    BY <2>1, LockAssumption DEF LockInv, TypesInv, LockTypeOK, Running, SerialInv, Found, Serial, Sole, ProbesOwner, Start, Goto, AlivePids, Owning, Clearing, Acquiring, Releasing, Stopped, Absent, Pids
  <2> QED
    BY <2>2, <2>3, <2>4, <2>5 DEF SerialInv
<1> QED
  BY <1>1, <1>2 DEF LockInv

LEMMA CrashPreserves ==
    ASSUME LockInv, NEW p \in Workers, Crash(p)
    PROVE  LockInv'
<1>1. TypesInv'
  BY LockAssumption DEF LockInv, TypesInv, LockTypeOK, Running, Crash, End, Goto, Acquiring, Releasing, Stopped, Absent, Empty, Pids
<1>2. ASSUME "overlap" \notin past' PROVE SerialInv'
  <2>1. SerialInv
    BY <1>2 DEF LockInv, Crash
  <2>2. ASSUME NEW q \in Workers PROVE Found(q)'
    BY <2>1, LockAssumption DEF LockInv, TypesInv, LockTypeOK, Running, SerialInv, Found, Serial, Sole, Crash, End, Goto, Owning, Clearing, Acquiring, Releasing, Stopped, Absent, Empty
  <2>3. Serial'
    BY <1>2, <2>1 DEF LockInv, TypesInv, LockTypeOK, SerialInv, Serial, Crash, End, Goto, Acquiring, Releasing, Stopped
  <2>4. Sole'
    BY <2>1 DEF LockInv, TypesInv, LockTypeOK, SerialInv, Found, Serial, Sole, ProbesOwner, Crash, End, Goto, Owning, Clearing, Acquiring, Releasing, Stopped
  <2>5. ProbesOwner'
    BY <2>1, LockAssumption DEF LockInv, TypesInv, LockTypeOK, Running, SerialInv, Found, Serial, Sole, ProbesOwner, Crash, End, Goto, Owning, Clearing, Acquiring, Releasing, Stopped, Absent, Pids
  <2> QED
    BY <2>2, <2>3, <2>4, <2>5 DEF SerialInv
<1> QED
  BY <1>1, <1>2 DEF LockInv

LEMMA MkdirPreserves ==
    ASSUME LockInv, NEW p \in Workers, Mkdir(p)
    PROVE  LockInv'
<1>1. TypesInv'
  BY LockAssumption DEF LockInv, TypesInv, LockTypeOK, Running, Mkdir, Goto, Acquiring, Releasing, Stopped, Absent, Empty, Pids
<1>2. ASSUME "overlap" \notin past' PROVE SerialInv'
  <2>1. SerialInv
    BY <1>2 DEF LockInv, Mkdir
  <2>2. ASSUME NEW q \in Workers PROVE Found(q)'
    BY <2>1, LockAssumption DEF LockInv, TypesInv, LockTypeOK, Running, SerialInv, Found, Serial, Sole, Mkdir, Goto, Owning, Clearing, Acquiring, Releasing, Stopped, Absent, Empty
  <2>3. Serial'
    BY <1>2, <2>1 DEF LockInv, TypesInv, LockTypeOK, SerialInv, Serial, Mkdir, Goto, Acquiring, Releasing, Stopped
  <2>4. Sole'
    BY <2>1 DEF LockInv, TypesInv, LockTypeOK, SerialInv, Found, Serial, Sole, ProbesOwner, Mkdir, Goto, Owning, Clearing, Acquiring, Releasing, Stopped
  <2>5. ProbesOwner'
    BY <2>1, LockAssumption DEF LockInv, TypesInv, LockTypeOK, Running, SerialInv, Found, Serial, Sole, ProbesOwner, Mkdir, Goto, Owning, Clearing, Acquiring, Releasing, Stopped, Absent, Pids
  <2> QED
    BY <2>2, <2>3, <2>4, <2>5 DEF SerialInv
<1> QED
  BY <1>1, <1>2 DEF LockInv

LEMMA ReadPidPreserves ==
    ASSUME LockInv, NEW p \in Workers, ReadPid(p)
    PROVE  LockInv'
<1>1. TypesInv'
  BY LockAssumption, ZenonT(30) DEF LockInv, TypesInv, LockTypeOK, Running, ReadPid, End, Goto, Acquiring, Releasing, Stopped, Absent, Empty, Pids
<1>2. ASSUME "overlap" \notin past' PROVE SerialInv'
  <2>1. SerialInv
    BY <1>2 DEF LockInv, ReadPid
  <2>2. ASSUME NEW q \in Workers PROVE Found(q)'
    BY <2>1, LockAssumption DEF LockInv, TypesInv, LockTypeOK, Running, SerialInv, Found, Serial, Sole, ReadPid, End, Goto, Owning, Clearing, Acquiring, Releasing, Stopped, Absent, Empty
  <2>3. Serial'
    BY <1>2, <2>1 DEF LockInv, TypesInv, LockTypeOK, SerialInv, Serial, ReadPid, End, Goto, Acquiring, Releasing, Stopped
  <2>4. Sole'
    BY <2>1 DEF LockInv, TypesInv, LockTypeOK, SerialInv, Found, Serial, Sole, ProbesOwner, ReadPid, End, Goto, Owning, Clearing, Acquiring, Releasing, Stopped
  <2>5. ProbesOwner'
    BY <2>1, LockAssumption DEF LockInv, TypesInv, LockTypeOK, Running, SerialInv, Found, Serial, Sole, ProbesOwner, ReadPid, End, Goto, Owning, Clearing, Acquiring, Releasing, Stopped, Absent, Pids
  <2> QED
    BY <2>2, <2>3, <2>4, <2>5 DEF SerialInv
<1> QED
  BY <1>1, <1>2 DEF LockInv

LEMMA ProbePreserves ==
    ASSUME LockInv, NEW p \in Workers, Probe(p)
    PROVE  LockInv'
<1>1. TypesInv'
  BY LockAssumption DEF LockInv, TypesInv, LockTypeOK, Running, Probe, End, Goto, Acquiring, Releasing, Stopped, Absent, Empty, Pids
<1>2. ASSUME "overlap" \notin past' PROVE SerialInv'
  <2>1. SerialInv
    BY <1>2 DEF LockInv, Probe
  <2>2. ASSUME NEW q \in Workers PROVE Found(q)'
    BY <2>1, LockAssumption DEF LockInv, TypesInv, LockTypeOK, Running, SerialInv, Found, Serial, Sole, Probe, End, Goto, Owning, Clearing, Acquiring, Releasing, Stopped, Absent, Empty
  <2>3. Serial'
    BY <1>2, <2>1 DEF LockInv, TypesInv, LockTypeOK, SerialInv, Serial, Probe, End, Goto, Acquiring, Releasing, Stopped
  <2>4. Sole'
    BY <2>1 DEF LockInv, TypesInv, LockTypeOK, SerialInv, Found, Serial, Sole, ProbesOwner, Probe, End, Goto, AlivePids, Running, Owning, Clearing, Acquiring, Releasing, Stopped
  <2>5. ProbesOwner'
    BY <2>1, LockAssumption DEF LockInv, TypesInv, LockTypeOK, Running, SerialInv, Found, Serial, Sole, ProbesOwner, Probe, End, Goto, Owning, Clearing, Acquiring, Releasing, Stopped, Absent, Pids
  <2> QED
    BY <2>2, <2>3, <2>4, <2>5 DEF SerialInv
<1> QED
  BY <1>1, <1>2 DEF LockInv

LEMMA UnlinkPreserves ==
    ASSUME LockInv, NEW p \in Workers, Unlink(p)
    PROVE  LockInv'
<1>1. TypesInv'
  BY LockAssumption DEF LockInv, TypesInv, LockTypeOK, Running, Unlink, RemoveFile, Goto, Acquiring, Releasing, Stopped, Absent, Empty, Pids
<1>2. ASSUME "overlap" \notin past' PROVE SerialInv'
  <2>1. SerialInv
    BY <1>2 DEF LockInv, Unlink
  <2>2. ASSUME NEW q \in Workers PROVE Found(q)'
    BY <2>1, LockAssumption DEF LockInv, TypesInv, LockTypeOK, Running, SerialInv, Found, Serial, Sole, Unlink, RemoveFile, Goto, Owning, Clearing, Acquiring, Releasing, Stopped, Absent, Empty
  <2>3. Serial'
    BY <1>2, <2>1 DEF LockInv, TypesInv, LockTypeOK, SerialInv, Serial, Unlink, RemoveFile, Goto, Acquiring, Releasing, Stopped
  <2>4. Sole'
    BY <2>1 DEF LockInv, TypesInv, LockTypeOK, SerialInv, Found, Serial, Sole, ProbesOwner, Unlink, RemoveFile, Goto, Owning, Clearing, Acquiring, Releasing, Stopped
  <2>5. ProbesOwner'
    BY <2>1, LockAssumption DEF LockInv, TypesInv, LockTypeOK, Running, SerialInv, Found, Serial, Sole, ProbesOwner, Unlink, RemoveFile, Goto, Owning, Clearing, Acquiring, Releasing, Stopped, Absent, Pids
  <2> QED
    BY <2>2, <2>3, <2>4, <2>5 DEF SerialInv
<1> QED
  BY <1>1, <1>2 DEF LockInv

LEMMA RmdirPreserves ==
    ASSUME LockInv, NEW p \in Workers, Rmdir(p)
    PROVE  LockInv'
<1>1. TypesInv'
  BY LockAssumption DEF LockInv, TypesInv, LockTypeOK, Running, Rmdir, End, Goto, Acquiring, Releasing, Stopped, Absent, Empty, Pids
<1>2. ASSUME "overlap" \notin past' PROVE SerialInv'
  <2>1. SerialInv
    BY <1>2 DEF LockInv, Rmdir
  <2>2. ASSUME NEW q \in Workers PROVE Found(q)'
    BY <2>1, LockAssumption DEF LockInv, TypesInv, LockTypeOK, Running, SerialInv, Found, Serial, Sole, Rmdir, End, Goto, Owning, Clearing, Acquiring, Releasing, Stopped, Absent, Empty
  <2>3. Serial'
    BY <1>2, <2>1 DEF LockInv, TypesInv, LockTypeOK, SerialInv, Serial, Rmdir, End, Goto, Acquiring, Releasing, Stopped
  <2>4. Sole'
    BY <2>1 DEF LockInv, TypesInv, LockTypeOK, SerialInv, Found, Serial, Sole, ProbesOwner, Rmdir, End, Goto, Owning, Clearing, Acquiring, Releasing, Stopped
  <2>5. ProbesOwner'
    BY <2>1, LockAssumption DEF LockInv, TypesInv, LockTypeOK, Running, SerialInv, Found, Serial, Sole, ProbesOwner, Rmdir, End, Goto, Owning, Clearing, Acquiring, Releasing, Stopped, Absent, Pids
  <2> QED
    BY <2>2, <2>3, <2>4, <2>5 DEF SerialInv
<1> QED
  BY <1>1, <1>2 DEF LockInv

LEMMA MkdirAgainPreserves ==
    ASSUME LockInv, NEW p \in Workers, MkdirAgain(p)
    PROVE  LockInv'
<1>1. TypesInv'
  BY LockAssumption DEF LockInv, TypesInv, LockTypeOK, Running, MkdirAgain, End, Goto, Acquiring, Releasing, Stopped, Absent, Empty, Pids
<1>2. ASSUME "overlap" \notin past' PROVE SerialInv'
  <2>1. SerialInv
    BY <1>2 DEF LockInv, MkdirAgain
  <2>2. ASSUME NEW q \in Workers PROVE Found(q)'
    BY <2>1, LockAssumption DEF LockInv, TypesInv, LockTypeOK, Running, SerialInv, Found, Serial, Sole, MkdirAgain, End, Goto, Owning, Clearing, Acquiring, Releasing, Stopped, Absent, Empty
  <2>3. Serial'
    BY <1>2, <2>1 DEF LockInv, TypesInv, LockTypeOK, SerialInv, Serial, MkdirAgain, End, Goto, Acquiring, Releasing, Stopped
  <2>4. Sole'
    BY <2>1 DEF LockInv, TypesInv, LockTypeOK, SerialInv, Found, Serial, Sole, ProbesOwner, MkdirAgain, End, Goto, Owning, Clearing, Acquiring, Releasing, Stopped
  <2>5. ProbesOwner'
    BY <2>1, LockAssumption DEF LockInv, TypesInv, LockTypeOK, Running, SerialInv, Found, Serial, Sole, ProbesOwner, MkdirAgain, End, Goto, Owning, Clearing, Acquiring, Releasing, Stopped, Absent, Pids
  <2> QED
    BY <2>2, <2>3, <2>4, <2>5 DEF SerialInv
<1> QED
  BY <1>1, <1>2 DEF LockInv

LEMMA CreateFilePreserves ==
    ASSUME LockInv, NEW p \in Workers, CreateFile(p)
    PROVE  LockInv'
<1>1. TypesInv'
  <2>1. Empty # Absent
    BY LockAssumption DEF Absent, Empty
  <2>2. CASE directory
    <3>1. file' = Empty /\ directory' /\ past' = past /\ pid' = pid /\ seen' = seen
      BY <2>2 DEF CreateFile
    <3>2. /\ at' = [at EXCEPT ![p] = "write"]
          /\ open' = [open EXCEPT ![p] = TRUE]
      BY <2>2 DEF CreateFile, Goto
    <3> QED
      BY <2>1, <2>2, <3>1, <3>2 DEF LockInv, TypesInv, LockTypeOK, Running, CreateFile, Acquiring, Stopped
  <2>3. CASE ~directory
    BY <2>3 DEF LockInv, TypesInv, LockTypeOK, Running, CreateFile, End, Goto, Acquiring, Stopped
  <2> QED
    BY <2>2, <2>3
<1>2. ASSUME "overlap" \notin past' PROVE SerialInv'
  <2>1. SerialInv
    BY <1>2 DEF LockInv, CreateFile
  <2>2. ASSUME NEW q \in Workers PROVE Found(q)'
    BY <2>1, LockAssumption DEF LockInv, TypesInv, LockTypeOK, Running, SerialInv, Found, Serial, Sole, CreateFile, End, Goto, Owning, Clearing, Acquiring, Releasing, Stopped, Absent, Empty
  <2>3. Serial'
    BY <1>2, <2>1 DEF LockInv, TypesInv, LockTypeOK, SerialInv, Serial, CreateFile, End, Goto, Acquiring, Releasing, Stopped
  <2>4. Sole'
    BY <2>1 DEF LockInv, TypesInv, LockTypeOK, SerialInv, Found, Serial, Sole, ProbesOwner, CreateFile, End, Goto, Owning, Clearing, Acquiring, Releasing, Stopped
  <2>5. ProbesOwner'
    BY <2>1, LockAssumption DEF LockInv, TypesInv, LockTypeOK, Running, SerialInv, Found, Serial, Sole, ProbesOwner, CreateFile, End, Goto, Owning, Clearing, Acquiring, Releasing, Stopped, Absent, Pids
  <2> QED
    BY <2>2, <2>3, <2>4, <2>5 DEF SerialInv
<1> QED
  BY <1>1, <1>2 DEF LockInv

LEMMA WritePidPreserves ==
    ASSUME LockInv, NEW p \in Workers, WritePid(p)
    PROVE  LockInv'
<1>1. TypesInv'
  BY LockAssumption DEF LockInv, TypesInv, LockTypeOK, Running, WritePid, Goto, Acquiring, Releasing, Stopped, Absent, Empty, Pids
<1>2. ASSUME "overlap" \notin past' PROVE SerialInv'
  <2>1. SerialInv
    BY <1>2 DEF LockInv, WritePid
  <2>2. ASSUME NEW q \in Workers PROVE Found(q)'
    BY <2>1, LockAssumption DEF LockInv, TypesInv, LockTypeOK, Running, SerialInv, Found, Serial, Sole, WritePid, Goto, Owning, Clearing, Acquiring, Releasing, Stopped, Absent, Empty
  <2>3. Serial'
    BY <1>2, <2>1 DEF LockInv, TypesInv, LockTypeOK, SerialInv, Serial, WritePid, Goto, Acquiring, Releasing, Stopped
  <2>4. Sole'
    BY <2>1 DEF LockInv, TypesInv, LockTypeOK, SerialInv, Found, Serial, Sole, ProbesOwner, WritePid, Goto, Owning, Clearing, Acquiring, Releasing, Stopped
  <2>5. ProbesOwner'
    BY <2>1, LockAssumption DEF LockInv, TypesInv, LockTypeOK, Running, SerialInv, Found, Serial, Sole, ProbesOwner, WritePid, Goto, Owning, Clearing, Acquiring, Releasing, Stopped, Absent, Pids
  <2> QED
    BY <2>2, <2>3, <2>4, <2>5 DEF SerialInv
<1> QED
  BY <1>1, <1>2 DEF LockInv

LEMMA ReleasePreserves ==
    ASSUME LockInv, NEW p \in Workers, Release(p)
    PROVE  LockInv'
<1>1. TypesInv'
  BY LockAssumption DEF LockInv, TypesInv, LockTypeOK, Running, Release, Goto, Acquiring, Releasing, Stopped, Absent, Empty, Pids
<1>2. ASSUME "overlap" \notin past' PROVE SerialInv'
  <2>1. SerialInv
    BY <1>2 DEF LockInv, Release
  <2>2. ASSUME NEW q \in Workers PROVE Found(q)'
    BY <2>1, LockAssumption DEF LockInv, TypesInv, LockTypeOK, Running, SerialInv, Found, Serial, Sole, Release, Goto, Owning, Clearing, Acquiring, Releasing, Stopped, Absent, Empty
  <2>3. Serial'
    BY <1>2, <2>1 DEF LockInv, TypesInv, LockTypeOK, SerialInv, Serial, Release, Goto, Acquiring, Releasing, Stopped
  <2>4. Sole'
    BY <2>1 DEF LockInv, TypesInv, LockTypeOK, SerialInv, Found, Serial, Sole, ProbesOwner, Release, Goto, Owning, Clearing, Acquiring, Releasing, Stopped
  <2>5. ProbesOwner'
    BY <2>1, LockAssumption DEF LockInv, TypesInv, LockTypeOK, Running, SerialInv, Found, Serial, Sole, ProbesOwner, Release, Goto, Owning, Clearing, Acquiring, Releasing, Stopped, Absent, Pids
  <2> QED
    BY <2>2, <2>3, <2>4, <2>5 DEF SerialInv
<1> QED
  BY <1>1, <1>2 DEF LockInv

LEMMA ReleaseUnlinkPreserves ==
    ASSUME LockInv, NEW p \in Workers, ReleaseUnlink(p)
    PROVE  LockInv'
<1>1. TypesInv'
  BY LockAssumption DEF LockInv, TypesInv, LockTypeOK, Running, ReleaseUnlink, RemoveFile, Goto, Acquiring, Releasing, Stopped, Absent, Empty, Pids
<1>2. ASSUME "overlap" \notin past' PROVE SerialInv'
  <2>1. SerialInv
    BY <1>2 DEF LockInv, ReleaseUnlink
  <2>2. ASSUME NEW q \in Workers PROVE Found(q)'
    BY <2>1, LockAssumption DEF LockInv, TypesInv, LockTypeOK, Running, SerialInv, Found, Serial, Sole, ReleaseUnlink, RemoveFile, Goto, Owning, Clearing, Acquiring, Releasing, Stopped, Absent, Empty
  <2>3. Serial'
    BY <1>2, <2>1 DEF LockInv, TypesInv, LockTypeOK, SerialInv, Serial, ReleaseUnlink, RemoveFile, Goto, Acquiring, Releasing, Stopped
  <2>4. Sole'
    BY <2>1 DEF LockInv, TypesInv, LockTypeOK, SerialInv, Found, Serial, Sole, ProbesOwner, ReleaseUnlink, RemoveFile, Goto, Owning, Clearing, Acquiring, Releasing, Stopped
  <2>5. ProbesOwner'
    BY <2>1, LockAssumption DEF LockInv, TypesInv, LockTypeOK, Running, SerialInv, Found, Serial, Sole, ProbesOwner, ReleaseUnlink, RemoveFile, Goto, Owning, Clearing, Acquiring, Releasing, Stopped, Absent, Pids
  <2> QED
    BY <2>2, <2>3, <2>4, <2>5 DEF SerialInv
<1> QED
  BY <1>1, <1>2 DEF LockInv

LEMMA ReleaseRmdirPreserves ==
    ASSUME LockInv, NEW p \in Workers, ReleaseRmdir(p)
    PROVE  LockInv'
<1>1. TypesInv'
  BY LockAssumption DEF LockInv, TypesInv, LockTypeOK, Running, ReleaseRmdir, End, Goto, Acquiring, Releasing, Stopped, Absent, Empty, Pids
<1>2. ASSUME "overlap" \notin past' PROVE SerialInv'
  <2>1. SerialInv
    BY <1>2 DEF LockInv, ReleaseRmdir
  <2>2. ASSUME NEW q \in Workers PROVE Found(q)'
    BY <2>1, LockAssumption DEF LockInv, TypesInv, LockTypeOK, Running, SerialInv, Found, Serial, Sole, ReleaseRmdir, End, Goto, Owning, Clearing, Acquiring, Releasing, Stopped, Absent, Empty
  <2>3. Serial'
    BY <1>2, <2>1 DEF LockInv, TypesInv, LockTypeOK, SerialInv, Serial, ReleaseRmdir, End, Goto, Acquiring, Releasing, Stopped
  <2>4. Sole'
    BY <2>1 DEF LockInv, TypesInv, LockTypeOK, SerialInv, Found, Serial, Sole, ProbesOwner, ReleaseRmdir, End, Goto, Owning, Clearing, Acquiring, Releasing, Stopped
  <2>5. ProbesOwner'
    BY <2>1, LockAssumption DEF LockInv, TypesInv, LockTypeOK, Running, SerialInv, Found, Serial, Sole, ProbesOwner, ReleaseRmdir, End, Goto, Owning, Clearing, Acquiring, Releasing, Stopped, Absent, Pids
  <2> QED
    BY <2>2, <2>3, <2>4, <2>5 DEF SerialInv
<1> QED
  BY <1>1, <1>2 DEF LockInv

----------------------------------------------------------------------------

LEMMA StepPreserves ==
    ASSUME LockInv, [Next]_vars
    PROVE  LockInv'
<1>1. CASE UNCHANGED vars
  BY <1>1 DEF vars, LockInv, TypesInv, LockTypeOK, Running, AlivePids, SerialInv, Found, Serial, Sole, ProbesOwner
<1>2. CASE Next
  <2>1. PICK p \in Workers :
            \/ Start(p) \/ Crash(p) \/ Acquire(p)
            \/ Release(p) \/ ReleaseUnlink(p) \/ ReleaseRmdir(p)
    BY <1>2 DEF Next
  <2>2. CASE Start(p) \/ Crash(p)
    BY <2>2, StartPreserves, CrashPreserves
  <2>3. CASE Acquire(p)
    BY <2>3, MkdirPreserves, ReadPidPreserves, ProbePreserves, UnlinkPreserves, RmdirPreserves,
       MkdirAgainPreserves, CreateFilePreserves, WritePidPreserves DEF Acquire
  <2>4. CASE Release(p) \/ ReleaseUnlink(p) \/ ReleaseRmdir(p)
    BY <2>4, ReleasePreserves, ReleaseUnlinkPreserves, ReleaseRmdirPreserves
  <2> QED
    BY <2>1, <2>2, <2>3, <2>4
<1> QED
  BY <1>1, <1>2

\* The inductive invariant of the lock (cli.ts:277-301).
THEOREM LockInvariant == Spec => []LockInv
<1>1. LockInv /\ [Next]_vars => LockInv'
  BY StepPreserves
<1> QED
  BY <1>1, LockInitial, PTL DEF Spec

\* Type correctness of the lock, and its pid file exists only in its directory.
THEOREM LockTypeCorrect == Spec => []LockTypeOK
<1>1. LockInv => LockTypeOK
  BY DEF LockInv, TypesInv
<1> QED
  BY <1>1, LockInvariant, PTL

\* At most one process holds the lock when acquisitions do not overlap (cli.ts:277-301),
\* whatever is killed in between.
THEOREM LockExcludes == Spec => []MutualExclusion
<1>1. LockInv => MutualExclusion
  BY DEF LockInv, SerialInv, Sole, Owning, HoldersExclude, MutualExclusion
<1> QED
  BY <1>1, LockInvariant, PTL

\* The lock of a holder stays in place with its pid when acquisitions do not overlap.
THEOREM LockNamesHolder == Spec => []HolderNamed
<1>1. LockInv => HolderNamed
  BY DEF LockInv, SerialInv, Found, Owning, HolderNamed
<1> QED
  BY <1>1, LockInvariant, PTL

-----------------------------------------------------------------------------
(* The commands. *)

Doing == {"none", "sync setup", "sync install", "sync uninstall", "rag setup", "rag install",
          "rag uninstall", "prune"}
Points == {"idle", "sync url", "save", "rename", "unlock", "sync load", "sync env", "write",
           "enable", "disable", "remove", "tunnel url", "rag load", "rag env", "load", "plan",
           "prune"}
Commands ==
    [doing : Doing, at : Points, loaded : Settings, url : Transports \cup {"none"},
     token : BOOLEAN, tunnel : BOOLEAN, install : BOOLEAN, unit : Units,
     plan : SUBSET SessionFiles, alone : BOOLEAN]

\* Between its read and its write of the settings a command still has them as they are.
Loaded(p) ==
    LET c == command[p] IN
    c.alone /\ c.at \in {"sync url", "plan", "save", "rename", "sync env", "rag env", "write", "enable"}
      => c.loaded = settings

\* What the commands at their points are and know.
Sensible(p) ==
    LET c == command[p] IN
    /\ c.at = "sync url" => c.doing = "sync setup"
    /\ c.at = "tunnel url" => c.doing = "rag setup" /\ c.tunnel
    /\ c.at \in {"load", "plan", "prune"} => c.doing = "prune"
    /\ c.at \in {"save", "rename", "unlock"} => c.doing \in {"sync setup", "rag setup", "prune"}
    /\ c.at \in {"save", "rename"} /\ c.doing = "sync setup"
         => c.url \in Transports /\ (c.alone => syncEnv = c.url)
    /\ c.at = "sync env" => c.url = c.loaded.transport
    /\ c.at \in {"load", "plan", "sync load", "sync env", "sync url", "save", "rename", "unlock",
                 "tunnel url"} => c.unit = "sync"
    /\ c.at = "rag env" => c.loaded.rag # "off"
    /\ c.at \in {"write", "enable"} /\ c.unit # "sync" => c.loaded.rag # "off"

\* Nothing is wrong with the RAG worker but a URL that the one setup in progress has yet to write.
Sound ==
    "rag" \notin torn /\ \A p \in Terminals : "rag" \in Unfinished(p) => command[p].alone

\* The database of the RAG worker, as the settings name it.
TunnelSet ==
    Whole("rag") /\ settings.rag = "tunnel" => ragEnv = [name |-> "tunnel", url |-> "tunnel"]

\* The unit of the worker is for the database of the settings, and comes after the tunnel.
Wanted ==
    Sound /\ wants = "tunnel" =>
        settings.rag = "tunnel" /\ (units["rag"] = "on" => units["tunnel"] = "on")

SyncServed == settings.enabled /\ Whole("sync") => syncEnv = settings.transport

\* What a command that nobody disturbed has done of an installation, and of a removal.
Installing(p) ==
    LET c == command[p] IN
    c.alone /\ Sound =>
        /\ c.at \in {"write", "enable"} /\ c.unit = "rag" /\ c.loaded.rag = "tunnel"
             => units["tunnel"] = "on"
        /\ c.at = "enable" /\ c.unit = "rag" => wants = c.loaded.rag
        /\ c.at = "remove" /\ c.unit # "sync" => units["rag"] # "on"
        /\ c.at = "disable" /\ c.unit = "tunnel" => units["rag"] # "on"

\* A command's own part of the invariant.
Own(p) == Loaded(p) /\ Sensible(p) /\ Installing(p)
ServedInv ==
    /\ \A p \in Terminals : Own(p)
    /\ Wanted /\ TunnelSet /\ SyncServed

\* Rows of pruned files are kept.
KeepsLoaded(p) ==
    LET c == command[p] IN
    /\ c.loaded.keep \/ (c.doing = "prune" /\ c.at \in {"unlock", "prune"}) => settings.keep
    /\ \A f \in c.plan : local[f] = "there" => mirrored[f] = "live"
KeptInv ==
    /\ ~overtaken =>
        /\ \A p \in Terminals : KeepsLoaded(p)
        /\ \A f \in SessionFiles : local[f] = "pruned" =>
             /\ mirrored[f] = "live" /\ settings.keep
             /\ daemon.at # "off" => daemon.keep

CommandsTypes == CommandsTypeOK /\ command \in [Terminals -> Commands]
CommandsInv == CommandsTypes /\ ServedInv /\ KeptInv

-----------------------------------------------------------------------------

\* A command that has ended knows nothing.
LEMMA OwnIdle ==
    ASSUME NEW p \in Terminals, command[p] = NoCommand
    PROVE  Own(p)
  BY DEF Own, Loaded, Sensible, Installing, NoCommand

\* Only the two setups can be left in part.
LEMMA UnfinishedSub ==
    ASSUME NEW p \in Terminals
    PROVE  Unfinished(p) \subseteq {"sync", "rag"}
  BY DEF Unfinished

\* A step of p that the others do not notice, and one that they do.
LEMMA ContinueType ==
    ASSUME NEW p \in Terminals, NEW c \in Commands, CommandsTypes, Continue(p, c)
    PROVE  /\ command' \in [Terminals -> Commands]
           /\ command'[p] = c
           /\ \A q \in Terminals \ {p} : command'[q] = command[q]
  BY DEF CommandsTypes, Continue

LEMMA WrittenType ==
    ASSUME NEW p \in Terminals, NEW c \in Commands, CommandsTypes, Written(p, c)
    PROVE  /\ command' \in [Terminals -> Commands]
           /\ command'[p] = c
           /\ \A q \in Terminals \ {p} :
                command'[q] = [command[q] EXCEPT !.alone = @ /\ command[q].at = "idle"]
  <1>1. \A q \in Terminals : [command[q] EXCEPT !.alone = @ /\ command[q].at = "idle"] \in Commands
    BY DEF CommandsTypes, Commands
  <1> QED BY <1>1 DEF CommandsTypes, Written

\* A step that writes nothing and ends nothing in the middle keeps what is not its own.
LEMMA QuietStep ==
    ASSUME NEW p \in Terminals, NEW c \in Commands, CommandsTypes, ServedInv, Continue(p, c),
           UNCHANGED <<settings, syncEnv, ragEnv, units, wants>>,
           torn \subseteq torn', Unfinished(p) \subseteq Unfinished(p)' \cup torn',
           "rag" \in Unfinished(p) /\ c.alone => command[p].alone \/ "rag" \in torn',
           Own(p)'
    PROVE  ServedInv'
  <1>1. /\ command' \in [Terminals -> Commands]
        /\ command'[p] = c
        /\ \A q \in Terminals \ {p} : command'[q] = command[q]
    BY ContinueType
  <1>0. \A q \in Terminals \ {p} : Unfinished(q)' = Unfinished(q)
    BY <1>1 DEF Unfinished
  <1>2. ASSUME NEW setup \in {"sync", "rag"}, Whole(setup)' PROVE Whole(setup)
    BY <1>2, <1>0 DEF Whole
  <1>s. Sound' => Sound
    BY <1>0, <1>1 DEF Sound
  <1>3. ASSUME NEW q \in Terminals PROVE Own(q)'
    <2>1. CASE q = p BY <2>1
    <2>2. CASE q # p
      <3>1. command'[q] = command[q] BY <2>2, <1>1
      <3>2. Loaded(q)' BY <3>1 DEF ServedInv, Own, Loaded
      <3>3. Sensible(q)' BY <3>1 DEF ServedInv, Own, Sensible
      <3>4. Installing(q)' BY <3>1, <1>s DEF ServedInv, Own, Installing
      <3> QED BY <3>2, <3>3, <3>4 DEF Own
    <2> QED BY <2>1, <2>2
  <1>4. TunnelSet' /\ SyncServed'
    BY <1>2 DEF ServedInv, TunnelSet, SyncServed
  <1>5. Wanted'
    BY <1>s DEF ServedInv, Wanted
  <1> QED BY <1>3, <1>4, <1>5 DEF ServedInv

\* After a write the other commands are known not to be alone.
LEMMA WriteStep ==
    ASSUME NEW p \in Terminals, NEW c \in Commands, CommandsTypes, ServedInv, Written(p, c),
           Own(p)', Wanted', TunnelSet', SyncServed'
    PROVE  ServedInv'
  <1>1. /\ command' \in [Terminals -> Commands]
        /\ command'[p] = c
        /\ \A q \in Terminals \ {p} :
             command'[q] = [command[q] EXCEPT !.alone = @ /\ command[q].at = "idle"]
    BY WrittenType
  <1>3. ASSUME NEW q \in Terminals PROVE Own(q)'
    <2>1. CASE q = p BY <2>1
    <2>2. CASE q # p
      <3>1. /\ command'[q].at = command[q].at /\ command'[q].doing = command[q].doing
            /\ command'[q].url = command[q].url /\ command'[q].unit = command[q].unit
            /\ command'[q].loaded = command[q].loaded /\ command'[q].tunnel = command[q].tunnel
            /\ command'[q].at # "idle" => ~command'[q].alone
        BY <2>2, <1>1 DEF CommandsTypes, Commands
      <3>2. Loaded(q)' BY <3>1 DEF Loaded
      <3>3. Sensible(q)' BY <3>1 DEF ServedInv, Own, Sensible
      <3>4. Installing(q)' BY <3>1 DEF Installing
      <3> QED BY <3>2, <3>3, <3>4 DEF Own
    <2> QED BY <2>1, <2>2
  <1> QED BY <1>3 DEF ServedInv

\* What is whole after a write of p was whole before it, or p mended it.
LEMMA WholeBefore ==
    ASSUME NEW p \in Terminals, NEW c \in Commands, CommandsTypes, Written(p, c),
           NEW setup \in {"sync", "rag"}, setup \in torn => setup \in torn',
           setup \in Unfinished(p) => setup \in Unfinished(p)' \cup torn', Whole(setup)'
    PROVE  Whole(setup)
  <1>1. /\ command' \in [Terminals -> Commands]
        /\ command'[p] = c
        /\ \A q \in Terminals \ {p} :
             command'[q] = [command[q] EXCEPT !.alone = @ /\ command[q].at = "idle"]
    BY WrittenType
  <1>2. \A q \in Terminals \ {p} :
            /\ command'[q].at = command[q].at /\ command'[q].doing = command[q].doing
            /\ command'[q].tunnel = command[q].tunnel
    BY <1>1 DEF CommandsTypes, Commands
  <1>3. \A q \in Terminals \ {p} : Unfinished(q)' = Unfinished(q)
    BY <1>2 DEF Unfinished
  <1> QED BY <1>3 DEF Whole

\* The RAG worker was as sound before a write.
LEMMA SoundBefore ==
    ASSUME NEW p \in Terminals, NEW c \in Commands, CommandsTypes, Written(p, c),
           "rag" \in torn => "rag" \in torn',
           "rag" \in Unfinished(p) => command[p].alone \/ "rag" \in torn', Sound'
    PROVE  Sound
  <1>1. /\ command' \in [Terminals -> Commands]
        /\ command'[p] = c
        /\ \A q \in Terminals \ {p} :
             command'[q] = [command[q] EXCEPT !.alone = @ /\ command[q].at = "idle"]
    BY WrittenType
  <1>2. \A q \in Terminals \ {p} :
            /\ command'[q].at = command[q].at /\ command'[q].doing = command[q].doing
            /\ command'[q].tunnel = command[q].tunnel
            /\ command'[q].alone = (command[q].alone /\ command[q].at = "idle")
    BY <1>1 DEF CommandsTypes, Commands
  <1>3. \A q \in Terminals \ {p} : Unfinished(q)' = Unfinished(q)
    BY <1>2 DEF Unfinished
  <1>4. \A q \in Terminals : command[q].alone \in BOOLEAN BY DEF CommandsTypes, Commands
  <1> QED BY <1>2, <1>3, <1>4 DEF Sound

\* Commands go on as commands.
LEMMA NoCommandType == NoCommand \in Commands
  BY DEF NoCommand, Commands, Defaults, Doing, Points, Settings, Transports, Units

LEMMA StepType ==
    ASSUME NEW p \in Terminals, CommandsTypes
    PROVE  /\ \A step \in Points : Step(p, step) \in Commands
           /\ \A step \in Points, unit \in Units : UnitStep(p, unit, step) \in Commands
           /\ \A step \in Points, url \in Transports \cup {"none"} :
                [Step(p, step) EXCEPT !.url = url] \in Commands
           /\ \A step \in Points : [Step(p, step) EXCEPT !.loaded = settings, !.alone = TRUE] \in Commands
           /\ \A step \in Points, url \in Transports \cup {"none"} :
                [Step(p, step) EXCEPT !.loaded = settings, !.url = url, !.alone = TRUE] \in Commands
           /\ \A step \in Points, plan \in SUBSET SessionFiles :
                [Step(p, step) EXCEPT !.plan = plan] \in Commands
  <1>1. command[p] \in Commands /\ settings \in Settings BY DEF CommandsTypes, CommandsTypeOK
  <1> QED BY <1>1 DEF Commands, Step, UnitStep

LEMMA StepFields ==
    ASSUME NEW p \in Terminals, command[p] \in Commands, NEW step
    PROVE  /\ Step(p, step).at = step /\ Step(p, step).doing = command[p].doing
           /\ Step(p, step).loaded = command[p].loaded /\ Step(p, step).url = command[p].url
           /\ Step(p, step).tunnel = command[p].tunnel /\ Step(p, step).unit = command[p].unit
           /\ Step(p, step).plan = command[p].plan /\ Step(p, step).alone = command[p].alone
           /\ Step(p, step).install = command[p].install
  BY DEF Step, Commands

LEMMA UnitStepFields ==
    ASSUME NEW p \in Terminals, command[p] \in Commands, NEW unit, NEW step
    PROVE  /\ UnitStep(p, unit, step).at = step /\ UnitStep(p, unit, step).unit = unit
           /\ UnitStep(p, unit, step).loaded = command[p].loaded
           /\ UnitStep(p, unit, step).alone = command[p].alone
  BY DEF UnitStep, Commands

\* What a command starts with.
Starting(c) ==
    /\ c.alone /\ c.doing # "none" /\ c.plan = {}
    /\ \/ c.unit = "sync" /\ c.at \in {"sync url", "sync load", "rag load", "load", "save", "disable"}
       \/ c.unit = "rag" /\ c.at = "disable"
    /\ c.at = "sync url" => c.doing = "sync setup"
    /\ c.at = "load" => c.doing = "prune"
    /\ c.at = "save" => c.doing = "rag setup"

LEMMA CommandStarting ==
    ASSUME NEW p \in Terminals, CommandStarts(p)
    PROVE  \E c \in Commands : Begin(p, c) /\ Starting(c)
  <1>1. CASE SyncSetup(p)
    <2>1. PICK url \in Transports \cup {"none"}, install \in BOOLEAN, token \in BOOLEAN :
            Begin(p, [NoCommand EXCEPT !.doing = "sync setup", !.at = "sync url",
                                 !.url = url, !.token = token, !.install = install])
      BY <1>1 DEF SyncSetup
    <2> DEFINE c == [NoCommand EXCEPT !.doing = "sync setup", !.at = "sync url",
                                 !.url = url, !.token = token, !.install = install]
    <2>2. c \in Commands BY NoCommandType DEF Commands, Doing, Points
    <2>3. Starting(c) BY DEF Starting, NoCommand
    <2> QED BY <2>1, <2>2, <2>3
  <1>2. CASE RagSetup(p)
    <2>1. PICK tunnel \in BOOLEAN, install \in BOOLEAN :
            Begin(p, [NoCommand EXCEPT !.doing = "rag setup", !.at = "save",
                             !.tunnel = tunnel, !.install = install])
      BY <1>2 DEF RagSetup
    <2> DEFINE c == [NoCommand EXCEPT !.doing = "rag setup", !.at = "save",
                             !.tunnel = tunnel, !.install = install]
    <2>2. c \in Commands BY NoCommandType DEF Commands, Doing, Points
    <2>3. Starting(c) BY DEF Starting, NoCommand
    <2> QED BY <2>1, <2>2, <2>3
  <1>3. CASE SyncInstall(p)
    <2> DEFINE c == [NoCommand EXCEPT !.doing = "sync install", !.at = "sync load"]
    <2>1. c \in Commands BY NoCommandType DEF Commands, Doing, Points
    <2>2. Starting(c) BY DEF Starting, NoCommand
    <2> QED BY <1>3, <2>1, <2>2 DEF SyncInstall
  <1>4. CASE SyncUninstall(p)
    <2> DEFINE c == [NoCommand EXCEPT !.doing = "sync uninstall", !.at = "disable"]
    <2>1. c \in Commands BY NoCommandType DEF Commands, Doing, Points
    <2>2. Starting(c) BY DEF Starting, NoCommand
    <2> QED BY <1>4, <2>1, <2>2 DEF SyncUninstall
  <1>5. CASE RagInstall(p)
    <2> DEFINE c == [NoCommand EXCEPT !.doing = "rag install", !.at = "rag load"]
    <2>1. c \in Commands BY NoCommandType DEF Commands, Doing, Points
    <2>2. Starting(c) BY DEF Starting, NoCommand
    <2> QED BY <1>5, <2>1, <2>2 DEF RagInstall
  <1>6. CASE RagUninstall(p)
    <2> DEFINE c == [NoCommand EXCEPT !.doing = "rag uninstall", !.at = "disable", !.unit = "rag"]
    <2>1. c \in Commands BY NoCommandType DEF Commands, Doing, Points, Units
    <2>2. Starting(c) BY DEF Starting, NoCommand
    <2> QED BY <1>6, <2>1, <2>2 DEF RagUninstall
  <1>7. CASE Prune(p)
    <2> DEFINE c == [NoCommand EXCEPT !.doing = "prune", !.at = "load"]
    <2>1. c \in Commands BY NoCommandType DEF Commands, Doing, Points
    <2>2. Starting(c) BY DEF Starting, NoCommand
    <2> QED BY <1>7, <2>1, <2>2 DEF Prune
  <1> QED BY <1>1, <1>2, <1>3, <1>4, <1>5, <1>6, <1>7 DEF CommandStarts

LEMMA AfterSaveType ==
    ASSUME NEW p \in Terminals, CommandsTypes
    PROVE  AfterSave(p) \in Commands
  BY StepType, Zenon, NoCommandType DEF AfterSave, Points

\* The settings after a save.
LEMMA SavedType ==
    ASSUME NEW p \in Terminals, CommandsTypes, ServedInv, command[p].at = "rename"
    PROVE  Saved(p) \in Settings
  <1>1. command[p] \in Commands BY DEF CommandsTypes
  <1>2. /\ command[p].doing \in {"sync setup", "rag setup", "prune"}
        /\ command[p].doing = "sync setup" => command[p].url \in Transports
    BY DEF ServedInv, Own, Sensible
  <1> QED BY <1>1, <1>2 DEF Saved, Commands, Settings

\* Every step of the commands keeps the types.
LEMMA TypePreserved ==
    ASSUME CommandsTypes, ServedInv, [CommandsNext]_commandvars
    PROVE  CommandsTypes'
  <1> USE DEF CommandsTypes
  <1> DEFINE Rest == /\ UNCHANGED <<settingsvars, syncEnv, ragEnv, servicevars, filevars>>
                     /\ torn' \subseteq {"sync", "rag"}
  <1>0. ASSUME Rest, command' \in [Terminals -> Commands] PROVE CommandsTypes'
    BY <1>0 DEF CommandsTypeOK, settingsvars, servicevars, filevars, Commands
  <1>f. ASSUME NEW p \in Terminals, NEW c \in Commands, Continue(p, c) PROVE command' \in [Terminals -> Commands]
    BY <1>f, ContinueType
  <1>w. ASSUME NEW p \in Terminals, NEW c \in Commands, Written(p, c) PROVE command' \in [Terminals -> Commands]
    BY <1>w, WrittenType
  <1>c. \A p \in Terminals : command[p] \in Commands OBVIOUS
  <1>t. torn \subseteq {"sync", "rag"} BY DEF CommandsTypeOK
  <1>b. ASSUME NEW p \in Terminals, NEW c \in Commands, Begin(p, c) PROVE CommandsTypes'
    <2>1. [c EXCEPT !.loaded = settings] \in Commands BY DEF Commands, CommandsTypeOK
    <2> QED BY <1>b, <1>0, <1>f, <1>t, <2>1 DEF Begin
  <1>a. ASSUME NEW p \in Terminals, CommandStarts(p) PROVE CommandsTypes'
    BY <1>a, <1>b, CommandStarting
  <1>1. ASSUME NEW p \in Terminals, LockSettings(p) PROVE CommandsTypes'
    <2>1. settingsLock' \in Terminals \cup {"free"} /\ torn' \subseteq {"sync", "rag"}
      BY <1>1, <1>t, UnfinishedSub DEF LockSettings, Fail, CommandsTypeOK
    <2>2. command' \in [Terminals -> Commands]
      BY <1>1, <1>f, StepType, Zenon, NoCommandType DEF LockSettings, Fail, Points
    <2> QED BY <1>1, <2>1, <2>2 DEF LockSettings, CommandsTypeOK, servicevars, filevars, Commands
  <1>2. ASSUME NEW p \in Terminals, RenameSettings(p) PROVE CommandsTypes'
    <2>1. settings' \in Settings /\ torn' \subseteq {"sync", "rag"}
      BY <1>2, <1>t, SavedType DEF RenameSettings, TornBy
    <2>2. command' \in [Terminals -> Commands]
      BY <1>2, <1>w, StepType, Zenon DEF RenameSettings, Points
    <2> QED BY <1>2, <2>1, <2>2, ZenonT(30) DEF RenameSettings, CommandsTypeOK, servicevars, filevars, Commands
  <1>3. ASSUME NEW p \in Terminals, UnlockSettings(p) PROVE CommandsTypes'
    <2>2. command' \in [Terminals -> Commands]
      BY <1>3, <1>f, AfterSaveType DEF UnlockSettings
    <2> QED BY <1>3, <2>2 DEF UnlockSettings, CommandsTypeOK, servicevars, filevars, Commands
  <1>4. ASSUME NEW p \in Terminals, WriteSyncURL(p) PROVE CommandsTypes'
    <2>1. SetupURL(p) \in Transports \cup {"none"}
      BY <1>c DEF SetupURL, Commands, CommandsTypeOK
    <2>2. command' \in [Terminals -> Commands]
      BY <1>4, <1>f, <1>w, StepType, Zenon, NoCommandType, <2>1 DEF WriteSyncURL, Points
    <2> QED BY <1>4, <2>1, <2>2, ZenonT(30) DEF WriteSyncURL, CommandsTypeOK, settingsvars, servicevars, filevars, Commands
  <1>5. ASSUME NEW p \in Terminals, LoadToInstall(p) PROVE CommandsTypes'
    <2> DEFINE url == IF command[p].url = "none" /\ syncEnv = settings.transport THEN syncEnv ELSE command[p].url
    <2>1. url \in Transports \cup {"none"}
      BY <1>c DEF Commands, CommandsTypeOK
    <2>2. command' \in [Terminals -> Commands]
      BY <1>5, <1>f, StepType, Zenon, NoCommandType, <2>1 DEF LoadToInstall, Points
    <2> QED BY <1>5, <1>0, <1>t, <2>2 DEF LoadToInstall
  <1>6. ASSUME NEW p \in Terminals, RewriteSyncEnv(p) PROVE CommandsTypes'
    <2>2. command' \in [Terminals -> Commands]
      BY <1>6, <1>w, StepType, Zenon DEF RewriteSyncEnv, Points
    <2>3. syncEnv' \in Transports \cup {"none"} /\ torn' \subseteq {"sync", "rag"}
      BY <1>6, <1>c, <1>t DEF RewriteSyncEnv, Commands, TornBy
    <2> QED BY <1>6, <2>2, <2>3 DEF RewriteSyncEnv, CommandsTypeOK, settingsvars, servicevars, filevars, Commands
  <1>7. ASSUME NEW p \in Terminals, WriteUnit(p) PROVE CommandsTypes'
    <2>1. command[p] \in Commands /\ command[p].at = "write" BY <1>7, <1>c DEF WriteUnit
    <2>2. command' \in [Terminals -> Commands]
      BY <1>7, <1>w, StepType, Zenon DEF WriteUnit, Points
    <2>3. /\ units' \in [Units -> {"none", "written", "on"}] /\ torn' \subseteq {"sync", "rag"}
          /\ wants' \in {"none", "direct", "tunnel"}
      <3>1. command[p].unit = "rag" => command[p].loaded.rag \in {"direct", "tunnel"}
        BY <2>1 DEF ServedInv, Own, Sensible, Commands, Settings
      <3> QED BY <1>7, <2>1, <1>t, <3>1 DEF WriteUnit, CommandsTypeOK, Commands, TornBy
    <2> QED BY <1>7, <2>2, <2>3 DEF WriteUnit, CommandsTypeOK, settingsvars, servicevars, filevars, Commands
  <1>8. ASSUME NEW p \in Terminals, EnableUnit(p) PROVE CommandsTypes'
    <2>1. command[p] \in Commands BY <1>c
    <2>2. command' \in [Terminals -> Commands]
      BY <1>8, <1>w, <1>f, StepType, Zenon, NoCommandType DEF EnableUnit, Fail, Points, Units
    <2>3. units' \in [Units -> {"none", "written", "on"}] /\ torn' \subseteq {"sync", "rag"}
      BY <1>8, <2>1, <1>t, UnfinishedSub DEF EnableUnit, Fail, CommandsTypeOK, Commands, TornBy
    <2> QED BY <1>8, <2>2, <2>3 DEF EnableUnit, CommandsTypeOK, settingsvars, filevars, Commands
  <1>9. ASSUME NEW p \in Terminals, DisableUnit(p) PROVE CommandsTypes'
    <2>1. command[p] \in Commands BY <1>c
    <2>2. command' \in [Terminals -> Commands]
      BY <1>9, <1>w, StepType, Zenon DEF DisableUnit, Points
    <2>3. /\ units' \in [Units -> {"none", "written", "on"}] /\ torn' \subseteq {"sync", "rag"}
          /\ daemon' \in [at : {"off", "starting", "up"}, transport : Transports, keep : BOOLEAN]
      <3>1. units' \in [Units -> {"none", "written", "on"}] /\ torn' \subseteq {"sync", "rag"}
        <4>1. torn' = torn \cup TornBy(p) \/ torn' = torn \cup {"rag"}
          BY <1>9 DEF DisableUnit
        <4>2. \/ units' = units
              \/ units' = [units EXCEPT ![command[p].unit] = IF @ = "on" THEN "written" ELSE @]
          BY <1>9 DEF DisableUnit
        <4>3. units \in [Units -> {"none", "written", "on"}] BY DEF CommandsTypeOK
        <4> QED BY <4>1, <4>2, <4>3, <1>t DEF TornBy
      <3>2. daemon' = daemon \/ daemon' = NotRunning
        BY <1>9 DEF DisableUnit
      <3>3. NotRunning \in [at : {"off", "starting", "up"}, transport : Transports, keep : BOOLEAN]
        BY DEF NotRunning, Transports
      <3> QED BY <3>1, <3>2, <3>3 DEF CommandsTypeOK
    <2> QED BY <1>9, <2>2, <2>3 DEF DisableUnit, CommandsTypeOK, settingsvars, filevars, Commands
  <1>10. ASSUME NEW p \in Terminals, RemoveUnit(p) PROVE CommandsTypes'
    <2>1. command[p] \in Commands BY <1>c
    <2>2. command' \in [Terminals -> Commands]
      BY <1>10, <1>w, StepType, Zenon, NoCommandType DEF RemoveUnit, Points, Units
    <2>3. units' \in [Units -> {"none", "written", "on"}]
      BY <1>10, <2>1 DEF RemoveUnit, CommandsTypeOK, Commands
    <2> QED BY <1>10, <2>2, <2>3 DEF RemoveUnit, CommandsTypeOK, settingsvars, filevars, Commands
  <1>11. ASSUME NEW p \in Terminals, WriteTunnelURL(p) PROVE CommandsTypes'
    <2>2. command' \in [Terminals -> Commands]
      BY <1>11, <1>w, <1>f, StepType, Zenon, NoCommandType DEF WriteTunnelURL, Fail, Points
    <2>3. /\ ragEnv' \in [name : {"none", "direct", "tunnel"}, url : {"none", "postgres", "tunnel"}]
          /\ torn' \subseteq {"sync", "rag"}
      <3>1. ragEnv' = [name |-> "tunnel", url |-> "tunnel"] \/ ragEnv' = ragEnv
        BY <1>11 DEF WriteTunnelURL
      <3>2. torn' = torn \cup TornBy(p) \/ torn' = torn \cup Unfinished(p)
        BY <1>11 DEF WriteTunnelURL, Fail
      <3>3. Unfinished(p) \subseteq {"sync", "rag"} BY UnfinishedSub
      <3>4. torn' \subseteq {"sync", "rag"} BY <3>2, <3>3, <1>t DEF TornBy
      <3> QED BY <3>1, <3>4 DEF CommandsTypeOK
    <2> QED BY <1>11, <2>2, <2>3 DEF WriteTunnelURL, CommandsTypeOK, settingsvars, servicevars, filevars, Commands
  <1>12. ASSUME NEW p \in Terminals, LoadToInstallRag(p) PROVE CommandsTypes'
    <2>2. command' \in [Terminals -> Commands]
      BY <1>12, <1>f, StepType, Zenon, NoCommandType DEF LoadToInstallRag, Points
    <2> QED BY <1>12, <1>0, <1>t, <2>2 DEF LoadToInstallRag
  <1>13. ASSUME NEW p \in Terminals, WriteRagEnv(p) PROVE CommandsTypes'
    <2>1. command[p] \in Commands /\ command[p].loaded.rag \in {"direct", "tunnel"}
      BY <1>13, <1>c DEF WriteRagEnv, ServedInv, Own, Sensible, Commands, Settings
    <2>2. command' \in [Terminals -> Commands]
      BY <1>13, <1>w, StepType, Zenon DEF WriteRagEnv, Points, Units
    <2>3. /\ ragEnv' \in [name : {"none", "direct", "tunnel"}, url : {"none", "postgres", "tunnel"}]
          /\ torn' \subseteq {"sync", "rag"}
      <3>1. ragEnv \in [name : {"none", "direct", "tunnel"}, url : {"none", "postgres", "tunnel"}]
        BY DEF CommandsTypeOK
      <3>2. RagURL(p) \in {"none", "postgres", "tunnel"} BY <3>1 DEF RagURL
      <3>3. ragEnv' = ragEnv \/ ragEnv' = [name |-> command[p].loaded.rag, url |-> RagURL(p)]
        BY <1>13 DEF WriteRagEnv
      <3>4. torn' \subseteq {"sync", "rag"} BY <1>13, <1>t DEF WriteRagEnv, TornBy
      <3>5. \A name \in {"direct", "tunnel"}, url \in {"none", "postgres", "tunnel"} :
               [name |-> name, url |-> url]
                 \in [name : {"none", "direct", "tunnel"}, url : {"none", "postgres", "tunnel"}]
        OBVIOUS
      <3>6. [name |-> command[p].loaded.rag, url |-> RagURL(p)]
                 \in [name : {"none", "direct", "tunnel"}, url : {"none", "postgres", "tunnel"}]
        BY <2>1, <3>2, <3>5
      <3> QED BY <3>1, <3>3, <3>4, <3>6
    <2> QED BY <1>13, <2>2, <2>3 DEF WriteRagEnv, CommandsTypeOK, settingsvars, servicevars, filevars, Commands
  <1>14. ASSUME NEW p \in Terminals, LoadToPrune(p) PROVE CommandsTypes'
    <2>1. [Step(p, "plan") EXCEPT !.loaded = settings] \in Commands
      <3>1. Step(p, "plan") \in Commands BY StepType, Zenon DEF Points
      <3> QED BY <3>1 DEF Commands, CommandsTypeOK
    <2>2. command' \in [Terminals -> Commands]
      BY <1>14, <1>f, NoCommandType, <2>1 DEF LoadToPrune
    <2> QED BY <1>14, <1>0, <1>t, <2>2 DEF LoadToPrune
  <1>15. ASSUME NEW p \in Terminals, Plan(p) PROVE CommandsTypes'
    <2>2. command' \in [Terminals -> Commands]
      BY <1>15, <1>f, StepType, Zenon, NoCommandType DEF Plan, Planned, Points
    <2> QED BY <1>15, <1>0, <1>t, <2>2 DEF Plan
  <1>16. ASSUME NEW p \in Terminals, PruneFile(p) PROVE CommandsTypes'
    <2>1. \A f \in SessionFiles : [command[p] EXCEPT !.plan = @ \ {f}] \in Commands
      BY <1>c DEF Commands
    <2>2. PICK f \in command[p].plan :
         IF local[f] = "there"
           THEN /\ local' = [local EXCEPT ![f] = "pruned"]
                /\ Continue(p, IF command[p].plan = {f} THEN NoCommand
                               ELSE [command[p] EXCEPT !.plan = @ \ {f}])
           ELSE Continue(p, NoCommand) /\ UNCHANGED local
      BY <1>16 DEF PruneFile
    <2>3. f \in SessionFiles BY <1>c DEF Commands
    <2>4. command' \in [Terminals -> Commands] /\ local' \in [SessionFiles -> {"there", "pruned", "removed"}]
      BY <2>1, <2>2, <2>3, <1>f, NoCommandType DEF CommandsTypeOK
    <2> QED BY <1>16, <2>4 DEF PruneFile, CommandsTypeOK, settingsvars, servicevars, Commands
  <1>17. ASSUME NEW p \in Terminals, Kill(p) PROVE CommandsTypes'
    <2>1. torn' \subseteq {"sync", "rag"} BY <1>17, <1>t, UnfinishedSub DEF Kill, Fail
    <2>2. command' \in [Terminals -> Commands] BY <1>17, <1>f, NoCommandType DEF Kill, Fail
    <2> QED BY <1>17, <1>0, <2>1, <2>2 DEF Kill
  <1>18. ASSUME DaemonLoads \/ DaemonLocks \/ DaemonStops PROVE CommandsTypes'
    <2>1. settings.transport \in Transports /\ settings.keep \in BOOLEAN
      BY DEF CommandsTypeOK, Settings
    <2>2. daemon \in [at : {"off", "starting", "up"}, transport : Transports, keep : BOOLEAN]
      BY DEF CommandsTypeOK
    <2>3. daemon' \in [at : {"off", "starting", "up"}, transport : Transports, keep : BOOLEAN]
      <3>1. CASE DaemonLoads BY <3>1, <2>1 DEF DaemonLoads
      <3>2. CASE DaemonLocks BY <3>2, <2>2 DEF DaemonLocks
      <3>3. CASE DaemonStops BY <3>3 DEF DaemonStops, NotRunning, Transports
      <3> QED BY <1>18, <3>1, <3>2, <3>3
    <2>4. UNCHANGED <<settingsvars, syncEnv, ragEnv, units, wants, filevars, command, torn>>
      BY <1>18 DEF DaemonLoads, DaemonLocks, DaemonStops
    <2> QED BY <2>3, <2>4 DEF CommandsTypeOK, settingsvars, filevars
  <1>19. ASSUME NEW f \in SessionFiles, DaemonPasses(f) \/ UserRemoves(f) PROVE CommandsTypes'
    <2>1. /\ local' \in [SessionFiles -> {"there", "pruned", "removed"}]
          /\ mirrored' \in [SessionFiles -> {"none", "live", "deleted"}]
          /\ UNCHANGED <<settingsvars, syncEnv, ragEnv, servicevars, command, torn>>
      BY <1>19 DEF DaemonPasses, UserRemoves, CommandsTypeOK
    <2> QED BY <2>1 DEF CommandsTypeOK, settingsvars, servicevars
  <1>20. CASE UNCHANGED commandvars
    BY <1>20, <1>0, <1>t DEF commandvars
  <1> QED
    BY <1>a, <1>1, <1>2, <1>3, <1>4, <1>5, <1>6, <1>7, <1>8, <1>9, <1>10, <1>11, <1>12, <1>13, <1>14,
       <1>15, <1>16, <1>17, <1>18, <1>19, <1>20
    DEF CommandsNext, CommandStep

-----------------------------------------------------------------------------

\* Every step of the commands, of the daemon and of the users keeps what is set up served: a
\* write by a command that another has overtaken tears, one by a command that was alone has
\* read what it builds on.
LEMMA ServedPreserved ==
    ASSUME CommandsTypes, ServedInv, [CommandsNext]_commandvars
    PROVE  ServedInv'
  <1>t. CommandsTypes' BY TypePreserved
  <1>c. \A p \in Terminals : command[p] \in Commands BY DEF CommandsTypes
  <1> DEFINE Same == UNCHANGED <<settings, syncEnv, ragEnv, units, wants>>
  \* A step that only goes on.
  <1>q. ASSUME NEW p \in Terminals, NEW c \in Commands, Continue(p, c), Same,
               torn \subseteq torn', Unfinished(p) \subseteq Unfinished(p)' \cup torn',
               "rag" \in Unfinished(p) /\ c.alone => command[p].alone \/ "rag" \in torn', Own(p)'
        PROVE  ServedInv'
    BY <1>q, QuietStep
  <1>n. ASSUME NEW p \in Terminals, Continue(p, NoCommand) PROVE Own(p)' /\ command'[p] = NoCommand
    <2>1. command'[p] = NoCommand BY <1>n, ContinueType, NoCommandType
    <2> QED BY <2>1 DEF Own, Loaded, Sensible, Installing, NoCommand
  \* A step that ends the command.
  <1>f. ASSUME NEW p \in Terminals, Continue(p, NoCommand), Same, torn \subseteq torn', Unfinished(p) \subseteq torn'
        PROVE  ServedInv'
    BY <1>f, <1>n, <1>q, NoCommandType
  <1>w. ASSUME NEW p \in Terminals, Written(p, NoCommand) PROVE Own(p)' /\ command'[p] = NoCommand
    <2>1. command'[p] = NoCommand BY <1>w, WrittenType, NoCommandType
    <2> QED BY <2>1 DEF Own, Loaded, Sensible, Installing, NoCommand
  <1>b. ASSUME NEW p \in Terminals, NEW c \in Commands, Begin(p, c), Starting(c)
        PROVE  ServedInv'
    <2> DEFINE d == [c EXCEPT !.loaded = settings]
    <2>1. d \in Commands /\ d.loaded = settings /\ d.at = c.at /\ d.doing = c.doing /\ d.unit = c.unit
      BY DEF Commands, CommandsTypes, CommandsTypeOK
    <2>2. Continue(p, d) /\ Same /\ torn' = torn /\ command[p].at = "idle"
      BY <1>b DEF Begin, settingsvars, servicevars
    <2> HIDE DEF d
    <2>3. command'[p] = d BY <2>1, <2>2, ContinueType
    <2>4. Own(p)'
      BY <1>b, <2>1, <2>2, <2>3 DEF Starting, Own, Loaded, Sensible, Installing
    <2>5. Unfinished(p) = {} BY <2>2 DEF Unfinished
    <2> QED BY <1>q, <2>1, <2>2, <2>4, <2>5
  <1>a. ASSUME NEW p \in Terminals, CommandStarts(p) PROVE ServedInv'
    BY <1>a, <1>b, CommandStarting DEF Starting
  <1>1. ASSUME NEW p \in Terminals, LockSettings(p) PROVE ServedInv'
    <2>0. Same /\ command[p].at = "save" BY <1>1 DEF LockSettings, servicevars
    <2>1. CASE Fail(p) BY <2>0, <2>1, <1>f DEF Fail
    <2>2. CASE Continue(p, Step(p, "rename")) /\ torn' = torn
      <3>1. command'[p] = Step(p, "rename") /\ Step(p, "rename") \in Commands
        BY <2>2, StepType, Zenon, ContinueType DEF Points
      <3> DEFINE d == command'[p]
      <3>2. /\ d.at = "rename" /\ d.doing = command[p].doing /\ d.loaded = command[p].loaded
            /\ d.url = command[p].url /\ d.alone = command[p].alone /\ d.unit = command[p].unit
            /\ d.tunnel = command[p].tunnel
        BY <3>1, <1>c DEF Step, Commands
      <3>3. Own(p)' BY <2>0, <3>2 DEF ServedInv, Own, Loaded, Sensible, Installing
      <3>4. Unfinished(p) \subseteq Unfinished(p)' BY <2>0, <3>2 DEF Unfinished
      <3> QED BY <2>0, <2>2, <3>1, <3>2, <3>3, <3>4, <1>q
    <2> QED BY <1>1, <2>1, <2>2 DEF LockSettings
  <1>3. ASSUME NEW p \in Terminals, UnlockSettings(p) PROVE ServedInv'
    <2>0. Same /\ command[p].at = "unlock" /\ torn' = torn /\ Continue(p, AfterSave(p))
      BY <1>3 DEF UnlockSettings, servicevars
    <2>1. command'[p] = AfterSave(p) /\ AfterSave(p) \in Commands
      BY <2>0, AfterSaveType, ContinueType
    <2> DEFINE d == command'[p]
    <2>2. \/ d = NoCommand /\ ~(command[p].doing = "rag setup" /\ command[p].tunnel)
          \/ /\ d.doing = command[p].doing /\ d.tunnel = command[p].tunnel
             /\ d.unit = command[p].unit /\ d.alone = command[p].alone
             /\ \/ d.at = "prune" /\ d.doing = "prune"
                \/ d.at = "tunnel url" /\ d.doing = "rag setup" /\ d.tunnel
                \/ d.at = "rag load" /\ ~d.tunnel
                \/ d.at = "sync load" /\ d.doing = "sync setup"
      <3>0. command[p] \in Commands BY <1>c
      <3>1. \/ AfterSave(p) = Step(p, "prune") /\ command[p].doing = "prune"
            \/ AfterSave(p) = Step(p, "tunnel url") /\ command[p].doing = "rag setup" /\ command[p].tunnel
            \/ AfterSave(p) = Step(p, "rag load") /\ ~command[p].tunnel
            \/ AfterSave(p) = Step(p, "sync load") /\ command[p].doing = "sync setup"
            \/ AfterSave(p) = NoCommand /\ ~(command[p].doing = "rag setup" /\ command[p].tunnel)
        BY <3>0 DEF AfterSave, Commands
      <3>2. ASSUME NEW step, AfterSave(p) = Step(p, step)
            PROVE  /\ d.at = step /\ d.doing = command[p].doing /\ d.tunnel = command[p].tunnel
                   /\ d.unit = command[p].unit /\ d.alone = command[p].alone
        BY <2>1, <3>0, <3>2, StepFields
      <3> HIDE DEF d
      <3>3. AfterSave(p) = NoCommand => d = NoCommand BY <2>1 DEF d
      <3> QED BY <3>1, <3>2, <3>3
    <2>3. Own(p)'
      <3>1. CASE d = NoCommand BY <3>1 DEF Own, Loaded, Sensible, Installing, NoCommand
      <3>2. CASE d # NoCommand
        <4>1. /\ d.at \in {"prune", "tunnel url", "rag load", "sync load"}
              /\ d.at = "prune" => d.doing = "prune"
              /\ d.at = "tunnel url" => d.doing = "rag setup" /\ d.tunnel
              /\ d.unit = "sync"
          BY <2>0, <2>2, <3>2 DEF ServedInv, Own, Sensible
        <4> QED BY <4>1 DEF Own, Loaded, Sensible, Installing
      <3> QED BY <3>1, <3>2
    <2>4. Unfinished(p) \subseteq Unfinished(p)' BY <2>0, <2>2 DEF Unfinished
    <2>5. "rag" \in Unfinished(p) => d.alone = command[p].alone BY <2>0, <2>2 DEF Unfinished
    <2> QED BY <2>0, <2>1, <2>3, <2>4, <2>5, <1>q
  \* RenameSettings: what is whole afterwards was written by a command that was alone.
  <1>2. ASSUME NEW p \in Terminals, RenameSettings(p) PROVE ServedInv'
    <2> DEFINE c == command[p]
               d == Step(p, "unlock")
    <2>0. /\ c.at = "rename" /\ settings' = Saved(p) /\ Written(p, d)
          /\ UNCHANGED <<syncEnv, ragEnv, units, wants>>
          /\ torn' = (IF c.doing = "sync setup" THEN torn \ {"sync"} ELSE torn) \cup TornBy(p)
      BY <1>2 DEF RenameSettings, servicevars
    <2>1. /\ c \in Commands /\ d \in Commands
          /\ d.at = "unlock" /\ d.doing = c.doing /\ d.tunnel = c.tunnel /\ d.unit = c.unit
      BY StepType, Zenon, StepFields, <1>c DEF Points
    <2>2. command'[p] = d BY <2>0, <2>1, WrittenType
    <2>3. /\ c.doing \in {"sync setup", "rag setup", "prune"}
          /\ c.doing = "sync setup" => (c.alone => syncEnv = c.url)
          /\ c.alone => c.loaded = settings
          /\ c.unit = "sync"
      BY <2>0 DEF ServedInv, Own, Sensible, Loaded
    <2>4. c.loaded \in Settings /\ settings \in Settings BY <2>1 DEF Commands, CommandsTypes, CommandsTypeOK
    <2>5. /\ settings'.rag = IF c.doing = "rag setup" THEN IF c.tunnel \/ c.loaded.rag = "tunnel" THEN "tunnel" ELSE "direct" ELSE c.loaded.rag
          /\ settings'.enabled = IF c.doing = "sync setup" THEN TRUE ELSE c.loaded.enabled
          /\ settings'.transport = IF c.doing = "sync setup" THEN c.url ELSE c.loaded.transport
      <3>1. CASE c.doing = "sync setup" BY <2>0, <2>4, <3>1 DEF Saved, Settings
      <3>2. CASE c.doing = "rag setup" BY <2>0, <2>4, <3>2 DEF Saved, Settings
      <3>3. CASE c.doing = "prune" BY <2>0, <2>4, <3>3 DEF Saved, Settings
      <3> QED BY <2>3, <3>1, <3>2, <3>3
    <2> HIDE DEF d
    <2>6. Own(p)'
      BY <2>1, <2>2, <2>3 DEF Own, Loaded, Sensible, Installing
    <2>7. ASSUME NEW setup \in {"sync", "rag"}, Whole(setup)' PROVE c.alone
      BY <2>0, <2>7 DEF Whole, TornBy
    <2>8. Whole("rag")' => Whole("rag") /\ ~(c.doing = "rag setup" /\ c.tunnel)
      <3>1. SUFFICES ASSUME Whole("rag")' PROVE Whole("rag") /\ ~(c.doing = "rag setup" /\ c.tunnel)
        OBVIOUS
      <3>2. "rag" \in torn => "rag" \in torn' BY <2>0
      <3>3. ~(c.doing = "rag setup" /\ c.tunnel)
        BY <3>1, <2>1, <2>2 DEF Whole, Unfinished
      <3>4. "rag" \notin Unfinished(p) BY <2>0 DEF Unfinished
      <3> QED BY <3>1, <3>2, <3>3, <3>4, <2>0, <2>1, WholeBefore
    <2>9. TunnelSet'
      <3>1. ASSUME Whole("rag")', settings'.rag = "tunnel"
            PROVE  ragEnv' = [name |-> "tunnel", url |-> "tunnel"]
        <4>1. c.alone BY <3>1, <2>7
        <4>2. c.loaded = settings /\ Whole("rag") /\ ~(c.doing = "rag setup" /\ c.tunnel)
          BY <3>1, <4>1, <2>8, <2>3
        <4>3. settings.rag = "tunnel" BY <4>2, <3>1, <2>5, <2>3
        <4> QED BY <4>2, <4>3, <2>0 DEF ServedInv, TunnelSet
      <3> QED BY <3>1 DEF TunnelSet
    <2>10. SyncServed'
      <3>1. ASSUME settings'.enabled, Whole("sync")' PROVE syncEnv' = settings'.transport
        <4>1. c.alone BY <3>1, <2>7
        <4>2. CASE c.doing = "sync setup" BY <4>1, <4>2, <2>0, <2>3, <2>5
        <4>3. CASE c.doing # "sync setup"
          <5>1. Whole("sync")
            <6>1. "sync" \notin Unfinished(p) BY <4>3, <2>0 DEF Unfinished
            <6>2. "sync" \in torn => "sync" \in torn' BY <4>3, <2>0
            <6> QED BY <6>1, <6>2, <3>1, <2>0, <2>1, WholeBefore
          <5> QED BY <4>1, <4>3, <5>1, <3>1, <2>0, <2>3, <2>5 DEF ServedInv, SyncServed
        <4> QED BY <4>2, <4>3
      <3> QED BY <3>1 DEF SyncServed
    <2>11. Wanted'
      <3>1. ASSUME Sound', wants' = "tunnel"
            PROVE  settings'.rag = "tunnel" /\ (units'["rag"] = "on" => units'["tunnel"] = "on")
        <4>1. c.alone BY <3>1, <2>0 DEF Sound, TornBy
        <4>2. Sound
          <5>1. "rag" \in torn => "rag" \in torn' BY <2>0
          <5> QED BY <5>1, <4>1, <3>1, <2>0, <2>1, SoundBefore
        <4>3. settings.rag = "tunnel" /\ (units["rag"] = "on" => units["tunnel"] = "on")
          BY <4>2, <3>1, <2>0 DEF ServedInv, Wanted
        <4>4. settings'.rag = "tunnel" BY <4>1, <4>3, <2>3, <2>5
        <4> QED BY <4>3, <4>4, <2>0
      <3> QED BY <3>1 DEF Wanted
    <2> QED BY <2>0, <2>1, <2>6, <2>9, <2>10, <2>11, WriteStep
  \* A whole setup after a write that counts as tearing was whole, and its writer alone.
  <1>h. ASSUME NEW p \in Terminals, NEW d \in Commands, Written(p, d), Unfinished(p) = {},
               torn \cup TornBy(p) \subseteq torn'
        PROVE  /\ \A setup \in {"sync", "rag"} : Whole(setup)' => Whole(setup) /\ command[p].alone
               /\ Sound' => Sound /\ command[p].alone
    <2>1. \A setup \in {"sync", "rag"} : Whole(setup)' => Whole(setup) BY <1>h, WholeBefore
    <2>2. \A setup \in {"sync", "rag"} : Whole(setup)' => command[p].alone BY <1>h DEF Whole, TornBy
    <2>3. Sound' => Sound BY <1>h, SoundBefore
    <2>4. Sound' => command[p].alone BY <1>h DEF Sound, TornBy
    <2> QED BY <2>1, <2>2, <2>3, <2>4
  <1>u. \A p \in Terminals : command[p].at \notin {"save", "rename", "unlock", "tunnel url"} => Unfinished(p) = {}
    BY DEF Unfinished
  \* Which units are on.
  <1>o. units \in [Units -> {"none", "written", "on"}] BY DEF CommandsTypes, CommandsTypeOK
  <1>4. ASSUME NEW p \in Terminals, WriteSyncURL(p) PROVE ServedInv'
    <2> DEFINE url == SetupURL(p)
               d == [Step(p, "save") EXCEPT !.url = url]
    <2>0. /\ command[p].at = "sync url" /\ torn' = torn /\ UNCHANGED <<settings, ragEnv, units, wants>>
          /\ Unfinished(p) = {}
      BY <1>4, <1>u DEF WriteSyncURL, settingsvars, servicevars
    <2>1. CASE Continue(p, NoCommand) /\ UNCHANGED syncEnv
      BY <2>0, <2>1, <1>f
    <2>2. CASE url # "none" /\ syncEnv' = url /\ Written(p, d)
      <3>1. url \in Transports
        <4>1. url \in Transports \cup {"none"}
          BY <1>c DEF SetupURL, Commands, CommandsTypes, CommandsTypeOK
        <4> QED BY <4>1, <2>2
      <3>2. /\ d \in Commands /\ d.at = "save" /\ d.doing = command[p].doing /\ d.url = url
            /\ d.loaded = command[p].loaded /\ d.alone = command[p].alone
            /\ d.unit = command[p].unit
        <4>1. Step(p, "save") \in Commands /\ d \in Commands BY <3>1, StepType, Zenon DEF Points
        <4>2. /\ Step(p, "save").at = "save" /\ Step(p, "save").doing = command[p].doing
              /\ Step(p, "save").loaded = command[p].loaded /\ Step(p, "save").alone = command[p].alone
              /\ Step(p, "save").unit = command[p].unit
          BY <1>c, StepFields
        <4> HIDE DEF url
        <4> QED BY <4>1, <4>2 DEF Commands
      <3> HIDE DEF d, url
      <3>3. command'[p] = d BY <3>2, <2>2, WrittenType
      <3>4. d.doing = "sync setup" /\ (d.alone => d.loaded = settings) /\ d.unit = "sync"
        BY <2>0, <3>2 DEF ServedInv, Own, Sensible, Loaded
      <3>5. Own(p)'
        BY <2>0, <2>2, <3>1, <3>2, <3>3, <3>4 DEF Own, Loaded, Sensible, Installing
      <3>6. ~Whole("sync")' BY <3>2, <3>3, <3>4 DEF Whole, Unfinished
      <3>7. Whole("rag")' => Whole("rag") BY <2>0, <2>2, <3>2, WholeBefore
      <3>8. TunnelSet' BY <2>0, <3>7 DEF ServedInv, TunnelSet
      <3>9. SyncServed' BY <2>0, <3>6 DEF SyncServed
      <3>10. Sound' => Sound BY <2>0, <2>2, <3>2, SoundBefore
      <3>11. Wanted' BY <2>0, <3>10 DEF ServedInv, Wanted
      <3> QED BY <2>2, <3>2, <3>5, <3>8, <3>9, <3>11, WriteStep
    <2> QED BY <1>4, <2>1, <2>2 DEF WriteSyncURL
  <1>5. ASSUME NEW p \in Terminals, LoadToInstall(p) PROVE ServedInv'
    <2>0. command[p].at = "sync load" /\ torn' = torn /\ Same /\ Unfinished(p) = {}
      BY <1>5, <1>u DEF LoadToInstall, settingsvars, servicevars
    <2> DEFINE url == IF command[p].url = "none" /\ syncEnv = settings.transport THEN syncEnv ELSE command[p].url
               point == IF url = "none" THEN "write" ELSE "sync env"
               d == [Step(p, point) EXCEPT !.loaded = settings, !.url = url, !.alone = TRUE]
    <2>1. CASE Continue(p, NoCommand)
      BY <2>0, <2>1, <1>f
    <2>2. CASE url \in {"none", settings.transport} /\ Continue(p, d)
      <3>1. url \in Transports \cup {"none"}
        BY <1>c DEF Commands, CommandsTypes, CommandsTypeOK
      <3>2. /\ d \in Commands /\ d.at = point /\ d.doing = command[p].doing /\ d.url = url
            /\ d.loaded = settings /\ d.alone /\ d.unit = command[p].unit
        <4>1. Step(p, point) \in Commands /\ d \in Commands BY <3>1, StepType, Zenon DEF Points
        <4> HIDE DEF url, point
        <4>2. /\ Step(p, point).at = point /\ Step(p, point).doing = command[p].doing
              /\ Step(p, point).unit = command[p].unit
          BY <1>c, StepFields
        <4> QED BY <4>1, <4>2 DEF Commands
      <3>3. command'[p] = d BY <3>2, <2>2, ContinueType
      <3>4. /\ point \in {"write", "sync env"} /\ (point = "sync env" => url = settings.transport) BY <2>2
      <3>5. command[p].unit = "sync" BY <2>0 DEF ServedInv, Own, Sensible
      <3> HIDE DEF d, url, point
      <3>6. Own(p)'
        BY <2>0, <3>2, <3>3, <3>4, <3>5 DEF Own, Loaded, Sensible, Installing
      <3> QED BY <2>0, <2>2, <3>2, <3>6, <1>q
    <2> QED BY <1>5, <2>1, <2>2 DEF LoadToInstall
  <1>6. ASSUME NEW p \in Terminals, RewriteSyncEnv(p) PROVE ServedInv'
    <2> DEFINE d == Step(p, "write")
    <2>0. /\ command[p].at = "sync env" /\ syncEnv' = command[p].url /\ Written(p, d)
          /\ torn' = torn \cup TornBy(p) /\ UNCHANGED <<settings, ragEnv, units, wants>>
          /\ Unfinished(p) = {}
      BY <1>6, <1>u DEF RewriteSyncEnv, settingsvars, servicevars
    <2>1. /\ d \in Commands /\ d.at = "write" /\ d.unit = command[p].unit /\ d.alone = command[p].alone
          /\ d.loaded = command[p].loaded
      BY <1>c, StepType, Zenon, StepFields DEF Points
    <2> HIDE DEF d
    <2>2. command'[p] = d BY <2>0, <2>1, WrittenType
    <2>3. /\ command[p].url = command[p].loaded.transport /\ command[p].unit = "sync"
          /\ command[p].alone => command[p].loaded = settings
      BY <2>0 DEF ServedInv, Own, Loaded, Sensible
    <2>4. Own(p)' BY <2>0, <2>1, <2>2, <2>3 DEF Own, Loaded, Sensible, Installing
    <2>5. /\ \A setup \in {"sync", "rag"} : Whole(setup)' => Whole(setup) /\ command[p].alone
          /\ Sound' => Sound
      BY <2>0, <2>1, <1>h
    <2>6. TunnelSet' BY <2>0, <2>5 DEF ServedInv, TunnelSet
    <2>7. Wanted' BY <2>0, <2>5 DEF ServedInv, Wanted
    <2>8. SyncServed' BY <2>0, <2>3, <2>5 DEF SyncServed
    <2> QED BY <2>0, <2>1, <2>4, <2>6, <2>7, <2>8, WriteStep
  <1>7. ASSUME NEW p \in Terminals, WriteUnit(p) PROVE ServedInv'
    <2> DEFINE c == command[p]
               d == Step(p, "enable")
    <2>0. /\ c.at = "write" /\ Written(p, d) /\ torn' = torn \cup TornBy(p)
          /\ units' = [units EXCEPT ![c.unit] = IF @ = "on" THEN "on" ELSE "written"]
          /\ wants' = IF c.unit = "rag" THEN c.loaded.rag ELSE wants
          /\ UNCHANGED <<settings, syncEnv, ragEnv>> /\ Unfinished(p) = {}
      BY <1>7, <1>u DEF WriteUnit, settingsvars
    <2>1. /\ d \in Commands /\ d.at = "enable" /\ d.unit = c.unit /\ d.alone = c.alone
          /\ d.loaded = c.loaded
      BY <1>c, StepType, Zenon, StepFields DEF Points
    <2> HIDE DEF d
    <2>2. command'[p] = d BY <2>0, <2>1, WrittenType
    <2>3. c.unit \in Units BY <1>c DEF Commands
    <2>4. \A unit \in Units : units'[unit] = "on" <=> units[unit] = "on" BY <2>0, <2>3, <1>o
    <2>5. /\ \A setup \in {"sync", "rag"} : Whole(setup)' => Whole(setup)
          /\ Sound' => Sound /\ c.alone
      BY <2>0, <2>1, <1>h
    <2>6. /\ c.alone => c.loaded = settings
          /\ c.unit # "sync" => c.loaded.rag # "off"
          /\ c.alone /\ Sound /\ c.unit = "rag" /\ c.loaded.rag = "tunnel" => units["tunnel"] = "on"
      BY <2>0 DEF ServedInv, Own, Loaded, Sensible, Installing
    <2>7. Own(p)'
      <3>1. Loaded(p)' BY <2>0, <2>1, <2>2, <2>6 DEF Loaded
      <3>2. Sensible(p)' BY <2>1, <2>2, <2>6 DEF Sensible
      <3>3. Installing(p)' BY <2>0, <2>1, <2>2, <2>4, <2>5, <2>6 DEF Installing, Units
      <3> QED BY <3>1, <3>2, <3>3 DEF Own
    <2>8. TunnelSet' BY <2>0, <2>5 DEF ServedInv, TunnelSet
    <2>9. SyncServed' BY <2>0, <2>5 DEF ServedInv, SyncServed
    <2>10. Wanted'
      <3>1. ASSUME Sound', wants' = "tunnel"
            PROVE  settings'.rag = "tunnel" /\ (units'["rag"] = "on" => units'["tunnel"] = "on")
        <4>1. CASE c.unit = "rag" BY <3>1, <4>1, <2>0, <2>4, <2>5, <2>6 DEF Units
        <4>2. CASE c.unit # "rag" BY <3>1, <4>2, <2>0, <2>4, <2>5 DEF ServedInv, Wanted, Units
        <4> QED BY <4>1, <4>2
      <3> QED BY <3>1 DEF Wanted
    <2> QED BY <2>0, <2>1, <2>7, <2>8, <2>9, <2>10, WriteStep
  <1>8. ASSUME NEW p \in Terminals, EnableUnit(p) PROVE ServedInv'
    <2> DEFINE c == command[p]
               d == IF c.unit = "tunnel" THEN UnitStep(p, "rag", "write") ELSE NoCommand
    <2>0. /\ c.at = "enable" /\ UNCHANGED <<settings, syncEnv, ragEnv, wants>> /\ Unfinished(p) = {}
      BY <1>8, <1>u DEF EnableUnit, settingsvars
    <2>1. CASE Fail(p) /\ UNCHANGED units BY <2>0, <2>1, <1>f DEF Fail
    <2>2. CASE /\ units' = [units EXCEPT ![c.unit] = "on"] /\ Written(p, d)
               /\ torn' = torn \cup TornBy(p)
      <3>1. /\ d \in Commands
            /\ \/ d = NoCommand
               \/ /\ c.unit = "tunnel" /\ d.at = "write" /\ d.unit = "rag" /\ d.alone = c.alone
                  /\ d.loaded = c.loaded
        <4>1. CASE c.unit = "tunnel"
          <5>1. d = UnitStep(p, "rag", "write") BY <4>1
          <5>2. UnitStep(p, "rag", "write") \in Commands BY StepType, Zenon DEF Points, Units
          <5>3. c \in Commands BY <1>c
          <5> QED BY <4>1, <5>1, <5>2, <5>3, UnitStepFields
        <4>2. CASE c.unit # "tunnel" BY <4>2, NoCommandType
        <4> QED BY <4>1, <4>2
      <3> HIDE DEF d
      <3>2. command'[p] = d BY <2>2, <3>1, WrittenType
      <3>3. c.unit \in Units BY <1>c DEF Commands
      <3>4. \A unit \in Units : units'[unit] = IF unit = c.unit THEN "on" ELSE units[unit]
        BY <2>2, <3>3, <1>o
      <3>5. /\ \A setup \in {"sync", "rag"} : Whole(setup)' => Whole(setup)
            /\ Sound' => Sound /\ c.alone
        BY <2>0, <2>2, <3>1, <1>h
      <3>6. /\ c.alone => c.loaded = settings
            /\ c.unit # "sync" => c.loaded.rag # "off"
            /\ c.alone /\ Sound /\ c.unit = "rag" =>
                 wants = c.loaded.rag /\ (c.loaded.rag = "tunnel" => units["tunnel"] = "on")
        BY <2>0 DEF ServedInv, Own, Loaded, Sensible, Installing
      <3>7. Own(p)'
        <4>1. CASE d = NoCommand BY <2>2, <4>1, <1>w
        <4>2. CASE d # NoCommand
          <5>1. Loaded(p)' BY <2>0, <3>1, <3>2, <3>6, <4>2 DEF Loaded
          <5>2. Sensible(p)' BY <3>1, <3>2, <3>6, <4>2 DEF Sensible
          <5>3. Installing(p)' BY <3>1, <3>2, <3>4, <4>2 DEF Installing, Units
          <5> QED BY <5>1, <5>2, <5>3 DEF Own
        <4> QED BY <4>1, <4>2
      <3>8. TunnelSet' BY <2>0, <3>5 DEF ServedInv, TunnelSet
      <3>9. SyncServed' BY <2>0, <3>5 DEF ServedInv, SyncServed
      <3>10. Wanted'
        <4>1. ASSUME Sound', wants' = "tunnel"
              PROVE  settings'.rag = "tunnel" /\ (units'["rag"] = "on" => units'["tunnel"] = "on")
          <5>1. settings.rag = "tunnel" /\ (units["rag"] = "on" => units["tunnel"] = "on")
            BY <4>1, <2>0, <3>5 DEF ServedInv, Wanted
          <5>2. c.unit = "rag" => units["tunnel"] = "on" BY <4>1, <2>0, <3>5, <3>6
          <5> QED BY <5>1, <5>2, <2>0, <3>4 DEF Units
        <4> QED BY <4>1 DEF Wanted
      <3> QED BY <2>2, <3>1, <3>7, <3>8, <3>9, <3>10, WriteStep
    <2> QED BY <1>8, <2>1, <2>2 DEF EnableUnit
  <1>9. ASSUME NEW p \in Terminals, DisableUnit(p) PROVE ServedInv'
    <2> DEFINE c == command[p]
               d == Step(p, "remove")
    <2>0. /\ c.at = "disable" /\ Written(p, d) /\ UNCHANGED <<settings, syncEnv, ragEnv, wants>>
          /\ Unfinished(p) = {} /\ torn \subseteq torn'
      BY <1>9, <1>u DEF DisableUnit, settingsvars
    <2>1. /\ d \in Commands /\ d.at = "remove" /\ d.unit = c.unit /\ d.alone = c.alone
      BY <1>c, StepType, Zenon, StepFields DEF Points
    <2> HIDE DEF d
    <2>2. command'[p] = d BY <2>0, <2>1, WrittenType
    <2>3. c.unit \in Units BY <1>c DEF Commands
    <2>4. \A setup \in {"sync", "rag"} : Whole(setup)' => Whole(setup)
      BY <2>0, <2>1, WholeBefore
    <2>5. ASSUME Sound'
          PROVE  /\ Sound /\ c.alone
                 /\ \A unit \in Units : units'[unit] = "on" <=> unit # c.unit /\ units[unit] = "on"
      <3>1. "rag" \notin torn' BY <2>5 DEF Sound
      <3>2. /\ torn' = torn \cup TornBy(p)
            /\ units' = [units EXCEPT ![c.unit] = IF @ = "on" THEN "written" ELSE @]
        BY <1>9, <3>1 DEF DisableUnit
      <3> QED BY <2>0, <2>1, <2>3, <2>5, <3>2, <1>h, <1>o
    <2>6. c.alone /\ Sound /\ c.unit = "tunnel" => units["rag"] # "on"
      BY <2>0 DEF ServedInv, Own, Installing
    <2>7. Own(p)'
      <3>1. Installing(p)' BY <2>1, <2>2, <2>3, <2>5, <2>6 DEF Installing, Units
      <3> QED BY <3>1, <2>1, <2>2 DEF Own, Loaded, Sensible
    <2>8. TunnelSet' /\ SyncServed' BY <2>0, <2>4 DEF ServedInv, TunnelSet, SyncServed
    <2>9. Wanted' BY <2>0, <2>3, <2>5, <2>6 DEF ServedInv, Wanted, Units
    <2> QED BY <2>0, <2>1, <2>7, <2>8, <2>9, WriteStep
  <1>10. ASSUME NEW p \in Terminals, RemoveUnit(p) PROVE ServedInv'
    <2> DEFINE c == command[p]
               d == IF c.unit = "rag" THEN UnitStep(p, "tunnel", "disable") ELSE NoCommand
    <2>0. /\ c.at = "remove" /\ Written(p, d) /\ torn' = torn
          /\ units' = [units EXCEPT ![c.unit] = IF @ = "on" THEN "on" ELSE "none"]
          /\ UNCHANGED <<settings, syncEnv, ragEnv, wants>> /\ Unfinished(p) = {}
      BY <1>10, <1>u DEF RemoveUnit, settingsvars
    <2>1. /\ d \in Commands
          /\ \/ d = NoCommand
             \/ c.unit = "rag" /\ d.at = "disable" /\ d.unit = "tunnel" /\ d.alone = c.alone
      <3>1. CASE c.unit = "rag"
        <4>1. d = UnitStep(p, "tunnel", "disable") BY <3>1
        <4>2. UnitStep(p, "tunnel", "disable") \in Commands BY StepType, Zenon DEF Points, Units
        <4>3. c \in Commands BY <1>c
        <4> QED BY <3>1, <4>1, <4>2, <4>3, UnitStepFields
      <3>2. CASE c.unit # "rag" BY <3>2, NoCommandType
      <3> QED BY <3>1, <3>2
    <2> HIDE DEF d
    <2>2. command'[p] = d BY <2>0, <2>1, WrittenType
    <2>3. c.unit \in Units BY <1>c DEF Commands
    <2>4. \A unit \in Units : units'[unit] = "on" <=> units[unit] = "on" BY <2>0, <2>3, <1>o
    <2>5. \A setup \in {"sync", "rag"} : Whole(setup)' => Whole(setup)
      BY <2>0, <2>1, WholeBefore
    <2>6. Sound' => Sound BY <2>0, <2>1, SoundBefore
    <2>7. c.alone /\ Sound /\ c.unit = "rag" => units["rag"] # "on"
      BY <2>0 DEF ServedInv, Own, Installing
    <2>8. Own(p)'
      <3>1. CASE d = NoCommand BY <2>0, <3>1, <1>w
      <3>2. CASE d # NoCommand
        <4>1. Installing(p)' BY <3>2, <2>1, <2>2, <2>4, <2>6, <2>7 DEF Installing, Units
        <4> QED BY <4>1, <3>2, <2>1, <2>2 DEF Own, Loaded, Sensible
      <3> QED BY <3>1, <3>2
    <2>9. TunnelSet' /\ SyncServed' BY <2>0, <2>5 DEF ServedInv, TunnelSet, SyncServed
    <2>10. Wanted' BY <2>0, <2>4, <2>6 DEF ServedInv, Wanted, Units
    <2> QED BY <2>0, <2>1, <2>8, <2>9, <2>10, WriteStep
  <1>11. ASSUME NEW p \in Terminals, WriteTunnelURL(p) PROVE ServedInv'
    <2> DEFINE c == command[p]
               d == IF c.install THEN Step(p, "rag load") ELSE NoCommand
    <2>0. c.at = "tunnel url" /\ UNCHANGED <<settings, syncEnv, units, wants>>
      BY <1>11 DEF WriteTunnelURL, settingsvars, servicevars
    <2>1. CASE Fail(p) /\ UNCHANGED ragEnv BY <2>0, <2>1, <1>f DEF Fail
    <2>2. CASE /\ ragEnv' = [name |-> "tunnel", url |-> "tunnel"] /\ Written(p, d)
               /\ torn' = torn \cup TornBy(p)
      <3>1. /\ d \in Commands
            /\ \/ d = NoCommand
               \/ d.at = "rag load" /\ d.unit = c.unit
        <4>1. CASE c.install
          <5>1. d = Step(p, "rag load") /\ c \in Commands BY <4>1, <1>c
          <5>2. Step(p, "rag load") \in Commands BY StepType, Zenon DEF Points
          <5> QED BY <5>1, <5>2, StepFields
        <4>2. CASE ~c.install BY <4>2, NoCommandType
        <4> QED BY <4>1, <4>2
      <3> HIDE DEF d
      <3>2. command'[p] = d BY <2>2, <3>1, WrittenType
      <3>3. "sync" \notin Unfinished(p) BY <2>0 DEF Unfinished
      <3>4. Whole("sync")' => Whole("sync") BY <2>2, <3>1, <3>3, WholeBefore
      <3>5. Sound' => Sound
        <4>1. Sound' => c.alone BY <2>2 DEF Sound, TornBy
        <4> QED BY <4>1, <2>2, <3>1, SoundBefore
      <3>6. Own(p)'
        <4>1. CASE d = NoCommand BY <2>2, <4>1, <1>w
        <4>2. CASE d # NoCommand BY <4>2, <3>1, <3>2 DEF Own, Loaded, Sensible, Installing
        <4> QED BY <4>1, <4>2
      <3>7. TunnelSet' BY <2>2 DEF TunnelSet
      <3>8. SyncServed' BY <2>0, <3>4 DEF ServedInv, SyncServed
      <3>9. Wanted' BY <2>0, <3>5 DEF ServedInv, Wanted
      <3> QED BY <2>2, <3>1, <3>6, <3>7, <3>8, <3>9, WriteStep
    <2> QED BY <1>11, <2>1, <2>2 DEF WriteTunnelURL
  <1>12. ASSUME NEW p \in Terminals, LoadToInstallRag(p) PROVE ServedInv'
    <2> DEFINE d == [Step(p, "rag env") EXCEPT !.loaded = settings, !.alone = TRUE]
    <2>0. command[p].at = "rag load" /\ torn' = torn /\ Same /\ Unfinished(p) = {}
      BY <1>12, <1>u DEF LoadToInstallRag, settingsvars, servicevars
    <2>1. CASE Continue(p, NoCommand) BY <2>0, <2>1, <1>f
    <2>2. CASE settings.rag # "off" /\ Continue(p, d)
      <3>1. d \in Commands /\ d.at = "rag env" /\ d.loaded = settings
        <4>1. Step(p, "rag env") \in Commands /\ d \in Commands BY StepType, Zenon DEF Points
        <4>2. Step(p, "rag env").at = "rag env" BY <1>c, StepFields
        <4> QED BY <4>1, <4>2 DEF Commands
      <3> HIDE DEF d
      <3>2. command'[p] = d BY <2>2, <3>1, ContinueType
      <3>3. Own(p)' BY <2>0, <2>2, <3>1, <3>2 DEF Own, Loaded, Sensible, Installing
      <3> QED BY <2>0, <2>2, <3>1, <3>3, <1>q
    <2> QED BY <1>12, <2>1, <2>2 DEF LoadToInstallRag
  <1>13. ASSUME NEW p \in Terminals, WriteRagEnv(p) PROVE ServedInv'
    <2> DEFINE c == command[p]
               unit == IF c.loaded.rag = "tunnel" THEN "tunnel" ELSE "rag"
               d == UnitStep(p, unit, "write")
    <2>0. /\ c.at = "rag env" /\ Written(p, d) /\ torn' = torn \cup TornBy(p)
          /\ ragEnv' = IF RagURL(p) = "none" THEN ragEnv ELSE [name |-> c.loaded.rag, url |-> RagURL(p)]
          /\ UNCHANGED <<settings, syncEnv, units, wants>> /\ Unfinished(p) = {}
      BY <1>13, <1>u DEF WriteRagEnv, settingsvars, servicevars
    <2>1. d \in Commands /\ d.at = "write" /\ d.unit = unit /\ d.loaded = c.loaded /\ d.alone = c.alone
      <3>1. unit \in Units BY DEF Units
      <3>2. c \in Commands BY <1>c
      <3>3. /\ UnitStep(p, "tunnel", "write") \in Commands
            /\ UnitStep(p, "rag", "write") \in Commands
        BY StepType, Zenon DEF Points, Units
      <3>4. d \in Commands BY <3>3
      <3> HIDE DEF unit
      <3> QED BY <3>2, <3>4, UnitStepFields
    <2> HIDE DEF d
    <2>2. command'[p] = d BY <2>0, <2>1, WrittenType
    <2>3. c.loaded.rag # "off" /\ (c.alone => c.loaded = settings)
      BY <2>0 DEF ServedInv, Own, Loaded, Sensible
    <2>4. /\ \A setup \in {"sync", "rag"} : Whole(setup)' => Whole(setup) /\ c.alone
          /\ Sound' => Sound
      BY <2>0, <2>1, <1>h
    <2>5. Own(p)'
      <3>1. Loaded(p)' BY <2>0, <2>1, <2>2, <2>3 DEF Loaded
      <3>2. Sensible(p)' BY <2>1, <2>2, <2>3 DEF Sensible
      <3>3. Installing(p)' BY <2>1, <2>2 DEF Installing
      <3> QED BY <3>1, <3>2, <3>3 DEF Own
    <2>6. TunnelSet'
      <3>1. ASSUME Whole("rag")', settings'.rag = "tunnel"
            PROVE  ragEnv' = [name |-> "tunnel", url |-> "tunnel"]
        <4>1. c.loaded.rag = "tunnel" BY <3>1, <2>0, <2>3, <2>4
        <4>2. ragEnv = [name |-> "tunnel", url |-> "tunnel"]
          BY <3>1, <2>0, <2>4 DEF ServedInv, TunnelSet
        <4>3. RagURL(p) = "tunnel" BY <4>1, <4>2 DEF RagURL
        <4> QED BY <4>1, <4>3, <2>0
      <3> QED BY <3>1 DEF TunnelSet
    <2>7. SyncServed' /\ Wanted' BY <2>0, <2>4 DEF ServedInv, SyncServed, Wanted
    <2> QED BY <2>0, <2>1, <2>5, <2>6, <2>7, WriteStep
  <1>14. ASSUME NEW p \in Terminals, LoadToPrune(p) PROVE ServedInv'
    <2> DEFINE d == [Step(p, "plan") EXCEPT !.loaded = settings]
    <2>0. command[p].at = "load" /\ torn' = torn /\ Same /\ Unfinished(p) = {}
      BY <1>14, <1>u DEF LoadToPrune, settingsvars, servicevars
    <2>1. CASE Continue(p, NoCommand) BY <2>0, <2>1, <1>f
    <2>2. CASE Continue(p, d)
      <3>1. /\ d \in Commands /\ d.at = "plan" /\ d.doing = command[p].doing
            /\ d.unit = command[p].unit /\ d.loaded = settings
        <4>1. Step(p, "plan") \in Commands BY StepType, Zenon DEF Points
        <4>2. /\ Step(p, "plan").at = "plan" /\ Step(p, "plan").doing = command[p].doing
              /\ Step(p, "plan").unit = command[p].unit
          BY <1>c, StepFields
        <4> QED BY <4>1, <4>2 DEF Commands, CommandsTypes, CommandsTypeOK
      <3> HIDE DEF d
      <3>2. command'[p] = d BY <2>2, <3>1, ContinueType
      <3>3. command[p].doing = "prune" /\ command[p].unit = "sync"
        BY <2>0 DEF ServedInv, Own, Sensible
      <3>4. Own(p)' BY <2>0, <3>1, <3>2, <3>3 DEF Own, Loaded, Sensible, Installing
      <3> QED BY <2>0, <2>2, <3>1, <3>4, <1>q
    <2> QED BY <1>14, <2>1, <2>2 DEF LoadToPrune
  <1>15. ASSUME NEW p \in Terminals, Plan(p) PROVE ServedInv'
    <2>0. command[p].at = "plan" /\ torn' = torn /\ Same /\ Unfinished(p) = {}
      BY <1>15, <1>u DEF Plan, settingsvars, servicevars
    <2>1. CASE Continue(p, NoCommand) BY <2>0, <2>1, <1>f
    <2>2. ASSUME NEW plan \in SUBSET SessionFiles,
                 Continue(p, [Step(p, Planned(p)) EXCEPT !.plan = plan])
          PROVE  ServedInv'
      <3> DEFINE d == [Step(p, Planned(p)) EXCEPT !.plan = plan]
      <3>1. /\ d \in Commands /\ d.at = Planned(p) /\ d.doing = command[p].doing
            /\ d.unit = command[p].unit /\ d.loaded = command[p].loaded /\ d.alone = command[p].alone
        <4>1. Planned(p) \in {"prune", "save"} BY DEF Planned
        <4> HIDE DEF Planned
        <4>2. Step(p, Planned(p)) \in Commands /\ d \in Commands BY <4>1, StepType, Zenon DEF Points
        <4>3. LET s == Step(p, Planned(p)) IN
              /\ s.at = Planned(p) /\ s.doing = command[p].doing
              /\ s.unit = command[p].unit /\ s.loaded = command[p].loaded /\ s.alone = command[p].alone
          BY <1>c, StepFields
        <4> QED BY <4>2, <4>3 DEF Commands
      <3>2. command'[p] = d BY <2>2, <3>1, ContinueType
      <3>3. /\ command[p].doing = "prune" /\ command[p].unit = "sync" /\ d.at \in {"prune", "save"}
            /\ command[p].alone => command[p].loaded = settings
        BY <2>0, <3>1 DEF ServedInv, Own, Loaded, Sensible, Planned
      <3> HIDE DEF d
      <3>4. Own(p)' BY <2>0, <3>1, <3>2, <3>3 DEF Own, Loaded, Sensible, Installing
      <3> QED BY <2>0, <2>2, <3>1, <3>4, <1>q DEF d
    <2> QED BY <1>15, <2>1, <2>2 DEF Plan
  <1>16. ASSUME NEW p \in Terminals, PruneFile(p) PROVE ServedInv'
    <2>0. command[p].at = "prune" /\ torn' = torn /\ Same /\ Unfinished(p) = {}
      BY <1>16, <1>u DEF PruneFile, settingsvars, servicevars
    <2>1. CASE Continue(p, NoCommand) BY <2>0, <2>1, <1>f
    <2>2. ASSUME NEW f \in SessionFiles, Continue(p, [command[p] EXCEPT !.plan = @ \ {f}])
          PROVE  ServedInv'
      <3> DEFINE d == [command[p] EXCEPT !.plan = @ \ {f}]
      <3>1. d \in Commands /\ d.at = "prune" /\ d.doing = command[p].doing
        BY <2>0, <1>c DEF Commands
      <3> HIDE DEF d
      <3>2. command'[p] = d BY <2>2, <3>1, ContinueType DEF d
      <3>3. command[p].doing = "prune" BY <2>0 DEF ServedInv, Own, Sensible
      <3>4. Own(p)' BY <3>1, <3>2, <3>3 DEF Own, Loaded, Sensible, Installing
      <3> QED BY <2>0, <2>2, <3>1, <3>4, <1>q DEF d
    <2>3. command[p].plan \subseteq SessionFiles BY <1>c DEF Commands
    <2> QED BY <1>16, <2>1, <2>2, <2>3 DEF PruneFile
  <1>17. ASSUME NEW p \in Terminals, Kill(p) PROVE ServedInv'
    BY <1>17, <1>f DEF Kill, Fail, settingsvars, servicevars
  \* The daemon and the users write none of this.
  <1>v. ASSUME UNCHANGED <<settings, syncEnv, ragEnv, units, wants, command, torn>> PROVE ServedInv'
    <2>1. UNCHANGED <<Sound, Whole("sync"), Whole("rag")>>
      BY <1>v DEF Sound, Whole, Unfinished
    <2>2. \A p \in Terminals : Own(p)'
      BY <1>v, <2>1, ZenonT(30) DEF ServedInv, Own, Loaded, Sensible, Installing
    <2> QED BY <1>v, <2>1, <2>2 DEF ServedInv, Wanted, TunnelSet, SyncServed
  <1>18. CASE DaemonLoads \/ DaemonLocks \/ DaemonStops
    BY <1>18, <1>v DEF DaemonLoads, DaemonLocks, DaemonStops, settingsvars
  <1>19. ASSUME NEW f \in SessionFiles, DaemonPasses(f) \/ UserRemoves(f) PROVE ServedInv'
    BY <1>19, <1>v DEF DaemonPasses, UserRemoves, settingsvars, servicevars
  <1>20. CASE UNCHANGED commandvars
    BY <1>20, <1>v DEF commandvars, settingsvars, servicevars
  <1> QED
    BY <1>a, <1>1, <1>2, <1>3, <1>4, <1>5, <1>6, <1>7, <1>8, <1>9, <1>10, <1>11, <1>12, <1>13, <1>14,
       <1>15, <1>16, <1>17, <1>18, <1>19, <1>20
    DEF CommandsNext, CommandStep

-----------------------------------------------------------------------------

\* What a command may keep of the settings and the files, as it goes on as c.
Keeps(c) ==
    /\ c.loaded.keep \/ (c.doing = "prune" /\ c.at \in {"unlock", "prune"}) => settings.keep
    /\ \A f \in c.plan : local[f] = "there" => mirrored[f] = "live"

\* The commands of the others have what they had.
LEMMA OthersKeep ==
    ASSUME NEW p \in Terminals, NEW c \in Commands, CommandsTypes, Continue(p, c) \/ Written(p, c)
    PROVE  /\ command'[p] = c
           /\ \A q \in Terminals \ {p} :
                /\ command'[q].loaded = command[q].loaded /\ command'[q].doing = command[q].doing
                /\ command'[q].at = command[q].at /\ command'[q].plan = command[q].plan
  <1>1. CASE Continue(p, c) BY <1>1, ContinueType
  <1>2. CASE Written(p, c)
    <2>1. /\ command'[p] = c
          /\ \A q \in Terminals \ {p} :
               command'[q] = [command[q] EXCEPT !.alone = @ /\ command[q].at = "idle"]
      BY <1>2, WrittenType
    <2>2. ASSUME NEW q \in Terminals \ {p}
          PROVE  /\ command'[q].loaded = command[q].loaded /\ command'[q].doing = command[q].doing
                 /\ command'[q].at = command[q].at /\ command'[q].plan = command[q].plan
      <3>1. command[q] \in Commands BY DEF CommandsTypes
      <3> QED BY <2>1, <3>1 DEF Commands
    <2> QED BY <2>1, <2>2
  <1> QED BY <1>1, <1>2

\* A step that writes neither the settings nor the files.
LEMMA KeptStep ==
    ASSUME NEW p \in Terminals, NEW c \in Commands, CommandsTypes, KeptInv,
           Continue(p, c) \/ Written(p, c),
           UNCHANGED <<settings, local, mirrored, overtaken>>,
           daemon' = daemon \/ daemon' = NotRunning,
           ~overtaken => Keeps(c)
    PROVE  KeptInv'
  <1> SUFFICES ASSUME ~overtaken'
               PROVE  /\ \A q \in Terminals : KeepsLoaded(q)'
                      /\ \A f \in SessionFiles : local'[f] = "pruned" =>
                           /\ mirrored'[f] = "live" /\ settings'.keep
                           /\ daemon'.at # "off" => daemon'.keep
    BY DEF KeptInv
  <1>1. ASSUME NEW q \in Terminals PROVE KeepsLoaded(q)'
    <2>1. CASE q = p BY <2>1, OthersKeep DEF Keeps, KeepsLoaded
    <2>2. CASE q # p
      <3>1. KeepsLoaded(q) BY DEF KeptInv
      <3>2. /\ command'[q].loaded = command[q].loaded /\ command'[q].doing = command[q].doing
            /\ command'[q].at = command[q].at /\ command'[q].plan = command[q].plan
        BY <2>2, OthersKeep
      <3> QED BY <3>1, <3>2 DEF KeepsLoaded
    <2> QED BY <2>1, <2>2
  <1>2. daemon'.at # "off" => daemon' = daemon BY DEF NotRunning
  <1> QED BY <1>1, <1>2 DEF KeptInv

\* Every step keeps the rows of the pruned files, until one overtakes the prune.
LEMMA KeptPreserved ==
    ASSUME CommandsTypes, ServedInv, KeptInv, [CommandsNext]_commandvars
    PROVE  KeptInv'
  <1>t. CommandsTypes' BY TypePreserved
  <1>c. \A p \in Terminals : command[p] \in Commands BY DEF CommandsTypes
  <1> DEFINE Same == UNCHANGED <<settings, local, mirrored, overtaken>>
  <1>k. ~overtaken => \A p \in Terminals :
            /\ command[p].loaded.keep => settings.keep
            /\ command[p].doing = "prune" /\ command[p].at \in {"unlock", "prune"} => settings.keep
            /\ \A f \in command[p].plan : local[f] = "there" => mirrored[f] = "live"
    BY DEF KeptInv, KeepsLoaded
  <1>n. Keeps(NoCommand) BY DEF Keeps, NoCommand, Defaults
  <1>e. ASSUME NEW p \in Terminals, Continue(p, NoCommand) \/ Written(p, NoCommand), Same,
               daemon' = daemon \/ daemon' = NotRunning
        PROVE  KeptInv'
    BY <1>e, <1>n, NoCommandType, KeptStep
  \* The command goes on with what it has.
  <1>s. ASSUME NEW p \in Terminals, NEW c \in Commands, Continue(p, c) \/ Written(p, c), Same,
               daemon' = daemon \/ daemon' = NotRunning,
               c.loaded \in {command[p].loaded, settings}, c.plan = command[p].plan,
               c.at \notin {"unlock", "prune"}
        PROVE  KeptInv'
    <2>1. ~overtaken => Keeps(c) BY <1>s, <1>k DEF Keeps
    <2> QED BY <1>s, <2>1, KeptStep
  <1>p. ASSUME NEW p \in Terminals, NEW step \in Points \ {"unlock", "prune"},
               Continue(p, Step(p, step)) \/ Written(p, Step(p, step)), Same,
               daemon' = daemon \/ daemon' = NotRunning
        PROVE  KeptInv'
    <2>1. Step(p, step) \in Commands BY StepType, Zenon
    <2>2. /\ Step(p, step).loaded = command[p].loaded /\ Step(p, step).plan = command[p].plan
          /\ Step(p, step).at = step
      BY <1>c, StepFields
    <2> QED BY <1>p, <2>1, <2>2, <1>s
  <1>g. ASSUME NEW p \in Terminals, NEW step \in Points \ {"unlock", "prune"}, NEW unit \in Units,
               Written(p, UnitStep(p, unit, step)), Same,
               daemon' = daemon \/ daemon' = NotRunning
        PROVE  KeptInv'
    <2>1. UnitStep(p, unit, step) \in Commands BY StepType, Zenon
    <2>2. /\ UnitStep(p, unit, step).loaded = command[p].loaded
          /\ UnitStep(p, unit, step).plan = command[p].plan
          /\ UnitStep(p, unit, step).at = step
      BY <1>c DEF UnitStep, Commands
    <2> QED BY <1>g, <2>1, <2>2, <1>s
  <1>b. ASSUME NEW p \in Terminals, NEW c \in Commands, Begin(p, c), Starting(c)
        PROVE  KeptInv'
    <2> DEFINE d == [c EXCEPT !.loaded = settings]
    <2>1. d \in Commands /\ d.loaded = settings /\ d.at = c.at /\ d.plan = {}
      BY <1>b DEF Starting, Commands, CommandsTypes, CommandsTypeOK
    <2>2. Continue(p, d) /\ Same /\ daemon' = daemon
      BY <1>b DEF Begin, settingsvars, servicevars, filevars
    <2> HIDE DEF d
    <2>3. ~overtaken => Keeps(d) BY <2>1, <1>b DEF Starting, Keeps
    <2> QED BY <2>1, <2>2, <2>3, KeptStep
  <1>a. ASSUME NEW p \in Terminals, CommandStarts(p) PROVE KeptInv'
    BY <1>a, <1>b, CommandStarting DEF Starting
  <1>1. ASSUME NEW p \in Terminals, LockSettings(p) PROVE KeptInv'
    <2>1. Same /\ daemon' = daemon BY <1>1 DEF LockSettings, servicevars, filevars
    <2>2. Continue(p, NoCommand) \/ Continue(p, Step(p, "rename"))
      BY <1>1 DEF LockSettings, Fail
    <2> QED BY <2>1, <2>2, <1>e, <1>p DEF Points
  \* keep_remote_on_missing is set by the prune, and whoever takes it back is noticed.
  <1>2. ASSUME NEW p \in Terminals, RenameSettings(p) PROVE KeptInv'
    <2> DEFINE c == command[p]
               d == Step(p, "unlock")
    <2>0. /\ c.at = "rename" /\ settings' = Saved(p) /\ Written(p, d)
          /\ overtaken' = (overtaken \/ (settings.keep /\ ~Saved(p).keep))
          /\ UNCHANGED <<local, mirrored, daemon>>
      BY <1>2 DEF RenameSettings, servicevars, filevars
    <2>1. /\ c \in Commands /\ d \in Commands
          /\ d.at = "unlock" /\ d.doing = c.doing /\ d.loaded = c.loaded /\ d.plan = c.plan
      BY StepType, Zenon, StepFields, <1>c DEF Points
    <2>2. c.loaded \in Settings BY <2>1 DEF Commands
    <2>3. c.doing = "prune" => settings'.keep BY <2>0, <2>2 DEF Saved, Settings
    <2> HIDE DEF d
    <2> SUFFICES ASSUME ~overtaken'
                 PROVE  /\ \A q \in Terminals : KeepsLoaded(q)'
                        /\ \A f \in SessionFiles : local'[f] = "pruned" =>
                             /\ mirrored'[f] = "live" /\ settings'.keep
                             /\ daemon'.at # "off" => daemon'.keep
      BY DEF KeptInv
    <2>4. ~overtaken /\ (settings.keep => settings'.keep)
      <3>1. settings \in Settings /\ settings' \in Settings
        BY <1>t DEF CommandsTypes, CommandsTypeOK
      <3> QED BY <2>0, <3>1 DEF Settings
    <2>5. ASSUME NEW q \in Terminals PROVE KeepsLoaded(q)'
      <3>1. CASE q = p
        <4>1. command'[p] = d BY <2>0, <2>1, OthersKeep
        <4> QED BY <3>1, <4>1, <2>0, <2>1, <2>3, <2>4, <1>k DEF KeepsLoaded
      <3>2. CASE q # p
        <4>1. /\ command'[q].loaded = command[q].loaded /\ command'[q].doing = command[q].doing
              /\ command'[q].at = command[q].at /\ command'[q].plan = command[q].plan
          BY <3>2, <2>0, <2>1, OthersKeep
        <4> QED BY <4>1, <2>0, <2>4, <1>k DEF KeepsLoaded
      <3> QED BY <3>1, <3>2
    <2> QED BY <2>0, <2>4, <2>5 DEF KeptInv
  <1>3. ASSUME NEW p \in Terminals, UnlockSettings(p) PROVE KeptInv'
    <2>0. Same /\ daemon' = daemon /\ command[p].at = "unlock" /\ Continue(p, AfterSave(p))
      BY <1>3 DEF UnlockSettings, servicevars, filevars
    <2>1. \/ AfterSave(p) = Step(p, "prune") /\ command[p].doing = "prune"
          \/ AfterSave(p) = NoCommand
          \/ \E step \in {"tunnel url", "rag load", "sync load"} : AfterSave(p) = Step(p, step)
      BY DEF AfterSave
    <2>2. CASE AfterSave(p) = Step(p, "prune") /\ command[p].doing = "prune"
      <3>1. Step(p, "prune") \in Commands BY StepType, Zenon DEF Points
      <3>2. /\ Step(p, "prune").loaded = command[p].loaded /\ Step(p, "prune").plan = command[p].plan
        BY <1>c, StepFields
      <3>3. ~overtaken => Keeps(Step(p, "prune")) BY <2>0, <2>2, <3>2, <1>k DEF Keeps
      <3> QED BY <2>0, <2>2, <3>1, <3>3, KeptStep
    <2> QED BY <2>0, <2>1, <2>2, <1>e, <1>p DEF Points
  <1>4. ASSUME NEW p \in Terminals, WriteSyncURL(p) PROVE KeptInv'
    <2> DEFINE url == SetupURL(p)
               d == [Step(p, "save") EXCEPT !.url = url]
    <2>0. Same /\ daemon' = daemon BY <1>4 DEF WriteSyncURL, settingsvars, servicevars, filevars
    <2>1. CASE Continue(p, NoCommand) BY <2>0, <2>1, <1>e
    <2>2. CASE Written(p, d)
      <3>1. url \in Transports \cup {"none"}
        BY <1>c DEF SetupURL, Commands, CommandsTypes, CommandsTypeOK
      <3>2. Step(p, "save") \in Commands /\ d \in Commands BY <3>1, StepType, Zenon DEF Points
      <3>3. /\ Step(p, "save").loaded = command[p].loaded /\ Step(p, "save").plan = command[p].plan
            /\ Step(p, "save").at = "save"
        BY <1>c, StepFields
      <3> HIDE DEF url
      <3>4. d.loaded = command[p].loaded /\ d.plan = command[p].plan /\ d.at = "save"
        BY <3>2, <3>3 DEF Commands
      <3> HIDE DEF d
      <3> QED BY <2>0, <2>2, <3>2, <3>4, <1>s
    <2> QED BY <1>4, <2>1, <2>2 DEF WriteSyncURL
  <1>5. ASSUME NEW p \in Terminals, LoadToInstall(p) PROVE KeptInv'
    <2>0. Same /\ daemon' = daemon BY <1>5 DEF LoadToInstall, settingsvars, servicevars, filevars
    <2> DEFINE url == IF command[p].url = "none" /\ syncEnv = settings.transport THEN syncEnv ELSE command[p].url
               point == IF url = "none" THEN "write" ELSE "sync env"
               d == [Step(p, point) EXCEPT !.loaded = settings, !.url = url, !.alone = TRUE]
    <2>1. CASE Continue(p, NoCommand) BY <2>0, <2>1, <1>e
    <2>2. CASE Continue(p, d)
      <3>1. url \in Transports \cup {"none"} BY <1>c DEF Commands, CommandsTypes, CommandsTypeOK
      <3>2. Step(p, point) \in Commands /\ d \in Commands BY <3>1, StepType, Zenon DEF Points
      <3>3. Step(p, point).plan = command[p].plan /\ Step(p, point).at = point BY <1>c, StepFields, ZenonT(30)
      <3>4. point \notin {"unlock", "prune"} OBVIOUS
      <3> HIDE DEF url, point
      <3>5. d.loaded = settings /\ d.plan = command[p].plan /\ d.at = point
        BY <3>2, <3>3 DEF Commands
      <3> HIDE DEF d
      <3> QED BY <2>0, <2>2, <3>2, <3>4, <3>5, <1>s
    <2> QED BY <1>5, <2>1, <2>2 DEF LoadToInstall
  <1>6. ASSUME NEW p \in Terminals, RewriteSyncEnv(p) PROVE KeptInv'
    BY <1>6, <1>p DEF RewriteSyncEnv, Points, settingsvars, servicevars, filevars
  <1>7. ASSUME NEW p \in Terminals, WriteUnit(p) PROVE KeptInv'
    BY <1>7, <1>p DEF WriteUnit, Points, settingsvars, filevars
  <1>8. ASSUME NEW p \in Terminals, EnableUnit(p) PROVE KeptInv'
    <2>1. Same /\ daemon' = daemon BY <1>8 DEF EnableUnit, settingsvars, filevars
    <2>2. Continue(p, NoCommand) \/ Written(p, NoCommand) \/ Written(p, UnitStep(p, "rag", "write"))
      BY <1>8 DEF EnableUnit, Fail
    <2> QED BY <2>1, <2>2, <1>e, <1>g DEF Points, Units
  <1>9. ASSUME NEW p \in Terminals, DisableUnit(p) PROVE KeptInv'
    BY <1>9, <1>p DEF DisableUnit, Points, settingsvars, filevars
  <1>10. ASSUME NEW p \in Terminals, RemoveUnit(p) PROVE KeptInv'
    <2>1. Same /\ daemon' = daemon BY <1>10 DEF RemoveUnit, settingsvars, filevars
    <2>2. Written(p, NoCommand) \/ Written(p, UnitStep(p, "tunnel", "disable"))
      BY <1>10 DEF RemoveUnit
    <2> QED BY <2>1, <2>2, <1>e, <1>g DEF Points, Units
  <1>11. ASSUME NEW p \in Terminals, WriteTunnelURL(p) PROVE KeptInv'
    <2>1. Same /\ daemon' = daemon BY <1>11 DEF WriteTunnelURL, settingsvars, servicevars, filevars
    <2>2. Continue(p, NoCommand) \/ Written(p, NoCommand) \/ Written(p, Step(p, "rag load"))
      BY <1>11 DEF WriteTunnelURL, Fail
    <2> QED BY <2>1, <2>2, <1>e, <1>p DEF Points
  <1>12. ASSUME NEW p \in Terminals, LoadToInstallRag(p) PROVE KeptInv'
    <2> DEFINE d == [Step(p, "rag env") EXCEPT !.loaded = settings, !.alone = TRUE]
    <2>0. Same /\ daemon' = daemon BY <1>12 DEF LoadToInstallRag, settingsvars, servicevars, filevars
    <2>1. Step(p, "rag env") \in Commands /\ d \in Commands BY StepType, Zenon DEF Points
    <2>2. Step(p, "rag env").at = "rag env" /\ Step(p, "rag env").plan = command[p].plan
      BY <1>c, StepFields
    <2>3. d.loaded = settings /\ d.plan = command[p].plan /\ d.at = "rag env"
      BY <2>1, <2>2 DEF Commands
    <2>4. Continue(p, NoCommand) \/ Continue(p, d) BY <1>12 DEF LoadToInstallRag
    <2> HIDE DEF d
    <2> QED BY <2>0, <2>1, <2>3, <2>4, <1>e, <1>s
  <1>13. ASSUME NEW p \in Terminals, WriteRagEnv(p) PROVE KeptInv'
    BY <1>13, <1>g DEF WriteRagEnv, Points, Units, settingsvars, servicevars, filevars
  <1>14. ASSUME NEW p \in Terminals, LoadToPrune(p) PROVE KeptInv'
    <2> DEFINE d == [Step(p, "plan") EXCEPT !.loaded = settings]
    <2>0. Same /\ daemon' = daemon BY <1>14 DEF LoadToPrune, settingsvars, servicevars, filevars
    <2>1. Step(p, "plan") \in Commands BY StepType, Zenon DEF Points
    <2>2. Step(p, "plan").at = "plan" /\ Step(p, "plan").plan = command[p].plan
      BY <1>c, StepFields
    <2>3. d \in Commands /\ d.loaded = settings /\ d.plan = command[p].plan /\ d.at = "plan"
      BY <2>1, <2>2 DEF Commands, CommandsTypes, CommandsTypeOK
    <2>4. Continue(p, NoCommand) \/ Continue(p, d) BY <1>14 DEF LoadToPrune
    <2> HIDE DEF d
    <2> QED BY <2>0, <2>3, <2>4, <1>e, <1>s
  \* The plan has files whose rows are in the mirror; without a save, the rows are kept already.
  <1>15. ASSUME NEW p \in Terminals, Plan(p) PROVE KeptInv'
    <2>0. Same /\ daemon' = daemon BY <1>15 DEF Plan, settingsvars, servicevars, filevars
    <2>1. CASE Continue(p, NoCommand) BY <2>0, <2>1, <1>e
    <2>2. ASSUME NEW plan \in SUBSET {f \in SessionFiles : local[f] = "there" /\ mirrored[f] = "live"},
                 Continue(p, [Step(p, Planned(p)) EXCEPT !.plan = plan])
          PROVE  KeptInv'
      <3> DEFINE d == [Step(p, Planned(p)) EXCEPT !.plan = plan]
      <3>1. d \in Commands /\ d.at = Planned(p) /\ d.loaded = command[p].loaded /\ d.plan = plan
        <4>1. Planned(p) \in {"prune", "save"} BY DEF Planned
        <4>2. plan \in SUBSET SessionFiles OBVIOUS
        <4> HIDE DEF Planned
        <4>3. Step(p, Planned(p)) \in Commands /\ d \in Commands BY <4>1, <4>2, StepType, Zenon DEF Points
        <4>4. Step(p, Planned(p)).at = Planned(p) /\ Step(p, Planned(p)).loaded = command[p].loaded
          BY <1>c, StepFields
        <4> QED BY <4>3, <4>4 DEF Commands
      <3>2. d.at \in {"unlock", "prune"} => d.loaded.keep BY <3>1 DEF Planned
      <3> HIDE DEF d
      <3>3. ~overtaken => Keeps(d) BY <3>1, <3>2, <1>k DEF Keeps
      <3> QED BY <2>0, <2>2, <3>1, <3>3, KeptStep DEF d
    <2> QED BY <1>15, <2>1, <2>2 DEF Plan
  <1>16. ASSUME NEW p \in Terminals, PruneFile(p) PROVE KeptInv'
    <2> DEFINE c == command[p]
    <2>1. PICK f \in c.plan :
            IF local[f] = "there"
              THEN /\ local' = [local EXCEPT ![f] = "pruned"]
                   /\ Continue(p, IF c.plan = {f} THEN NoCommand ELSE [c EXCEPT !.plan = @ \ {f}])
                   /\ overtaken' = (overtaken \/ (daemon.at # "off" /\ ~daemon.keep))
              ELSE Continue(p, NoCommand) /\ UNCHANGED <<local, overtaken>>
      BY <1>16 DEF PruneFile
    <2>2. c.at = "prune" /\ UNCHANGED <<settings, mirrored, daemon>>
      BY <1>16 DEF PruneFile, settingsvars, servicevars
    <2>3. CASE local[f] # "there" BY <2>1, <2>2, <2>3, <1>e
    <2>4. CASE local[f] = "there"
      <3> DEFINE d == command'[p]
      <3>1. f \in SessionFiles /\ c \in Commands /\ c.doing = "prune"
        BY <2>2, <1>c DEF Commands, ServedInv, Own, Sensible
      <3>2. [c EXCEPT !.plan = @ \ {f}] \in Commands BY <3>1 DEF Commands
      <3>3. PICK e \in Commands : Continue(p, e) /\ (e = NoCommand \/ e = [c EXCEPT !.plan = @ \ {f}])
        BY <2>1, <2>4, <3>2, NoCommandType
      <3>4. /\ e.loaded.keep => c.loaded.keep
            /\ e.plan \subseteq c.plan
        BY <3>1, <3>3 DEF Commands, NoCommand, Defaults
      <3> SUFFICES ASSUME ~overtaken'
                   PROVE  /\ \A q \in Terminals : KeepsLoaded(q)'
                          /\ \A g \in SessionFiles : local'[g] = "pruned" =>
                               /\ mirrored'[g] = "live" /\ settings'.keep
                               /\ daemon'.at # "off" => daemon'.keep
        BY DEF KeptInv
      <3>5. ~overtaken /\ (daemon.at # "off" => daemon.keep) BY <2>1, <2>4
      <3>6. settings.keep /\ mirrored[f] = "live" BY <2>2, <2>4, <3>1, <3>5, <1>k
      <3>7. local \in [SessionFiles -> {"there", "pruned", "removed"}] BY DEF CommandsTypes, CommandsTypeOK
      <3>8. \A g \in SessionFiles : local'[g] = IF g = f THEN "pruned" ELSE local[g]
        BY <2>1, <2>4, <3>1, <3>7
      <3>9. ASSUME NEW q \in Terminals PROVE KeepsLoaded(q)'
        <4>1. CASE q = p
          <5>1. command'[p] = e BY <3>3, OthersKeep
          <5>2. e.plan \subseteq SessionFiles BY DEF Commands
          <5> QED BY <4>1, <5>1, <5>2, <2>2, <3>4, <3>5, <3>6, <3>8, <1>k DEF KeepsLoaded
        <4>2. CASE q # p
          <5>1. /\ command'[q].loaded = command[q].loaded /\ command'[q].doing = command[q].doing
                /\ command'[q].at = command[q].at /\ command'[q].plan = command[q].plan
            BY <4>2, <3>3, OthersKeep
          <5>2. command[q].plan \subseteq SessionFiles BY <1>c DEF Commands
          <5> QED BY <5>1, <5>2, <2>2, <3>5, <3>8, <1>k DEF KeepsLoaded
        <4> QED BY <4>1, <4>2
      <3> QED BY <2>2, <3>5, <3>6, <3>8, <3>9 DEF KeptInv
    <2> QED BY <2>3, <2>4
  <1>17. ASSUME NEW p \in Terminals, Kill(p) PROVE KeptInv'
    BY <1>17, <1>e DEF Kill, Fail, settingsvars, servicevars, filevars
  <1>d. ASSUME UNCHANGED <<settings, command, overtaken>>,
               \A f \in SessionFiles :
                 /\ local'[f] \in {local[f], "removed"}
                 /\ mirrored[f] = "live" /\ local[f] # "removed" /\ ~overtaken => mirrored'[f] = "live",
               daemon'.at # "off" => IF daemon.at # "off" THEN daemon'.keep = daemon.keep
                                                          ELSE daemon'.keep = settings.keep
        PROVE  KeptInv'
    <2> SUFFICES ASSUME ~overtaken'
                 PROVE  /\ \A q \in Terminals : KeepsLoaded(q)'
                        /\ \A g \in SessionFiles : local'[g] = "pruned" =>
                             /\ mirrored'[g] = "live" /\ settings'.keep
                             /\ daemon'.at # "off" => daemon'.keep
      BY DEF KeptInv
    <2>1. ASSUME NEW q \in Terminals PROVE KeepsLoaded(q)'
      <3>1. command[q].plan \subseteq SessionFiles BY <1>c DEF Commands
      <3> QED BY <3>1, <1>d, <1>k DEF KeepsLoaded
    <2> QED BY <2>1, <1>d DEF KeptInv
  <1>18. CASE DaemonLoads \/ DaemonLocks \/ DaemonStops
    <2>1. UNCHANGED <<settings, command, overtaken, local, mirrored>>
      BY <1>18 DEF DaemonLoads, DaemonLocks, DaemonStops, settingsvars, filevars
    <2>2. \/ daemon.at = "off" /\ daemon'.keep = settings.keep
          \/ daemon.at # "off" /\ daemon'.keep = daemon.keep
          \/ daemon'.at = "off"
      <3>1. daemon \in [at : {"off", "starting", "up"}, transport : Transports, keep : BOOLEAN]
        BY DEF CommandsTypes, CommandsTypeOK
      <3> QED BY <1>18, <3>1 DEF DaemonLoads, DaemonLocks, DaemonStops, NotRunning
    <2> QED BY <2>1, <2>2, <1>d
  <1>19. ASSUME NEW f \in SessionFiles, DaemonPasses(f) \/ UserRemoves(f) PROVE KeptInv'
    <2>0. /\ mirrored \in [SessionFiles -> {"none", "live", "deleted"}]
          /\ local \in [SessionFiles -> {"there", "pruned", "removed"}]
      BY DEF CommandsTypes, CommandsTypeOK
    <2>1. UNCHANGED <<settings, command, overtaken, daemon>>
      BY <1>19 DEF DaemonPasses, UserRemoves, settingsvars, servicevars
    <2>2. CASE DaemonPasses(f)
      <3>1. local' = local BY <2>2 DEF DaemonPasses
      <3>2. \/ mirrored' = [mirrored EXCEPT ![f] = "live"]
            \/ /\ local[f] # "there" /\ daemon.at = "up" /\ ~daemon.keep
               /\ mirrored' = [mirrored EXCEPT ![f] = "deleted"]
        BY <2>2 DEF DaemonPasses
      <3>3. ~overtaken /\ local[f] = "pruned" /\ daemon.at # "off" => daemon.keep BY DEF KeptInv
      <3> QED BY <2>0, <2>1, <3>1, <3>2, <3>3, <1>d
    <2>3. CASE UserRemoves(f)
      BY <2>0, <2>1, <2>3, <1>d DEF UserRemoves
    <2> QED BY <1>19, <2>2, <2>3
  <1>20. CASE UNCHANGED commandvars
    BY <1>20, <1>d DEF commandvars, settingsvars, servicevars, filevars
  <1> QED
    BY <1>a, <1>1, <1>2, <1>3, <1>4, <1>5, <1>6, <1>7, <1>8, <1>9, <1>10, <1>11, <1>12, <1>13, <1>14,
       <1>15, <1>16, <1>17, <1>18, <1>19, <1>20
    DEF CommandsNext, CommandStep

-----------------------------------------------------------------------------

\* The two states the commands find at first.
LEMMA CommandsStart == CommandsInit => CommandsInv
  <1> SUFFICES ASSUME CommandsInit PROVE CommandsInv OBVIOUS
  <1> USE DEF CommandsInit
  <1>1. Defaults \in Settings /\ [Defaults EXCEPT !.enabled = TRUE, !.transport = "postgres"] \in Settings
    BY DEF Defaults, Settings, Transports
  <1>2. \A p \in Terminals : command[p] = NoCommand OBVIOUS
  <1>3. /\ settings \in Settings /\ syncEnv \in {"none", "postgres"} /\ settings.rag = "off"
        /\ ~settings.keep /\ (settings.enabled => syncEnv = settings.transport)
    <2>1. CASE settings = Defaults /\ syncEnv = "none" BY <2>1, <1>1 DEF Defaults
    <2>2. CASE /\ settings = [Defaults EXCEPT !.enabled = TRUE, !.transport = "postgres"]
               /\ syncEnv = "postgres"
      <3>1. settings = [enabled |-> TRUE, transport |-> "postgres", keep |-> FALSE, rag |-> "off"]
        BY <2>2 DEF Defaults
      <3>2. settings \in Settings BY <2>2, <1>1
      <3> HIDE DEF CommandsInit
      <3>3. /\ settings.rag = "off" /\ ~settings.keep /\ settings.transport = "postgres"
        BY <3>1
      <3> QED BY <2>2, <3>2, <3>3
    <2>3. \/ settings = Defaults /\ syncEnv = "none"
          \/ /\ settings = [Defaults EXCEPT !.enabled = TRUE, !.transport = "postgres"]
             /\ syncEnv = "postgres"
      OBVIOUS
    <2> HIDE DEF CommandsInit
    <2> QED BY <2>1, <2>2, <2>3
  <1>4. command \in [Terminals -> Commands] BY NoCommandType
  <1>5. mirrored \in [SessionFiles -> {"none", "live", "deleted"}] OBVIOUS
  <1>6. units \in [Units -> {"none", "written", "on"}] /\ units["rag"] = "none"
    BY DEF Units
  <1>7. CommandsTypeOK
    <2>1. daemon \in [at : {"off", "starting", "up"}, transport : Transports, keep : BOOLEAN]
      BY DEF NotRunning, Transports
    <2>2. \A p \in Terminals : command[p].loaded \in Settings /\ command[p].plan \subseteq SessionFiles
                                /\ command[p].unit \in Units
      BY <1>4 DEF Commands
    <2> QED BY <1>3, <1>5, <1>6, <2>1, <2>2 DEF CommandsTypeOK, Transports
  <1>8. \A p \in Terminals : Own(p) BY <1>2, OwnIdle
  <1>9. SyncServed BY <1>3 DEF SyncServed
  <1>10. TunnelSet /\ Wanted BY <1>3 DEF TunnelSet, Wanted
  <1>11. KeptInv
    <2>1. \A p \in Terminals : KeepsLoaded(p) BY <1>2 DEF KeepsLoaded, NoCommand, Defaults
    <2> QED BY <2>1 DEF KeptInv
  <1> QED BY <1>4, <1>7, <1>8, <1>9, <1>10, <1>11 DEF CommandsInv, CommandsTypes, ServedInv

\* The inductive invariant of the commands.
LEMMA CommandsInductive == CommandsSpec => []CommandsInv
  <1>1. CommandsInv /\ [CommandsNext]_commandvars => CommandsInv'
    BY TypePreserved, ServedPreserved, KeptPreserved DEF CommandsInv
  <1> QED BY <1>1, CommandsStart, PTL DEF CommandsSpec

\* What is set up can be served (cli.ts:759-764, 1236-1246): the enabled sync finds a URL for
\* its transport and a worker that wants the tunnel finds it, for any number of terminals,
\* commands, kills and failures, unless a setup was torn.
THEOREM SetUpServed == CommandsSpec => []SetUpIsServed
  <1>1. CommandsInv => SetUpIsServed
    <2>1. Whole("rag") => Sound BY DEF Whole, Sound
    <2> QED BY <2>1 DEF CommandsInv, ServedInv, Wanted, TunnelSet, SyncServed, SetUpIsServed
  <1> QED BY <1>1, CommandsInductive, PTL

\* The rows of a pruned file stay in the mirror (cli.ts:1059-1062), unless the prune was
\* overtaken.
THEOREM PrunedKept == CommandsSpec => []PrunedRowsKept
  <1>1. CommandsInv => PrunedRowsKept BY DEF CommandsInv, KeptInv, PrunedRowsKept
  <1> QED BY <1>1, CommandsInductive, PTL

\* Type correctness of the commands and of what they write.
THEOREM CommandsTyped == CommandsSpec => []CommandsTypeOK
  <1>1. CommandsInv => CommandsTypeOK BY DEF CommandsInv, CommandsTypes
  <1> QED BY <1>1, CommandsInductive, PTL
----------------------------------------------------------------------------
(***************************************************************************)
(* The installer, the selections of the TUI and the user share the         *)
(* configuration: none of the user's edits is lost, a failed transaction   *)
(* is undone, and no entry names a checkout that is gone, for every set of *)
(* processes and wherever one of them fails or dies.                       *)
(*                                                                         *)
(* A step changes one process and what it writes; the others only notice   *)
(* which files were changed (Stands).  The types come first, with a lemma  *)
(* for each action that says what it makes of its process; then what       *)
(* EditsInv, UndoInv, LocksInv and EntryInv keep by it.                    *)
(***************************************************************************)


InstallPoints == {"idle", "checkout", "wait", "read", "backup", "write", "verify", "commit", "finish",
           "check", "restore", "undo"} \cup Ends
Contents == [edit : Nat, plugin : {"absent", "none", "selected", "chosen"}]
Processes ==
    [at : InstallPoints,
     doing : {"apply", "rollback"}, model : {"selected", "chosen"},
     read : [ConfigFiles -> Contents], saved : [ConfigFiles -> Contents],
     changed : SUBSET ConfigFiles, done : SUBSET ConfigFiles, recorded : BOOLEAN,
     before : [ConfigFiles -> Contents], head : {"none", "old", "new"},
     others : SUBSET ConfigFiles, incomplete : BOOLEAN]

\* The way of a process through the transaction: what it runs configure.ts for, and whether
\* the state of the transaction exists.
Way(p) ==
    LET c == proc[p]
    IN /\ c.at \in {"idle", "checkout", "read", "backup"} => ~c.recorded
       /\ c.at \in {"checkout", "read", "backup", "write", "verify", "commit"} => c.doing = "apply"
       /\ c.at = "wait" => (c.recorded <=> c.doing = "rollback")
       /\ c.at \in {"check", "restore"} => c.recorded /\ c.doing = "rollback"
       /\ c.at = "restore" => c.done \subseteq c.changed
       /\ c.at = "write" /\ p \in Installers => c.recorded
       /\ p \in Selectors =>
            /\ ~c.recorded /\ c.doing = "apply"
            /\ c.at \in {"idle", "wait", "read", "backup", "write"} \cup Ends

InstallTyped ==
    /\ config \in [ConfigFiles -> Contents]
    /\ checkout \in {"none", "old", "new"}
    /\ installLock \in Installers \cup {"free"}
    /\ configLock \in [holder : Procs \cup {"free"}, old : BOOLEAN]
    /\ proc \in [Procs -> Processes]
    /\ edits \in [ConfigFiles -> Nat]
    /\ raced \in SUBSET ConfigFiles
    /\ slow \in BOOLEAN /\ installFaults \in Nat
    /\ \A p \in Procs : Way(p)

----------------------------------------------------------------------------
\* The copies a process may still write, of a file nobody edited in between, hold every edit.
CopiesKept(p, f) ==
    LET c == proc[p]
    IN f \in c.changed \ raced =>
         /\ c.at \in {"backup", "write"} => c.read[f].edit = edits[f]
         /\ c.at = "write" => c.saved[f].edit = edits[f]
         /\ c.at = "restore" /\ f \in c.done => c.saved[f].edit = edits[f]
         /\ c.recorded => c.saved[f].edit = c.read[f].edit

EditsInv ==
    /\ EditsKept
    /\ \A p \in Procs, f \in ConfigFiles : CopiesKept(p, f)

----------------------------------------------------------------------------
\* A file nobody else has changed is as the transaction found it, or can be put back.
CanUndo(p, f) ==
    LET c == proc[p]
    IN f \notin c.others =>
         /\ c.at \in {"checkout", "read", "backup"} => config[f] = c.before[f]
         /\ c.at = "wait" /\ c.doing = "apply" => config[f] = c.before[f]
         /\ c.at \in {"verify", "commit", "finish"} /\ ~c.recorded => config[f] = c.before[f]
         /\ c.at = "backup" => c.read[f] = c.before[f]
         /\ c.recorded =>
              /\ c.read[f] = c.before[f] /\ c.saved[f] = c.before[f]
              /\ f \notin c.changed => config[f] = c.before[f]
         /\ c.at = "restore" /\ f \notin c.done => config[f] = c.before[f]
         /\ c.at \in {"undo", "failed"} => c.incomplete \/ config[f] = c.before[f]

UndoInv == \A p \in Installers, f \in ConfigFiles : CanUndo(p, f)

----------------------------------------------------------------------------
Active(p) == proc[p].at \notin {"idle"} \cup Ends
NoneConfigured(files) == \A f \in ConfigFiles : ~Configured(files[f])

\* An installer that found no working checkout: what is configured is its own doing.
Fresh(p) ==
    LET c == proc[p]
    IN /\ c.at = "checkout" => NoneConfigured(config)
       /\ c.at \in {"read", "backup"} \/ (c.at = "wait" /\ c.doing = "apply") =>
            checkout = "new" /\ NoneConfigured(config)
       /\ c.at = "backup" => c.changed = ConfigFiles /\ NoneConfigured(c.read)
       /\ c.at \in {"backup", "write"} => c.done \subseteq c.changed
       /\ c.at \in {"verify", "commit"} => c.recorded
       /\ c.at = "finish" /\ ~c.recorded => NoneConfigured(config)
       /\ c.recorded =>
            /\ checkout = "new" /\ c.changed = ConfigFiles
            /\ NoneConfigured(c.saved) /\ NoneConfigured(c.read)
       /\ c.at = "restore" => \A f \in ConfigFiles \ c.done : ~Configured(config[f])
       /\ c.at = "undo" => c.incomplete \/ NoneConfigured(config)

Transacts(p) ==
    Active(p) => IF proc[p].head = "new" THEN checkout = "new" ELSE Fresh(p)

\* A selection writes only where both entries are there.
Selects(p) ==
    proc[p].at \in {"backup", "write"} =>
        \A f \in ConfigFiles :
          /\ Configured(config[f])
          /\ proc[p].at = "write" => Configured(proc[p].saved[f])

NamesWork == \A f \in ConfigFiles : Configured(config[f]) => checkout = "new"

\* The locks exclude, the one of configure.ts as long as none is taken from its holder.
LocksInv ==
    /\ \A p \in Installers : Active(p) => installLock = p
    /\ ~slow => \A p \in Procs : proc[p].at \in InConfigure => configLock.holder = p

EntryInv ==
    ~slow =>
      /\ \A p \in Installers : Transacts(p)
      /\ \A p \in Selectors : Selects(p)
      /\ NamesWork

----------------------------------------------------------------------------

\* Of a process's state, everything is as it was but the fields of S.
SameBut(c, d, S) ==
    /\ "at" \in S \/ d.at = c.at
    /\ "doing" \in S \/ d.doing = c.doing
    /\ "model" \in S \/ d.model = c.model
    /\ "read" \in S \/ d.read = c.read
    /\ "saved" \in S \/ d.saved = c.saved
    /\ "changed" \in S \/ d.changed = c.changed
    /\ "done" \in S \/ d.done = c.done
    /\ "recorded" \in S \/ d.recorded = c.recorded
    /\ "incomplete" \in S \/ d.incomplete = c.incomplete
    /\ d.before = c.before /\ d.head = c.head
    /\ "others" \in S \/ d.others = c.others

\* A process that takes no part in a step only notices whose files it changes.
Stands(q) ==
    /\ SameBut(proc[q], proc'[q], {"others"})
    /\ \A f \in ConfigFiles :
         f \notin proc'[q].others => f \notin proc[q].others /\ config'[f] = config[f]
Moved(p) ==
    /\ proc' \in [Procs -> Processes]
    /\ \A q \in Procs \ {p} : Stands(q)

\* A process goes on to a step, or ends.
Goes(c, d, step) ==
    /\ d.at = step
    /\ step \notin Ends => SameBut(c, d, {"at"})
    /\ step \in Ends =>
         /\ d.doing = "apply" /\ d.changed = {} /\ d.done = {} /\ ~d.recorded
         /\ d.before = c.before /\ d.others = c.others /\ d.incomplete = c.incomplete

LEMMA Field ==
  ASSUME NEW c \in Processes
  PROVE  /\ c.at \in InstallPoints
         /\ c.doing \in {"apply", "rollback"} /\ c.model \in {"selected", "chosen"}
         /\ c.read \in [ConfigFiles -> Contents] /\ c.saved \in [ConfigFiles -> Contents]
         /\ c.changed \in SUBSET ConfigFiles /\ c.done \in SUBSET ConfigFiles
         /\ c.recorded \in BOOLEAN
         /\ c.before \in [ConfigFiles -> Contents] /\ c.head \in {"none", "old", "new"}
         /\ c.others \in SUBSET ConfigFiles /\ c.incomplete \in BOOLEAN
BY DEF Processes, InstallPoints

LEMMA IdleType == Idle \in Processes
BY DEF Idle, Processes, InstallPoints, NoConfig, Contents, ConfigFiles

LEMMA OneMoves ==
  ASSUME NEW p \in Procs, proc \in [Procs -> Processes], config' = config,
         NEW d \in Processes, proc' = [proc EXCEPT ![p] = d]
  PROVE  Moved(p) /\ proc'[p] = d
<1>1. proc' \in [Procs -> Processes] /\ proc'[p] = d /\ \A q \in Procs \ {p} : proc'[q] = proc[q]
  OBVIOUS
<1> QED BY <1>1 DEF Moved, Stands, SameBut

LEMMA OnePuts ==
  ASSUME NEW p, proc \in [Procs -> Processes], NEW c, NEW d, p \in Procs => d \in Processes,
         Put(p, c, d)
  PROVE  Moved(p) /\ config' = c /\ (p \in Procs => proc'[p] = d)
<1> DEFINE of(q) == [proc[q] EXCEPT !.others = @ \cup {f \in ConfigFiles : c[f] # config[f]}]
<1>1. /\ config' = c /\ proc' = [q \in Procs |-> IF q = p THEN d ELSE of(q)] BY DEF Put
<1>2. ASSUME NEW q \in Procs PROVE /\ of(q) \in Processes
                                   /\ SameBut(proc[q], of(q), {"others"})
                                   /\ of(q).others = proc[q].others \cup {f \in ConfigFiles : c[f] # config[f]}
  <2>1. proc[q] \in Processes /\ {f \in ConfigFiles : c[f] # config[f]} \in SUBSET ConfigFiles OBVIOUS
  <2> QED BY <2>1 DEF Processes, InstallPoints, SameBut
<1>3. \A q \in Procs \ {p} : proc'[q] = of(q) BY <1>1
<1>4. proc' \in [Procs -> Processes] BY <1>1, <1>2
<1>5. \A q \in Procs \ {p} : Stands(q) BY <1>1, <1>2, <1>3 DEF Stands
<1> QED BY <1>1, <1>4, <1>5 DEF Moved

LEMMA Proceeds ==
  ASSUME NEW p \in Procs, proc \in [Procs -> Processes], config' = config,
         NEW step \in InstallPoints, Proceed(p, step)
  PROVE  Moved(p) /\ Goes(proc[p], proc'[p], step)
<1> DEFINE c == proc[p]
<1>1. c \in Processes OBVIOUS
<1>2. CASE step \in Ends
  <2>0. /\ c.before \in [ConfigFiles -> Contents] /\ c.others \in SUBSET ConfigFiles
        /\ c.incomplete \in BOOLEAN
    BY <1>1, Field
  <2>1. Ended(p, step) \in Processes /\ Goes(c, Ended(p, step), step)
    <3> DEFINE d == [Idle EXCEPT !.at = step, !.before = c.before, !.others = c.others,
                                 !.incomplete = c.incomplete]
    <3>1. d \in Processes BY <2>0, IdleType DEF Processes, InstallPoints
    <3>2. Goes(c, d, step) BY <1>2 DEF Goes, Idle
    <3> QED BY <3>1, <3>2 DEF Ended
  <2>2. proc' = [proc EXCEPT ![p] = Ended(p, step)] BY <1>2 DEF Proceed
  <2> QED BY <2>1, <2>2, OneMoves
<1>3. CASE step \notin Ends
  <2>1. [c EXCEPT !.at = step] \in Processes /\ Goes(c, [c EXCEPT !.at = step], step)
    BY <1>1, <1>3 DEF Processes, Goes, SameBut, InstallPoints
  <2>2. proc' = [proc EXCEPT ![p] = [c EXCEPT !.at = step]] BY <1>3 DEF Proceed
  <2> QED BY <2>1, <2>2, OneMoves
<1> QED BY <1>2, <1>3

----------------------------------------------------------------------------
LEMMA InstallTypedBy ==
  ASSUME InstallTyped, NEW p, Moved(p), p \in Procs => Way(p)',
         config' \in [ConfigFiles -> Contents], checkout' \in {"none", "old", "new"},
         installLock' \in Installers \cup {"free"},
         configLock' \in [holder : Procs \cup {"free"}, old : BOOLEAN],
         edits' \in [ConfigFiles -> Nat], raced' \in SUBSET ConfigFiles,
         slow' \in BOOLEAN, installFaults' \in Nat
  PROVE  InstallTyped'
<1>1. ASSUME NEW q \in Procs \ {p} PROVE Way(q)'
  BY DEF Moved, Stands, SameBut, Way, InstallTyped
<1> QED BY <1>1 DEF InstallTyped, Moved

\* One lemma for each action: what it makes of the process that takes it.
LEMMA BeginInstallStep ==
  ASSUME InstallTyped, NEW p \in Installers, BeginInstall(p)
  PROVE  /\ InstallTyped' /\ Moved(p)
         /\ proc'[p].at = "checkout" /\ ~proc'[p].recorded /\ proc'[p].changed = {}
         /\ proc'[p].before = config /\ proc'[p].head = checkout /\ proc'[p].others = {}
<1> DEFINE d == [Idle EXCEPT !.at = "checkout", !.before = config, !.head = checkout]
<1>0. p \in Procs BY DEF Procs
<1>1. /\ d \in Processes
      /\ d.at = "checkout" /\ ~d.recorded /\ d.changed = {} /\ d.doing = "apply"
      /\ d.before = config /\ d.head = checkout /\ d.others = {}
  BY IdleType DEF InstallTyped, Processes, InstallPoints, Idle
<1>2. Moved(p) /\ proc'[p] = d BY <1>0, <1>1, OneMoves DEF BeginInstall, InstallTyped
<1>3. Way(p)' BY <1>1, <1>2, <1>0, InstallAssumption DEF Way, InstallAssumption
<1>4. InstallTyped' BY <1>0, <1>2, <1>3, InstallTypedBy DEF BeginInstall, InstallTyped
<1> QED BY <1>1, <1>2, <1>4

LEMMA CheckoutStep ==
  ASSUME InstallTyped, NEW p \in Installers, Checkout(p)
  PROVE  /\ InstallTyped' /\ Moved(p)
         /\ \E step \in {"wait", "finish"} : Goes(proc[p], proc'[p], step)
<1>0. p \in Procs /\ (p \in Installers => p \notin Selectors)
  BY InstallAssumption DEF Procs, InstallAssumption
<1>1. PICK step \in {"wait", "finish"} : Proceed(p, step) BY DEF Checkout
<1>2. step \in InstallPoints /\ config' = config BY DEF Checkout, InstallPoints, Ends
<1>3. Moved(p) /\ Goes(proc[p], proc'[p], step) BY <1>0, <1>1, <1>2, Proceeds DEF InstallTyped
<1>4. proc[p] \in Processes /\ proc'[p] \in Processes /\ Way(p)
  BY <1>0, <1>3 DEF InstallTyped, Moved
<1>5. Way(p)'
  BY <1>0, <1>1, <1>3, <1>4, Field DEF Checkout, Way, Goes, SameBut, Ends
<1>6. InstallTyped'
  BY <1>0, <1>3, <1>4, <1>5, Field, InstallTypedBy DEF Checkout, Fault, InstallTyped
<1> QED BY <1>1, <1>3, <1>6

LEMMA VerifyStep ==
  ASSUME InstallTyped, NEW p \in Installers, Verify(p)
  PROVE  /\ InstallTyped' /\ Moved(p)
         /\ \E step \in {"commit", "finish"} : Goes(proc[p], proc'[p], step)
<1>0. p \in Procs /\ (p \in Installers => p \notin Selectors)
  BY InstallAssumption DEF Procs, InstallAssumption
<1>1. PICK step \in {"commit", "finish"} : Proceed(p, step) BY DEF Verify
<1>2. step \in InstallPoints /\ config' = config BY DEF Verify, InstallPoints, Ends
<1>3. Moved(p) /\ Goes(proc[p], proc'[p], step) BY <1>0, <1>1, <1>2, Proceeds DEF InstallTyped
<1>4. proc[p] \in Processes /\ proc'[p] \in Processes /\ Way(p)
  BY <1>0, <1>3 DEF InstallTyped, Moved
<1>5. Way(p)'
  BY <1>0, <1>1, <1>3, <1>4, Field DEF Verify, Way, Goes, SameBut, Ends
<1>6. InstallTyped'
  BY <1>0, <1>3, <1>4, <1>5, Field, InstallTypedBy DEF Verify, Fault, InstallTyped
<1> QED BY <1>1, <1>3, <1>6

LEMMA UndoStep ==
  ASSUME InstallTyped, NEW p \in Installers, Undo(p)
  PROVE  /\ InstallTyped' /\ Moved(p)
         /\ \E step \in {"failed"} : Goes(proc[p], proc'[p], step)
<1>0. p \in Procs /\ (p \in Installers => p \notin Selectors)
  BY InstallAssumption DEF Procs, InstallAssumption
<1>1. PICK step \in {"failed"} : Proceed(p, step) BY DEF Undo, Undone
<1>2. step \in InstallPoints /\ config' = config BY DEF Undo, InstallPoints, Ends, Undone
<1>3. Moved(p) /\ Goes(proc[p], proc'[p], step) BY <1>0, <1>1, <1>2, Proceeds DEF InstallTyped
<1>4. proc[p] \in Processes /\ proc'[p] \in Processes /\ Way(p)
  BY <1>0, <1>3 DEF InstallTyped, Moved
<1>5. Way(p)'
  BY <1>0, <1>1, <1>3, <1>4, Field DEF Undo, Way, Goes, SameBut, Ends, Undone
<1>6. InstallTyped'
  BY <1>0, <1>3, <1>4, <1>5, Field, InstallTypedBy DEF Undo, Fault, InstallTyped, Undone
<1> QED BY <1>1, <1>3, <1>6

LEMMA InstallerKilledStep ==
  ASSUME InstallTyped, NEW p \in Procs, InstallerKilled(p)
  PROVE  /\ InstallTyped' /\ Moved(p)
         /\ \E step \in {"dead"} : Goes(proc[p], proc'[p], step)
<1>0. p \in Procs /\ (p \in Installers => p \notin Selectors)
  BY InstallAssumption DEF Procs, InstallAssumption
<1>1. PICK step \in {"dead"} : Proceed(p, step) BY DEF InstallerKilled
<1>2. step \in InstallPoints /\ config' = config BY DEF InstallerKilled, InstallPoints, Ends
<1>3. Moved(p) /\ Goes(proc[p], proc'[p], step) BY <1>0, <1>1, <1>2, Proceeds DEF InstallTyped
<1>4. proc[p] \in Processes /\ proc'[p] \in Processes /\ Way(p)
  BY <1>0, <1>3 DEF InstallTyped, Moved
<1>5. Way(p)'
  BY <1>0, <1>1, <1>3, <1>4, Field DEF InstallerKilled, Way, Goes, SameBut, Ends
<1>6. InstallTyped'
  BY <1>0, <1>3, <1>4, <1>5, Field, InstallTypedBy DEF InstallerKilled, Fault, InstallTyped
<1> QED BY <1>1, <1>3, <1>6


LEMMA CommitStep ==
  ASSUME InstallTyped, NEW p \in Installers, Commit(p)
  PROVE  /\ InstallTyped' /\ Moved(p)
         /\ \/ Goes(proc[p], proc'[p], "done")
            \/ /\ CommitSignals /\ installLock' = installLock
               /\ SameBut(proc[p], proc'[p], {"at", "recorded"})
               /\ proc'[p].at = "finish" /\ proc'[p].recorded = FALSE
<1>0. /\ p \in Procs /\ p \notin Selectors /\ config' = config
      /\ proc[p] \in Processes /\ Way(p) /\ proc \in [Procs -> Processes]
  BY InstallAssumption DEF Procs, InstallAssumption, InstallTyped, Commit
<1>1. CASE Proceed(p, "done")
  <2>1. Moved(p) /\ Goes(proc[p], proc'[p], "done") BY <1>0, <1>1, Proceeds DEF InstallPoints, Ends
  <2>2. Way(p)' BY <1>0, <2>1 DEF Way, Goes, Ends
  <2> QED BY <1>0, <2>1, <2>2, InstallTypedBy DEF Commit, Fault, InstallTyped
<1>2. CASE ~Proceed(p, "done")
  <2> DEFINE d == [proc[p] EXCEPT !.at = "finish", !.recorded = FALSE]
  <2>1. /\ d \in Processes /\ SameBut(proc[p], d, {"at", "recorded"})
        /\ d.at = "finish" /\ d.recorded = FALSE
    BY <1>0 DEF Processes, InstallPoints, SameBut
  <2>2. CommitSignals /\ proc' = [proc EXCEPT ![p] = d] BY <1>0, <1>2 DEF Commit
  <2>3. Moved(p) /\ proc'[p] = d BY <1>0, <2>1, <2>2, OneMoves
  <2>4. Way(p)' BY <1>0, <2>1, <2>3 DEF Way, Ends
  <2> QED BY <1>0, <1>2, <2>1, <2>2, <2>3, <2>4, InstallTypedBy DEF Commit, Fault, InstallTyped
<1> QED BY <1>1, <1>2

LEMMA FinishStep ==
  ASSUME InstallTyped, NEW p \in Installers, Finish(p)
  PROVE  /\ InstallTyped' /\ Moved(p)
         /\ \/ /\ proc[p].recorded
               /\ SameBut(proc[p], proc'[p], {"at", "doing"})
               /\ proc'[p].at = "wait" /\ proc'[p].doing = "rollback"
            \/ ~proc[p].recorded /\ Goes(proc[p], proc'[p], "undo")
<1>0. /\ p \in Procs /\ p \notin Selectors /\ config' = config
      /\ proc[p] \in Processes /\ Way(p) /\ proc \in [Procs -> Processes]
  BY InstallAssumption DEF Procs, InstallAssumption, InstallTyped, Finish
<1>1. CASE ~proc[p].recorded
  <2>0. Proceed(p, "undo") BY <1>1 DEF Finish, RollsBack
  <2>1. Moved(p) /\ Goes(proc[p], proc'[p], "undo") BY <1>0, <2>0, Proceeds DEF InstallPoints, Ends
  <2>2. Way(p)' BY <1>0, <2>1 DEF Way, Goes, SameBut, Ends
  <2> QED BY <1>0, <1>1, <2>1, <2>2, InstallTypedBy DEF Finish, InstallTyped
<1>2. CASE proc[p].recorded
  <2> DEFINE d == [proc[p] EXCEPT !.at = "wait", !.doing = "rollback"]
  <2>1. /\ d \in Processes /\ SameBut(proc[p], d, {"at", "doing"})
        /\ d.at = "wait" /\ d.doing = "rollback"
    BY <1>0 DEF Processes, InstallPoints, SameBut
  <2>2. proc' = [proc EXCEPT ![p] = d] BY <1>0, <1>2 DEF Finish, RollsBack
  <2>3. Moved(p) /\ proc'[p] = d BY <1>0, <2>1, <2>2, OneMoves
  <2>4. Way(p)' BY <1>0, <1>2, <2>1, <2>3, Field DEF Way, Ends, SameBut
  <2> QED BY <1>0, <1>2, <2>1, <2>3, <2>4, InstallTypedBy DEF Finish, InstallTyped
<1> QED BY <1>1, <1>2

LEMMA SelectStep ==
  ASSUME InstallTyped, NEW p \in Selectors, Select(p)
  PROVE  InstallTyped' /\ Moved(p) /\ proc'[p].at = "wait"
         /\ proc'[p].changed = {} /\ ~proc'[p].recorded
<1> DEFINE d == [Idle EXCEPT !.at = "wait", !.model = "chosen"]
<1>0. p \in Procs /\ p \notin Installers BY InstallAssumption DEF Procs, InstallAssumption
<1>1. d \in Processes /\ d.at = "wait" /\ d.changed = {} /\ ~d.recorded /\ d.doing = "apply"
  BY IdleType DEF Processes, InstallPoints, Idle
<1>2. Moved(p) /\ proc'[p] = d BY <1>0, <1>1, OneMoves DEF Select, InstallTyped
<1>3. Way(p)' BY <1>0, <1>1, <1>2 DEF Way
<1>4. InstallTyped' BY <1>0, <1>2, <1>3, InstallTypedBy DEF Select, InstallTyped
<1> QED BY <1>1, <1>2, <1>4

LEMMA LockConfigStep ==
  ASSUME InstallTyped, NEW p \in Procs, LockConfig(p)
  PROVE  /\ InstallTyped' /\ Moved(p)
         /\ \E step \in {IF proc[p].doing = "apply" THEN "read" ELSE "check"} : Goes(proc[p], proc'[p], step)
<1>0. p \in Procs /\ (p \in Installers => p \notin Selectors)
  BY InstallAssumption DEF Procs, InstallAssumption
<1>1. PICK step \in {IF proc[p].doing = "apply" THEN "read" ELSE "check"} : Proceed(p, step)
  BY DEF LockConfig
<1>2. step \in InstallPoints /\ config' = config BY DEF LockConfig, InstallPoints, Ends
<1>3. Moved(p) /\ Goes(proc[p], proc'[p], step) BY <1>0, <1>1, <1>2, Proceeds DEF InstallTyped
<1>4. proc[p] \in Processes /\ proc'[p] \in Processes /\ Way(p)
  BY <1>0, <1>3 DEF InstallTyped, Moved
<1>5. Way(p)'
  BY <1>0, <1>1, <1>3, <1>4, Field DEF LockConfig, Way, Goes, SameBut, Ends
<1>6. InstallTyped'
  BY <1>0, <1>3, <1>4, <1>5, Field, InstallTypedBy DEF LockConfig, Fault, InstallTyped
<1> QED BY <1>1, <1>3, <1>6

LEMMA WroteStep ==
  ASSUME InstallTyped, NEW p \in Procs, Wrote(p)
  PROVE  /\ InstallTyped' /\ Moved(p)
         /\ \E step \in {Exit(p, TRUE)} : Goes(proc[p], proc'[p], step)
<1>0. p \in Procs /\ (p \in Installers => p \notin Selectors)
  BY InstallAssumption DEF Procs, InstallAssumption
<1>1. PICK step \in {Exit(p, TRUE)} : Proceed(p, step) BY DEF Wrote, Exit, Free
<1>2. step \in InstallPoints /\ config' = config BY DEF Wrote, InstallPoints, Ends, Exit, Free
<1>3. Moved(p) /\ Goes(proc[p], proc'[p], step) BY <1>0, <1>1, <1>2, Proceeds DEF InstallTyped
<1>4. proc[p] \in Processes /\ proc'[p] \in Processes /\ Way(p)
  BY <1>0, <1>3 DEF InstallTyped, Moved
<1>5. Way(p)'
  BY <1>0, <1>1, <1>3, <1>4, Field DEF Wrote, Way, Goes, SameBut, Ends, Exit, Free
<1>6. InstallTyped'
  BY <1>0, <1>3, <1>4, <1>5, Field, InstallTypedBy DEF Wrote, Fault, InstallTyped, Exit, Free
<1> QED BY <1>1, <1>3, <1>6


\* configure.ts fails: what its caller does next, and whether it can still roll back.
LEMMA ConfigureFails ==
  ASSUME InstallTyped, NEW p \in Procs, proc[p].at \in {"wait"} \cup InConfigure,
         config' = config,
         proc' = [proc EXCEPT ![p].at = Exit(p, FALSE), ![p].incomplete = proc[p].doing = "rollback"]
  PROVE  /\ Moved(p) /\ Way(p)'
         /\ SameBut(proc[p], proc'[p], {"at", "incomplete"})
         /\ proc'[p].at = Exit(p, FALSE)
         /\ proc'[p].incomplete <=> proc[p].doing = "rollback"
<1> DEFINE b == proc[p].doing = "rollback"
           d == [proc[p] EXCEPT !.at = Exit(p, FALSE), !.incomplete = b]
<1>0. proc[p] \in Processes /\ Way(p) /\ proc \in [Procs -> Processes] BY DEF InstallTyped
<1>1. /\ p \in Selectors => Exit(p, FALSE) = "failed"
      /\ p \notin Selectors => Exit(p, FALSE) = IF proc[p].doing = "rollback" THEN "undo" ELSE "finish"
  BY DEF Exit
<1>2. Exit(p, FALSE) \in {"failed", "undo", "finish"} /\ b \in BOOLEAN BY <1>1
<1>3. /\ d \in Processes /\ SameBut(proc[p], d, {"at", "incomplete"})
      /\ d.at = Exit(p, FALSE)
  <2> HIDE DEF b
  <2> QED BY <1>0, <1>2 DEF Processes, InstallPoints, SameBut, Ends
<1>4. d.incomplete = b
  <2> HIDE DEF b
  <2> QED BY <1>0, <1>2 DEF Processes, InstallPoints
<1>5. Moved(p) /\ proc'[p] = d
  <2>1. proc' = [proc EXCEPT ![p] = d]
    <3> HIDE DEF b
    <3>1. proc' = [proc EXCEPT ![p].at = Exit(p, FALSE), ![p].incomplete = b] BY DEF b
    <3> QED BY <1>0, <3>1
  <2> QED BY <1>0, <1>3, <2>1, OneMoves
<1> HIDE DEF d
<1>6. p \in Selectors \/ p \in Installers BY DEF Procs
<1>7. proc'[p].at \in {"failed", "undo", "finish"} /\ (p \in Selectors => proc'[p].at = "failed")
  BY <1>1, <1>2, <1>3, <1>5
<1>8. proc'[p].recorded = proc[p].recorded /\ proc'[p].doing = proc[p].doing
  BY <1>3, <1>5 DEF SameBut
<1>9. Way(p)' BY <1>0, <1>7, <1>8 DEF Way, Ends
<1>10. proc'[p].incomplete <=> proc[p].doing = "rollback" BY <1>4, <1>5, Zenon DEF b
<1> QED BY <1>3, <1>5, <1>9, <1>10

LEMMA WaitTimesOutStep ==
  ASSUME InstallTyped, NEW p \in Procs, WaitTimesOut(p)
  PROVE  /\ InstallTyped' /\ Moved(p)
         /\ SameBut(proc[p], proc'[p], {"at", "incomplete"})
         /\ proc'[p].at = Exit(p, FALSE)
         /\ proc'[p].incomplete <=> proc[p].doing = "rollback"
<1>1. /\ Moved(p) /\ Way(p)'
      /\ SameBut(proc[p], proc'[p], {"at", "incomplete"})
      /\ proc'[p].at = Exit(p, FALSE)
      /\ proc'[p].incomplete <=> proc[p].doing = "rollback"
  BY ConfigureFails DEF WaitTimesOut
<1>2. InstallTyped' BY <1>1, InstallTypedBy DEF WaitTimesOut, Fault, InstallTyped
<1> QED BY <1>1, <1>2

LEMMA ConfigureKilledStep ==
  ASSUME InstallTyped, NEW p \in Procs, ConfigureKilled(p)
  PROVE  /\ InstallTyped' /\ Moved(p)
         /\ SameBut(proc[p], proc'[p], {"at", "incomplete"})
         /\ proc'[p].at = Exit(p, FALSE)
         /\ proc'[p].incomplete <=> proc[p].doing = "rollback"
<1>1. /\ Moved(p) /\ Way(p)'
      /\ SameBut(proc[p], proc'[p], {"at", "incomplete"})
      /\ proc'[p].at = Exit(p, FALSE)
      /\ proc'[p].incomplete <=> proc[p].doing = "rollback"
  BY ConfigureFails DEF ConfigureKilled
<1>2. InstallTyped' BY <1>1, InstallTypedBy DEF ConfigureKilled, Fault, InstallTyped
<1> QED BY <1>1, <1>2

LEMMA RestoreStep ==
  ASSUME InstallTyped, NEW p \in Procs, Restore(p)
  PROVE  /\ InstallTyped' /\ Moved(p)
         /\ SameBut(proc[p], proc'[p], {"at", "recorded"})
         /\ proc'[p].at = "undo"
         /\ proc'[p].recorded = FALSE
         /\ config' = PutBack(p)
<1>0. /\ p \in Procs /\ (p \in Installers => p \notin Selectors)
      /\ p \in Installers \/ p \in Selectors
  BY InstallAssumption DEF Procs, InstallAssumption
<1>1. proc[p] \in Processes /\ Way(p) BY <1>0 DEF InstallTyped
<1>2. ASSUME TRUE PROVE /\ InstallTyped' /\ Moved(p)
                          /\ SameBut(proc[p], proc'[p], {"at", "recorded"})
                          /\ proc'[p].at = "undo"
                          /\ proc'[p].recorded = FALSE
                          /\ config' = PutBack(p)
  <2> DEFINE d == [proc[p] EXCEPT !.at = "undo", !.recorded = FALSE]
  <2>0. /\ config \in [ConfigFiles -> Contents] /\ proc \in [Procs -> Processes] BY DEF InstallTyped
  <2>1. /\ d \in Processes /\ SameBut(proc[p], d, {"at", "recorded"})
        /\ d.at = "undo" /\ d.recorded = FALSE
    BY <1>1 DEF Processes, SameBut, InstallPoints
  <2>2. Put(p, PutBack(p), d) /\ PutBack(p) \in [ConfigFiles -> Contents]
    BY <1>0, <1>1, <1>2, <2>0, Field DEF Restore, PutBack, Contents
  <2>3. Moved(p) /\ proc'[p] = d /\ config' = PutBack(p) BY <1>0, <2>0, <2>1, <2>2, OnePuts
  <2>4. Way(p)' BY <1>0, <1>1, <1>2, <2>1, <2>3, Field DEF Restore, Way, SameBut, Ends
  <2>5. InstallTyped'
    BY <1>0, <2>2, <2>3, <2>4, <1>2, InstallTypedBy DEF Restore, Fault, Free, InstallTyped
  <2> QED BY <1>2, <2>1, <2>3, <2>5 DEF Restore
<1> QED BY <1>2

LEMMA WriteFailsStep ==
  ASSUME InstallTyped, NEW p \in Procs, WriteFails(p)
  PROVE  /\ InstallTyped' /\ Moved(p)
         /\ SameBut(proc[p], proc'[p], {"at", "recorded"})
         /\ proc'[p].at = Exit(p, FALSE)
         /\ proc'[p].recorded = FALSE
         /\ config' = Restored(p)
<1>0. /\ p \in Procs /\ (p \in Installers => p \notin Selectors)
      /\ p \in Installers \/ p \in Selectors
  BY InstallAssumption DEF Procs, InstallAssumption
<1>1. proc[p] \in Processes /\ Way(p) BY <1>0 DEF InstallTyped
<1>2. ASSUME TRUE PROVE /\ InstallTyped' /\ Moved(p)
                          /\ SameBut(proc[p], proc'[p], {"at", "recorded"})
                          /\ proc'[p].at = Exit(p, FALSE)
                          /\ proc'[p].recorded = FALSE
                          /\ config' = Restored(p)
  <2> DEFINE d == [proc[p] EXCEPT !.at = Exit(p, FALSE), !.recorded = FALSE]
  <2>0. /\ config \in [ConfigFiles -> Contents] /\ proc \in [Procs -> Processes] BY DEF InstallTyped
  <2>1. /\ d \in Processes /\ SameBut(proc[p], d, {"at", "recorded"})
        /\ d.at = Exit(p, FALSE) /\ d.recorded = FALSE
    <3>1. Exit(p, FALSE) \in InstallPoints BY DEF Exit, InstallPoints, Ends
    <3> QED BY <1>1, <3>1 DEF Processes, SameBut
  <2>2. Put(p, Restored(p), d) /\ (Restored(p)) \in [ConfigFiles -> Contents]
    BY <1>0, <1>1, <1>2, <2>0, Field DEF WriteFails, Contents, Exit, Restored
  <2>3. Moved(p) /\ proc'[p] = d /\ config' = (Restored(p)) BY <1>0, <2>0, <2>1, <2>2, OnePuts
  <2>4. Way(p)' BY <1>0, <1>1, <1>2, <2>1, <2>3, Field DEF WriteFails, Way, SameBut, Ends, Exit
  <2>5. InstallTyped'
    BY <1>0, <2>2, <2>3, <2>4, <1>2, InstallTypedBy DEF WriteFails, Fault, Free, InstallTyped, Exit
  <2> QED BY <1>2, <2>1, <2>3, <2>5 DEF WriteFails, Exit
<1> QED BY <1>2


Shared == <<checkout, installLock, edits, raced, slow>>

LEMMA ReadStep ==
  ASSUME InstallTyped, NEW p \in Procs, Read(p)
  PROVE  /\ InstallTyped' /\ Moved(p)
         /\ \/ p \in Selectors /\ Goes(proc[p], proc'[p], "failed") /\ Free
            \/ /\ UNCHANGED configLock
               /\ SameBut(proc[p], proc'[p], {"at", "model", "read", "changed", "done"})
               /\ proc'[p].at = "backup" /\ proc'[p].read = config /\ proc'[p].done = {}
               /\ proc'[p].changed = {f \in ConfigFiles : config[f].plugin # proc'[p].model}
               /\ p \in Selectors => \A f \in ConfigFiles : Configured(config[f])
<1>0. /\ config' = config /\ config \in [ConfigFiles -> Contents]
      /\ proc[p] \in Processes /\ Way(p) /\ proc \in [Procs -> Processes]
      /\ p \in Installers => p \notin Selectors
      /\ p \in Installers \/ p \in Selectors
  BY InstallAssumption DEF Procs, InstallAssumption, InstallTyped, Read
<1> DEFINE refused == p \in Selectors /\ \E f \in ConfigFiles : ~Configured(config[f])
           m == IF p \in Selectors \/ ~Configured(config["server"]) THEN proc[p].model
                ELSE config["server"].plugin
<1>1. CASE refused
  <2>0. Proceed(p, "failed") BY <1>1 DEF Read, Exit
  <2>1. Moved(p) /\ Goes(proc[p], proc'[p], "failed") BY <1>0, <2>0, Proceeds DEF InstallPoints, Ends
  <2>2. Way(p)' BY <1>0, <2>1 DEF Way, Goes, Ends
  <2>4. UNCHANGED <<config, checkout, installLock, edits, raced, slow, installFaults>> /\ Free
    BY <1>1 DEF Read
  <2>3. InstallTyped' BY <1>0, <2>1, <2>2, <2>4, InstallTypedBy DEF Free, InstallTyped
  <2> QED BY <1>1, <2>1, <2>3, <2>4
<1>2. CASE ~refused
  <2> DEFINE ch == {f \in ConfigFiles : config[f].plugin # m}
             d == [proc[p] EXCEPT !.at = "backup", !.model = m, !.read = config, !.changed = ch, !.done = {}]
  <2>0. m \in {"selected", "chosen"} /\ ch \in SUBSET ConfigFiles
    BY <1>0, Field DEF Configured, Contents, ConfigFiles
  <2>1. proc' = [proc EXCEPT ![p] = d]
    <3>1. proc' = [proc EXCEPT ![p].at = "backup", ![p].model = m, ![p].read = config,
                               ![p].changed = ch, ![p].done = {}]
      BY <1>2 DEF Read
    <3> HIDE DEF m, ch
    <3> QED BY <1>0, <3>1
  <2>2. /\ d \in Processes /\ SameBut(proc[p], d, {"at", "model", "read", "changed", "done"})
        /\ d.at = "backup" /\ d.read = config /\ d.done = {} /\ d.changed = ch /\ d.model = m
    <3> HIDE DEF m, ch
    <3> QED BY <1>0, <2>0 DEF Processes, InstallPoints, SameBut
  <2> HIDE DEF d
  <2>3. Moved(p) /\ proc'[p] = d BY <1>0, <2>1, <2>2, OneMoves
  <2>4. Way(p)' BY <1>0, <2>2, <2>3, Field DEF Way, SameBut, Read, Ends
  <2>5. UNCHANGED configLock BY <1>2 DEF Read
  <2>7. UNCHANGED <<config, checkout, installLock, edits, raced, slow, installFaults>> BY DEF Read
  <2>6. InstallTyped' BY <1>0, <2>3, <2>4, <2>5, <2>7, InstallTypedBy DEF InstallTyped
  <2> QED BY <1>2, <2>2, <2>3, <2>5, <2>6
<1> QED BY <1>1, <1>2

LEMMA BackupStep ==
  ASSUME InstallTyped, NEW p \in Procs, Backup(p)
  PROVE  /\ InstallTyped' /\ Moved(p)
         /\ \/ proc[p].changed = {} /\ Goes(proc[p], proc'[p], Exit(p, TRUE)) /\ Free
            \/ /\ proc[p].changed # {} /\ UNCHANGED configLock
               /\ SameBut(proc[p], proc'[p], {"at", "saved", "recorded"})
               /\ proc'[p].at = "write" /\ proc'[p].saved = config
               /\ proc'[p].recorded <=> p \in Installers
<1>0. /\ config' = config /\ config \in [ConfigFiles -> Contents]
      /\ proc[p] \in Processes /\ Way(p) /\ proc \in [Procs -> Processes]
      /\ p \in Installers => p \notin Selectors
      /\ p \in Installers \/ p \in Selectors
  BY InstallAssumption DEF Procs, InstallAssumption, InstallTyped, Backup
<1>1. CASE proc[p].changed = {}
  <2>0. Proceed(p, Exit(p, TRUE)) /\ Exit(p, TRUE) = IF p \in Selectors THEN "done" ELSE "verify"
    BY <1>0, <1>1 DEF Backup, Exit, Way
  <2>1. Moved(p) /\ Goes(proc[p], proc'[p], Exit(p, TRUE)) BY <1>0, <2>0, Proceeds DEF InstallPoints, Ends
  <2>2. Way(p)' BY <1>0, <2>0, <2>1 DEF Way, Goes, Ends, SameBut, Backup
  <2>4. UNCHANGED <<config, checkout, installLock, edits, raced, slow, installFaults>> /\ Free
    BY <1>1 DEF Backup
  <2>3. InstallTyped' BY <1>0, <2>1, <2>2, <2>4, InstallTypedBy DEF Free, InstallTyped
  <2> QED BY <1>1, <2>1, <2>3, <2>4
<1>2. CASE proc[p].changed # {}
  <2> DEFINE b == p \in Installers
             d == [proc[p] EXCEPT !.at = "write", !.saved = config, !.recorded = b]
  <2>0. b \in BOOLEAN OBVIOUS
  <2>1. proc' = [proc EXCEPT ![p] = d]
    <3>1. proc' = [proc EXCEPT ![p].at = "write", ![p].saved = config, ![p].recorded = b]
      BY <1>2 DEF Backup
    <3> HIDE DEF b
    <3> QED BY <1>0, <3>1
  <2>2. /\ d \in Processes /\ SameBut(proc[p], d, {"at", "saved", "recorded"})
        /\ d.at = "write" /\ d.saved = config /\ d.recorded = b
    <3> HIDE DEF b
    <3> QED BY <1>0, <2>0 DEF Processes, InstallPoints, SameBut
  <2> HIDE DEF d
  <2>3. Moved(p) /\ proc'[p] = d BY <1>0, <2>1, <2>2, OneMoves
  <2>7. proc'[p].recorded <=> p \in Installers BY <2>2, <2>3, Zenon
  <2>4. Way(p)'
    <3>1. proc'[p].at = "write" /\ proc'[p].doing = "apply"
      BY <1>0, <2>2, <2>3 DEF SameBut, Way, Backup
    <3> QED BY <1>0, <3>1, <2>7 DEF Way, Ends
  <2>5. UNCHANGED configLock BY <1>2 DEF Backup
  <2>6. InstallTyped' BY <1>0, <2>3, <2>4, <2>5, InstallTypedBy DEF Backup, InstallTyped
  <2> QED BY <1>2, <2>2, <2>3, <2>5, <2>6, <2>7
<1> QED BY <1>1, <1>2

LEMMA ConfigWriteStep ==
  ASSUME InstallTyped, NEW p \in Procs, Write(p)
  PROVE  /\ InstallTyped' /\ Moved(p)
         /\ \E f \in proc[p].changed \ proc[p].done :
              /\ config' = [config EXCEPT ![f] = Applied(p, f)]
              /\ SameBut(proc[p], proc'[p], {"done"})
              /\ proc'[p].done = proc[p].done \cup {f}
<1>0. /\ config \in [ConfigFiles -> Contents] /\ proc[p] \in Processes /\ Way(p)
      /\ proc \in [Procs -> Processes]
  BY DEF InstallTyped
<1>1. PICK f \in proc[p].changed \ proc[p].done :
         Put(p, [config EXCEPT ![f] = Applied(p, f)], [proc[p] EXCEPT !.done = @ \cup {f}])
  BY DEF Write
<1> DEFINE d == [proc[p] EXCEPT !.done = @ \cup {f}]
           c == [config EXCEPT ![f] = Applied(p, f)]
<1>2. f \in ConfigFiles BY <1>0, Field
<1>3. Applied(p, f) \in Contents
  <2>1. proc[p].read[f] \in Contents /\ proc[p].model \in {"selected", "chosen"}
    BY <1>0, <1>2, Field
  <2> QED BY <2>1 DEF Applied, Contents
<1>4. c \in [ConfigFiles -> Contents] BY <1>0, <1>3
<1>5. proc[p].done \cup {f} \in SUBSET ConfigFiles BY <1>0, <1>2, Field
<1>6. d \in Processes /\ SameBut(proc[p], d, {"done"}) /\ d.done = proc[p].done \cup {f}
  BY <1>0, <1>5 DEF Processes, InstallPoints, SameBut
<1>7. Put(p, c, d) BY <1>1
<1> HIDE DEF d, c
<1>8. Moved(p) /\ config' = c /\ proc'[p] = d BY <1>0, <1>6, <1>7, OnePuts
<1>9. Way(p)' BY <1>0, <1>6, <1>8 DEF Way, SameBut
<1>10. InstallTyped' BY <1>4, <1>8, <1>9, InstallTypedBy DEF Write, InstallTyped
<1> QED BY <1>6, <1>8, <1>10 DEF c

LEMMA CheckStep ==
  ASSUME InstallTyped, NEW p \in Procs, Check(p)
  PROVE  /\ InstallTyped' /\ Moved(p)
         /\ \/ /\ Approves(p) /\ UNCHANGED configLock
               /\ SameBut(proc[p], proc'[p], {"at", "done"})
               /\ proc'[p].at = "restore"
               /\ proc'[p].done = {f \in proc[p].changed : ~Untouched(p, f)}
            \/ /\ SameBut(proc[p], proc'[p], {"at", "incomplete"}) /\ Free
               /\ proc'[p].at = "undo" /\ proc'[p].incomplete = TRUE
<1>0. /\ config' = config /\ config \in [ConfigFiles -> Contents]
      /\ proc[p] \in Processes /\ Way(p) /\ proc \in [Procs -> Processes]
      /\ p \notin Selectors
  BY DEF InstallTyped, Check, Way, Ends
<1>1. CASE Approves(p)
  <2> DEFINE s == {f \in proc[p].changed : ~Untouched(p, f)}
             d == [proc[p] EXCEPT !.at = "restore", !.done = s]
  <2>0. s \in SUBSET ConfigFiles BY <1>0, Field
  <2>1. proc' = [proc EXCEPT ![p] = d]
    <3>1. proc' = [proc EXCEPT ![p].at = "restore", ![p].done = s] BY <1>1 DEF Check
    <3> HIDE DEF s
    <3> QED BY <1>0, <3>1
  <2>2. d \in Processes /\ SameBut(proc[p], d, {"at", "done"}) /\ d.at = "restore" /\ d.done = s
    <3> HIDE DEF s
    <3> QED BY <1>0, <2>0 DEF Processes, InstallPoints, SameBut
  <2> HIDE DEF d
  <2>3. Moved(p) /\ proc'[p] = d BY <1>0, <2>1, <2>2, OneMoves
  <2>4. Way(p)' BY <1>0, <2>2, <2>3 DEF Way, SameBut, Check
  <2>5. UNCHANGED configLock BY <1>1 DEF Check
  <2>6. InstallTyped' BY <1>0, <2>3, <2>4, <2>5, InstallTypedBy DEF Check, InstallTyped
  <2> QED BY <1>1, <2>2, <2>3, <2>5, <2>6
<1>2. CASE ~Approves(p)
  <2> DEFINE d == [proc[p] EXCEPT !.at = "undo", !.incomplete = TRUE]
  <2>1. proc' = [proc EXCEPT ![p] = d] /\ Free BY <1>0, <1>2 DEF Check
  <2>2. d \in Processes /\ SameBut(proc[p], d, {"at", "incomplete"}) /\ d.at = "undo" /\ d.incomplete = TRUE
    BY <1>0 DEF Processes, InstallPoints, SameBut
  <2> HIDE DEF d
  <2>3. Moved(p) /\ proc'[p] = d BY <1>0, <2>1, <2>2, OneMoves
  <2>4. Way(p)' BY <1>0, <2>2, <2>3 DEF Way, SameBut, Check
  <2>6. InstallTyped' BY <1>0, <2>1, <2>3, <2>4, InstallTypedBy DEF Check, Free, InstallTyped
  <2> QED BY <2>1, <2>2, <2>3, <2>6
<1> QED BY <1>1, <1>2

\* The guards of the long actions, and what they leave alone.
LEMMA ConfigureFrame ==
  ASSUME NEW p \in Procs
  PROVE  /\ Read(p) => proc[p].at = "read" /\ config' = config /\ UNCHANGED Shared
         /\ Backup(p) => proc[p].at = "backup" /\ config' = config /\ UNCHANGED Shared
         /\ Write(p) => proc[p].at = "write" /\ configLock' = configLock /\ UNCHANGED Shared
         /\ WriteFails(p) => proc[p].at = "write" /\ Free /\ UNCHANGED Shared
         /\ Check(p) => proc[p].at = "check" /\ config' = config /\ UNCHANGED Shared
         /\ Restore(p) => proc[p].at = "restore" /\ Free /\ UNCHANGED Shared
<1> USE DEF Shared
<1>1. Read(p) => proc[p].at = "read" /\ config' = config /\ UNCHANGED Shared BY DEF Read
<1>2. Backup(p) => proc[p].at = "backup" /\ config' = config /\ UNCHANGED Shared BY DEF Backup
<1>3. Write(p) => proc[p].at = "write" /\ configLock' = configLock /\ UNCHANGED Shared BY DEF Write
<1>4. WriteFails(p) => proc[p].at = "write" /\ Free /\ UNCHANGED Shared BY DEF WriteFails
<1>5. Check(p) => proc[p].at = "check" /\ config' = config /\ UNCHANGED Shared BY DEF Check
<1>6. Restore(p) => proc[p].at = "restore" /\ Free /\ UNCHANGED Shared BY DEF Restore
<1> QED BY <1>1, <1>2, <1>3, <1>4, <1>5, <1>6

LEMMA AgesStep == ASSUME InstallTyped, Ages PROVE InstallTyped'
<1>1. /\ installFaults' \in Nat
      /\ [configLock EXCEPT !.old = TRUE] \in [holder : Procs \cup {"free"}, old : BOOLEAN]
  <2>1. configLock \in [holder : Procs \cup {"free"}, old : BOOLEAN] /\ installFaults \in Nat
    BY DEF InstallTyped
  <2>2. [configLock EXCEPT !.old = TRUE] \in [holder : Procs \cup {"free"}, old : BOOLEAN]
    BY <2>1
  <2>3. installFaults' \in Nat BY <2>1 DEF Ages, Fault
  <2> QED BY <2>2, <2>3
<1> QED BY <1>1 DEF Ages, InstallTyped, Way

LEMMA EditStep ==
  ASSUME InstallTyped, NEW f \in ConfigFiles, Edit(f)
  PROVE  /\ InstallTyped' /\ Moved("user") /\ \A q \in Procs : Stands(q)
         /\ edits' = [edits EXCEPT ![f] = @ + 1]
         /\ config'[f].edit = config[f].edit + 1
         /\ Configured(config'[f]) <=> Configured(config[f])
         /\ \A g \in ConfigFiles \ {f} : config'[g] = config[g]
<1> DEFINE e == [edit |-> config[f].edit + 1,
                 plugin |-> IF config[f].plugin = "absent" THEN "none" ELSE config[f].plugin]
           c == [config EXCEPT ![f] = e]
<1>0. /\ config \in [ConfigFiles -> Contents] /\ proc \in [Procs -> Processes]
      /\ config[f] \in Contents
      /\ "user" \notin Procs
  BY InstallAssumption DEF InstallTyped, InstallAssumption, Procs
<1>1. /\ e \in Contents /\ e.edit = config[f].edit + 1
      /\ Configured(e) <=> Configured(config[f])
  BY <1>0 DEF Contents, Configured
<1>2. Put("user", c, {}) BY DEF Edit
<1>3. c \in [ConfigFiles -> Contents] /\ c[f] = e /\ \A g \in ConfigFiles \ {f} : c[g] = config[g]
  <2> HIDE DEF e
  <2> QED BY <1>0, <1>1
<1> HIDE DEF c, e
<1>4. Moved("user") /\ config' = c BY <1>0, <1>2, OnePuts
<1>5. edits' \in [ConfigFiles -> Nat] /\ raced' \in SUBSET ConfigFiles BY DEF Edit, InstallTyped
<1>6. InstallTyped' BY <1>0, <1>3, <1>4, <1>5, InstallTypedBy DEF Edit, InstallTyped
<1> QED BY <1>0, <1>1, <1>3, <1>4, <1>6 DEF Edit, Moved


----------------------------------------------------------------------------
\* A step of a process keeps the edits if the files keep theirs and its own copies do.
LEMMA KeptBy ==
  ASSUME EditsInv, NEW p, Moved(p), edits' = edits, raced' = raced,
         \A f \in ConfigFiles \ raced : config'[f].edit = config[f].edit,
         p \in Procs => \A f \in ConfigFiles : CopiesKept(p, f)'
  PROVE  EditsInv'
<1>1. EditsKept' BY DEF EditsInv, EditsKept
<1>2. ASSUME NEW q \in Procs \ {p}, NEW f \in ConfigFiles PROVE CopiesKept(q, f)'
  <2>1. CopiesKept(q, f) /\ SameBut(proc[q], proc'[q], {"others"}) BY DEF EditsInv, Moved, Stands
  <2> QED BY <2>1 DEF CopiesKept, SameBut
<1> QED BY <1>1, <1>2 DEF EditsInv

LEMMA CopiesLeft ==
  ASSUME NEW p, NEW f, CopiesKept(p, f), edits' = edits, raced' = raced,
         SameBut(proc[p], proc'[p], {"at", "doing", "incomplete"}),
         proc'[p].at \notin {"backup", "write", "restore"}
  PROVE  CopiesKept(p, f)'
BY DEF CopiesKept, SameBut

LEMMA EditsStep ==
  ASSUME InstallTyped, EditsInv, InstallNext PROVE EditsInv'
<1>p. /\ Installers \subseteq Procs /\ Selectors \subseteq Procs
      /\ \A p \in Procs : Way(p) /\ proc[p] \in Processes /\ \A f \in ConfigFiles : CopiesKept(p, f)
      /\ EditsKept
      /\ InstallTyped /\ EditsInv
  BY DEF Procs, InstallTyped, EditsInv
<1> USE <1>p
<1>1. ASSUME NEW p \in Installers, BeginInstall(p) PROVE EditsInv'
  <2>1. Moved(p) /\ edits' = edits /\ raced' = raced BY <1>1, BeginInstallStep DEF BeginInstall
  <2>2. ASSUME NEW f \in ConfigFiles PROVE CopiesKept(p, f)'
    BY <1>1, <2>1, BeginInstallStep DEF BeginInstall, CopiesKept, SameBut, Goes, Way, Exit,
       EditsKept, Ends
  <2>3. \A f \in ConfigFiles \ raced : config'[f].edit = config[f].edit BY <1>1 DEF BeginInstall
  <2> QED BY <2>1, <2>2, <2>3, KeptBy
<1>2. ASSUME NEW p \in Installers, Checkout(p) PROVE EditsInv'
  <2>1. Moved(p) /\ edits' = edits /\ raced' = raced BY <1>2, CheckoutStep DEF Checkout
  <2>2. ASSUME NEW f \in ConfigFiles PROVE CopiesKept(p, f)'
    BY <1>2, <2>1, CheckoutStep DEF Checkout, CopiesKept, SameBut, Goes, Way, Exit, EditsKept, Ends
  <2>3. \A f \in ConfigFiles \ raced : config'[f].edit = config[f].edit BY <1>2 DEF Checkout
  <2> QED BY <2>1, <2>2, <2>3, KeptBy
<1>3. ASSUME NEW p \in Installers, Verify(p) PROVE EditsInv'
  <2>1. Moved(p) /\ edits' = edits /\ raced' = raced BY <1>3, VerifyStep DEF Verify
  <2>2. ASSUME NEW f \in ConfigFiles PROVE CopiesKept(p, f)'
    BY <1>3, <2>1, VerifyStep DEF Verify, CopiesKept, SameBut, Goes, Way, Exit, EditsKept, Ends
  <2>3. \A f \in ConfigFiles \ raced : config'[f].edit = config[f].edit BY <1>3 DEF Verify
  <2> QED BY <2>1, <2>2, <2>3, KeptBy
<1>4. ASSUME NEW p \in Installers, Commit(p) PROVE EditsInv'
  <2>1. Moved(p) /\ edits' = edits /\ raced' = raced BY <1>4, CommitStep DEF Commit
  <2>2. ASSUME NEW f \in ConfigFiles PROVE CopiesKept(p, f)'
    BY <1>4, <2>1, CommitStep DEF Commit, CopiesKept, SameBut, Goes, Way, Exit, EditsKept, Ends
  <2>3. \A f \in ConfigFiles \ raced : config'[f].edit = config[f].edit BY <1>4 DEF Commit
  <2> QED BY <2>1, <2>2, <2>3, KeptBy
<1>5. ASSUME NEW p \in Installers, Finish(p) PROVE EditsInv'
  <2>1. Moved(p) /\ edits' = edits /\ raced' = raced BY <1>5, FinishStep DEF Finish
  <2>2. ASSUME NEW f \in ConfigFiles PROVE CopiesKept(p, f)'
    BY <1>5, <2>1, FinishStep DEF Finish, CopiesKept, SameBut, Goes, Way, Exit, EditsKept, Ends
  <2>3. \A f \in ConfigFiles \ raced : config'[f].edit = config[f].edit BY <1>5 DEF Finish
  <2> QED BY <2>1, <2>2, <2>3, KeptBy
<1>6. ASSUME NEW p \in Installers, Undo(p) PROVE EditsInv'
  <2>1. Moved(p) /\ edits' = edits /\ raced' = raced BY <1>6, UndoStep DEF Undo
  <2>2. ASSUME NEW f \in ConfigFiles PROVE CopiesKept(p, f)'
    BY <1>6, <2>1, UndoStep DEF Undo, CopiesKept, SameBut, Goes, Way, Exit, EditsKept, Ends
  <2>3. \A f \in ConfigFiles \ raced : config'[f].edit = config[f].edit BY <1>6 DEF Undo
  <2> QED BY <2>1, <2>2, <2>3, KeptBy
<1>7. ASSUME NEW p \in Selectors, Select(p) PROVE EditsInv'
  <2>1. Moved(p) /\ edits' = edits /\ raced' = raced BY <1>7, SelectStep DEF Select
  <2>2. ASSUME NEW f \in ConfigFiles PROVE CopiesKept(p, f)'
    BY <1>7, <2>1, SelectStep DEF Select, CopiesKept, SameBut, Goes, Way, Exit, EditsKept, Ends
  <2>3. \A f \in ConfigFiles \ raced : config'[f].edit = config[f].edit BY <1>7 DEF Select
  <2> QED BY <2>1, <2>2, <2>3, KeptBy
<1>8. ASSUME NEW p \in Procs, LockConfig(p) PROVE EditsInv'
  <2>1. Moved(p) /\ edits' = edits /\ raced' = raced BY <1>8, LockConfigStep DEF LockConfig
  <2>2. ASSUME NEW f \in ConfigFiles PROVE CopiesKept(p, f)'
    BY <1>8, <2>1, LockConfigStep DEF LockConfig, CopiesKept, SameBut, Goes, Way, Exit, EditsKept,
       Ends
  <2>3. \A f \in ConfigFiles \ raced : config'[f].edit = config[f].edit BY <1>8 DEF LockConfig
  <2> QED BY <2>1, <2>2, <2>3, KeptBy
<1>9. ASSUME NEW p \in Procs, WaitTimesOut(p) PROVE EditsInv'
  <2>1. /\ Moved(p) /\ edits' = edits /\ raced' = raced /\ config' = config
        /\ SameBut(proc[p], proc'[p], {"at", "incomplete"}) /\ proc'[p].at = Exit(p, FALSE)
    BY <1>9, WaitTimesOutStep DEF WaitTimesOut
  <2>2. proc'[p].at \notin {"backup", "write", "restore"} BY <2>1 DEF Exit
  <2>3. \A f \in ConfigFiles : CopiesKept(p, f)' BY <2>1, <2>2, CopiesLeft DEF SameBut
  <2> QED BY <2>1, <2>3, KeptBy
<1>10. ASSUME NEW p \in Procs, Read(p) PROVE EditsInv'
  <2>1. /\ Moved(p) /\ edits' = edits /\ raced' = raced /\ config' = config /\ ~proc[p].recorded
    BY <1>10, ReadStep, ConfigureFrame DEF Shared, Way
  <2>2. ASSUME NEW f \in ConfigFiles PROVE CopiesKept(p, f)'
    <3>1. CASE Goes(proc[p], proc'[p], "failed") BY <3>1 DEF Goes, Ends, CopiesKept
    <3>2. CASE ~Goes(proc[p], proc'[p], "failed")
      <4>1. /\ SameBut(proc[p], proc'[p], {"at", "model", "read", "changed", "done"})
            /\ proc'[p].at = "backup" /\ proc'[p].read = config
        BY <1>10, <3>2, ReadStep
      <4> QED BY <2>1, <4>1 DEF CopiesKept, SameBut, EditsKept
    <3> QED BY <3>1, <3>2
  <2> QED BY <2>1, <2>2, KeptBy
<1>11. ASSUME NEW p \in Procs, Backup(p) PROVE EditsInv'
  <2>1. /\ Moved(p) /\ edits' = edits /\ raced' = raced /\ config' = config
        /\ proc[p].at = "backup" /\ ~proc[p].recorded
    BY <1>11, BackupStep, ConfigureFrame DEF Shared, Way
  <2>2. ASSUME NEW f \in ConfigFiles PROVE CopiesKept(p, f)'
    <3>1. CASE proc[p].changed = {} /\ Goes(proc[p], proc'[p], Exit(p, TRUE))
      <4>1. proc'[p].changed = {} BY <3>1 DEF Goes, SameBut
      <4> QED BY <4>1 DEF CopiesKept
    <3>2. CASE ~(proc[p].changed = {} /\ Goes(proc[p], proc'[p], Exit(p, TRUE)))
      <4>1. /\ SameBut(proc[p], proc'[p], {"at", "saved", "recorded"})
            /\ proc'[p].at = "write" /\ proc'[p].saved = config
        BY <1>11, <3>2, BackupStep
      <4> QED BY <2>1, <4>1 DEF CopiesKept, SameBut, EditsKept
    <3> QED BY <3>1, <3>2
  <2> QED BY <2>1, <2>2, KeptBy
<1>12. ASSUME NEW p \in Procs, Write(p) PROVE EditsInv'
  <2>0. /\ InstallTyped /\ edits' = edits /\ raced' = raced /\ proc[p].at = "write" /\ Way(p)
    BY <1>12, ConfigureFrame DEF Shared
  <2>1. Moved(p) BY <1>12, ConfigWriteStep
  <2>2. PICK g \in proc[p].changed \ proc[p].done :
          /\ config' = [config EXCEPT ![g] = Applied(p, g)]
          /\ SameBut(proc[p], proc'[p], {"done"})
    BY <1>12, ConfigWriteStep
  <2>3. ASSUME NEW f \in ConfigFiles PROVE CopiesKept(p, f)'
    BY <2>0, <2>2 DEF CopiesKept, SameBut
  <2>4. ASSUME NEW f \in ConfigFiles \ raced PROVE config'[f].edit = config[f].edit
    <3>1. f # g => config'[f] = config[f] BY <2>2
    <3>2. CASE f = g
      <4>1. config'[g] = Applied(p, g) /\ proc[p].read[g] \in Contents
        BY <2>2, <3>2, Field DEF InstallTyped
      <4>2. Applied(p, g).edit = proc[p].read[g].edit BY <4>1 DEF Applied, Contents
      <4>3. proc[p].read[g].edit = edits[g] BY <2>0, <2>2, <3>2 DEF CopiesKept
      <4> QED BY <3>2, <4>1, <4>2, <4>3 DEF EditsKept
    <3> QED BY <3>1, <3>2
  <2> QED BY <2>0, <2>1, <2>3, <2>4, KeptBy
<1>13. ASSUME NEW p \in Procs, Wrote(p) PROVE EditsInv'
  <2>1. Moved(p) /\ edits' = edits /\ raced' = raced BY <1>13, WroteStep DEF Wrote
  <2>2. ASSUME NEW f \in ConfigFiles PROVE CopiesKept(p, f)'
    BY <1>13, <2>1, WroteStep DEF Wrote, CopiesKept, SameBut, Goes, Way, Exit, EditsKept, Ends
  <2>3. \A f \in ConfigFiles \ raced : config'[f].edit = config[f].edit BY <1>13 DEF Wrote
  <2> QED BY <2>1, <2>2, <2>3, KeptBy
<1>14. ASSUME NEW p \in Procs, WriteFails(p) PROVE EditsInv'
  <2>1. Moved(p) /\ edits' = edits /\ raced' = raced BY <1>14, WriteFailsStep, ConfigureFrame DEF
                                                        Shared
  <2>2. ASSUME NEW f \in ConfigFiles PROVE CopiesKept(p, f)'
    BY <1>14, <2>1, WriteFailsStep, ConfigureFrame DEF Shared, CopiesKept, SameBut, Goes, Way,
       Exit, EditsKept, Ends
  <2>3. ASSUME NEW f \in ConfigFiles \ raced PROVE config'[f].edit = config[f].edit
    <3>1. config' = Restored(p) /\ proc[p].at = "write" BY <1>14, WriteFailsStep, ConfigureFrame
                                                           DEF Shared
    <3>2. f \in proc[p].changed => proc[p].saved[f].edit = edits[f] BY <3>1 DEF CopiesKept
    <3> QED BY <3>1, <3>2 DEF Restored, EditsKept
  <2> QED BY <2>1, <2>2, <2>3, KeptBy
<1>15. ASSUME NEW p \in Procs, Check(p) PROVE EditsInv'
  <2>0. /\ edits' = edits /\ raced' = raced /\ config' = config /\ proc[p].recorded
    BY <1>15, ConfigureFrame DEF Shared, Way
  <2>1. Moved(p) BY <1>15, CheckStep
  <2>2. ASSUME NEW f \in ConfigFiles PROVE CopiesKept(p, f)'
    <3>1. CASE proc'[p].at = "undo"
      <4>1. SameBut(proc[p], proc'[p], {"at", "incomplete"}) BY <1>15, <3>1, CheckStep
      <4> QED BY <2>0, <3>1, <4>1 DEF CopiesKept, SameBut
    <3>2. CASE proc'[p].at # "undo"
      <4>1. /\ Approves(p) /\ SameBut(proc[p], proc'[p], {"at", "done"}) /\ proc'[p].at = "restore"
            /\ proc'[p].done = {g \in proc[p].changed : ~Untouched(p, g)}
        BY <1>15, <3>2, CheckStep
      <4>2. CASE f \in proc'[p].done /\ f \notin raced
        <5>1. config[f] = Applied(p, f) /\ f \in proc[p].changed BY <4>1, <4>2 DEF Approves
        <5>2. Applied(p, f).edit = proc[p].read[f].edit
          <6>1. proc[p].read[f] \in Contents BY Field
          <6> QED BY <6>1 DEF Applied, Contents
        <5>3. proc[p].saved[f].edit = proc[p].read[f].edit BY <2>0, <4>2, <5>1 DEF CopiesKept
        <5>4. proc[p].saved[f].edit = edits[f] BY <4>2, <5>1, <5>2, <5>3 DEF EditsKept
        <5> QED BY <2>0, <4>1, <5>3, <5>4 DEF CopiesKept, SameBut
      <4> QED BY <2>0, <4>1, <4>2 DEF CopiesKept, SameBut
    <3> QED BY <3>1, <3>2
  <2> QED BY <2>0, <2>1, <2>2, KeptBy
<1>16. ASSUME NEW p \in Procs, Restore(p) PROVE EditsInv'
  <2>1. /\ Moved(p) /\ edits' = edits /\ raced' = raced /\ proc[p].at = "restore"
        /\ config' = PutBack(p)
        /\ SameBut(proc[p], proc'[p], {"at", "recorded"})
        /\ proc'[p].at = "undo" /\ proc'[p].recorded = FALSE
    BY <1>16, RestoreStep, ConfigureFrame DEF Shared
  <2>2. ASSUME NEW f \in ConfigFiles PROVE CopiesKept(p, f)' BY <2>1 DEF CopiesKept
  <2>3. ASSUME NEW f \in ConfigFiles \ raced PROVE config'[f].edit = config[f].edit
    <3>1. f \in proc[p].done => proc[p].saved[f].edit = edits[f] BY <2>1 DEF CopiesKept, Way
    <3> QED BY <2>1, <3>1 DEF EditsKept, PutBack
  <2> QED BY <2>1, <2>2, <2>3, KeptBy
<1>17. ASSUME NEW p \in Procs, ConfigureKilled(p) PROVE EditsInv'
  <2>1. /\ Moved(p) /\ edits' = edits /\ raced' = raced /\ config' = config
        /\ SameBut(proc[p], proc'[p], {"at", "incomplete"}) /\ proc'[p].at = Exit(p, FALSE)
    BY <1>17, ConfigureKilledStep DEF ConfigureKilled
  <2>2. proc'[p].at \notin {"backup", "write", "restore"} BY <2>1 DEF Exit
  <2>3. \A f \in ConfigFiles : CopiesKept(p, f)' BY <2>1, <2>2, CopiesLeft DEF SameBut
  <2> QED BY <2>1, <2>3, KeptBy
<1>18. ASSUME NEW p \in Procs, InstallerKilled(p) PROVE EditsInv'
  <2>1. Moved(p) /\ edits' = edits /\ raced' = raced BY <1>18, InstallerKilledStep DEF
                                                        InstallerKilled
  <2>2. ASSUME NEW f \in ConfigFiles PROVE CopiesKept(p, f)'
    BY <1>18, <2>1, InstallerKilledStep DEF InstallerKilled, CopiesKept, SameBut, Goes, Way, Exit,
       EditsKept, Ends
  <2>3. \A f \in ConfigFiles \ raced : config'[f].edit = config[f].edit BY <1>18 DEF InstallerKilled
  <2> QED BY <2>1, <2>2, <2>3, KeptBy
<1>19. CASE Ages BY <1>19 DEF Ages, EditsInv, EditsKept, CopiesKept
<1>20. ASSUME NEW f \in ConfigFiles, Edit(f) PROVE EditsInv'
  <2>1. /\ edits' = [edits EXCEPT ![f] = @ + 1]
        /\ config'[f].edit = config[f].edit + 1
        /\ \A g \in ConfigFiles \ {f} : config'[g] = config[g]
        /\ \A q \in Procs : Stands(q)
    BY <1>20, EditStep
  <2>2. /\ edits \in [ConfigFiles -> Nat]
        /\ raced' = raced \cup (IF \E p \in Procs : About(p, f) THEN {f} ELSE {})
    BY <1>20 DEF Edit, InstallTyped
  <2>3. EditsKept' BY <2>1, <2>2 DEF EditsKept
  <2>4. ASSUME NEW q \in Procs, NEW g \in ConfigFiles PROVE CopiesKept(q, g)'
    <3>1. SameBut(proc[q], proc'[q], {"others"}) BY <2>1 DEF Stands
    <3>2. CASE g # f BY <2>1, <2>2, <3>1, <3>2 DEF CopiesKept, SameBut
    <3>3. CASE g = f
      <4>1. About(q, f) => f \in raced' BY <2>2
      <4>2. CopiesKept(q, f) /\ raced \subseteq raced' BY <2>2
      <4>3. f \in proc[q].changed \ raced' => proc[q].at \notin {"backup", "write", "restore"}
        BY <4>1 DEF About
      <4> QED BY <3>1, <3>3, <4>2, <4>3 DEF CopiesKept, SameBut
    <3> QED BY <3>2, <3>3
  <2> QED BY <2>3, <2>4 DEF EditsInv
<1> QED BY <1>1, <1>2, <1>3, <1>4, <1>5, <1>6, <1>7, <1>8, <1>9, <1>10, <1>11, <1>12, <1>13,
           <1>14, <1>15, <1>16, <1>17, <1>18, <1>19, <1>20 DEF InstallNext, ConfigureNext


----------------------------------------------------------------------------
\* What another process does to a file, the installer has noticed.
LEMMA UndoBy ==
  ASSUME UndoInv, NEW p, Moved(p), p \in Installers => \A f \in ConfigFiles : CanUndo(p, f)'
  PROVE  UndoInv'
<1>1. ASSUME NEW q \in Installers \ {p}, NEW f \in ConfigFiles PROVE CanUndo(q, f)'
  <2>1. /\ CanUndo(q, f) /\ SameBut(proc[q], proc'[q], {"others"})
        /\ f \notin proc'[q].others => f \notin proc[q].others /\ config'[f] = config[f]
    BY DEF UndoInv, Moved, Stands, Procs
  <2> QED BY <2>1 DEF CanUndo, SameBut
<1> QED BY <1>1 DEF UndoInv

LEMMA CanUndoStep ==
  ASSUME ~CommitSignals, InstallTyped, UndoInv, InstallNext PROVE UndoInv'
<1>p. /\ Installers \subseteq Procs /\ Selectors \subseteq Procs
      /\ \A p \in Procs : Way(p) /\ proc[p] \in Processes
      /\ \A p \in Installers : p \notin Selectors /\ \A f \in ConfigFiles : CanUndo(p, f)
      /\ InstallTyped /\ UndoInv
  BY InstallAssumption DEF Procs, InstallTyped, UndoInv, InstallAssumption
<1> USE <1>p
<1>1. ASSUME NEW p \in Installers, BeginInstall(p) PROVE UndoInv'
  <2>1. Moved(p) BY <1>1, BeginInstallStep
  <2>2. ASSUME NEW f \in ConfigFiles, p \in Installers PROVE CanUndo(p, f)'
    BY <1>1, <2>2, BeginInstallStep DEF BeginInstall, CanUndo, SameBut, Goes, Way, Exit, Ends
  <2> QED BY <2>1, <2>2, UndoBy
<1>2. ASSUME NEW p \in Installers, Checkout(p) PROVE UndoInv'
  <2>1. Moved(p) BY <1>2, CheckoutStep
  <2>2. ASSUME NEW f \in ConfigFiles, p \in Installers PROVE CanUndo(p, f)'
    BY <1>2, <2>2, CheckoutStep DEF Checkout, CanUndo, SameBut, Goes, Way, Exit, Ends
  <2> QED BY <2>1, <2>2, UndoBy
<1>3. ASSUME NEW p \in Installers, Verify(p) PROVE UndoInv'
  <2>1. Moved(p) BY <1>3, VerifyStep
  <2>2. ASSUME NEW f \in ConfigFiles, p \in Installers PROVE CanUndo(p, f)'
    BY <1>3, <2>2, VerifyStep DEF Verify, CanUndo, SameBut, Goes, Way, Exit, Ends
  <2> QED BY <2>1, <2>2, UndoBy
<1>4. ASSUME NEW p \in Installers, Commit(p) PROVE UndoInv'
  <2>1. Moved(p) BY <1>4, CommitStep
  <2>2. ASSUME NEW f \in ConfigFiles, p \in Installers PROVE CanUndo(p, f)'
    BY <1>4, <2>2, CommitStep DEF Commit, CanUndo, SameBut, Goes, Way, Exit, Ends
  <2> QED BY <2>1, <2>2, UndoBy
<1>5. ASSUME NEW p \in Installers, Finish(p) PROVE UndoInv'
  <2>1. Moved(p) BY <1>5, FinishStep
  <2>2. ASSUME NEW f \in ConfigFiles, p \in Installers PROVE CanUndo(p, f)'
    BY <1>5, <2>2, FinishStep DEF Finish, CanUndo, SameBut, Goes, Way, Exit, Ends
  <2> QED BY <2>1, <2>2, UndoBy
<1>6. ASSUME NEW p \in Installers, Undo(p) PROVE UndoInv'
  <2>1. Moved(p) BY <1>6, UndoStep
  <2>2. ASSUME NEW f \in ConfigFiles, p \in Installers PROVE CanUndo(p, f)'
    BY <1>6, <2>2, UndoStep DEF Undo, CanUndo, SameBut, Goes, Way, Exit, Ends
  <2> QED BY <2>1, <2>2, UndoBy
<1>7. ASSUME NEW p \in Selectors, Select(p) PROVE UndoInv'
  BY <1>7, SelectStep, UndoBy
<1>8. ASSUME NEW p \in Procs, LockConfig(p) PROVE UndoInv'
  <2>1. Moved(p) BY <1>8, LockConfigStep
  <2>2. ASSUME NEW f \in ConfigFiles, p \in Installers PROVE CanUndo(p, f)'
    BY <1>8, <2>2, LockConfigStep DEF LockConfig, CanUndo, SameBut, Goes, Way, Exit, Ends
  <2> QED BY <2>1, <2>2, UndoBy
<1>9. ASSUME NEW p \in Procs, WaitTimesOut(p) PROVE UndoInv'
  <2>1. /\ Moved(p) /\ config' = config
        /\ SameBut(proc[p], proc'[p], {"at", "incomplete"}) /\ proc'[p].at = Exit(p, FALSE)
        /\ proc'[p].incomplete <=> proc[p].doing = "rollback"
    BY <1>9, WaitTimesOutStep DEF WaitTimesOut
  <2>2. ASSUME NEW f \in ConfigFiles, p \in Installers PROVE CanUndo(p, f)'
    <3>0. /\ CanUndo(p, f) /\ Way(p) /\ p \notin Selectors /\ proc[p].recorded \in BOOLEAN
          /\ proc[p].at \in {"wait", "read", "backup", "write", "check", "restore"}
      BY <1>9, <2>2, Field DEF WaitTimesOut, InConfigure
    <3>1. CASE proc[p].doing = "rollback"
      <4>1. proc'[p].at = "undo" /\ proc'[p].incomplete BY <2>1, <3>0, <3>1 DEF Exit
      <4> QED BY <2>1, <3>0, <4>1 DEF CanUndo, SameBut
    <3>2. CASE proc[p].doing # "rollback"
      <4>1. proc'[p].at = "finish" /\ proc[p].at \in {"wait", "read", "backup", "write"}
        BY <2>1, <3>0, <3>2 DEF Exit, Way
      <4>2. proc[p].doing = "apply" BY <3>2, Field
      <4>3. proc[p].recorded \/ (f \notin proc[p].others => config[f] = proc[p].before[f])
        BY <2>2, <3>0, <4>1, <4>2 DEF CanUndo, Way
      <4> QED BY <2>1, <3>0, <4>1, <4>3 DEF CanUndo, SameBut
    <3> QED BY <3>1, <3>2
  <2> QED BY <2>1, <2>2, UndoBy
<1>10. ASSUME NEW p \in Procs, Read(p) PROVE UndoInv'
  <2>1. Moved(p) /\ config' = config /\ proc[p].at = "read" /\ ~proc[p].recorded
    BY <1>10, ReadStep, ConfigureFrame DEF Shared, Way
  <2>2. ASSUME NEW f \in ConfigFiles, p \in Installers PROVE CanUndo(p, f)'
    <3>1. /\ SameBut(proc[p], proc'[p], {"at", "model", "read", "changed", "done"})
          /\ proc'[p].at = "backup" /\ proc'[p].read = config
      BY <1>10, <2>2, ReadStep
    <3>2. CanUndo(p, f) BY <2>2
    <3> QED BY <2>1, <3>1, <3>2 DEF CanUndo, SameBut
  <2> QED BY <2>1, <2>2, UndoBy
<1>11. ASSUME NEW p \in Procs, Backup(p) PROVE UndoInv'
  <2>1. Moved(p) /\ config' = config /\ proc[p].at = "backup" /\ ~proc[p].recorded /\ proc[p].doing = "apply"
    BY <1>11, BackupStep, ConfigureFrame DEF Shared, Way
  <2>2. ASSUME NEW f \in ConfigFiles, p \in Installers PROVE CanUndo(p, f)'
    <3>0. CanUndo(p, f) /\ Exit(p, TRUE) = "verify" BY <2>1, <2>2 DEF Exit
    <3>1. CASE Goes(proc[p], proc'[p], Exit(p, TRUE))
      BY <2>1, <3>0, <3>1 DEF Goes, Ends, CanUndo, SameBut
    <3>2. CASE ~Goes(proc[p], proc'[p], Exit(p, TRUE))
      <4>1. /\ SameBut(proc[p], proc'[p], {"at", "saved", "recorded"})
            /\ proc'[p].at = "write" /\ proc'[p].saved = config
        BY <1>11, <3>2, BackupStep
      <4> QED BY <2>1, <3>0, <4>1 DEF CanUndo, SameBut
    <3> QED BY <3>1, <3>2
  <2> QED BY <2>1, <2>2, UndoBy
<1>12. ASSUME NEW p \in Procs, Write(p) PROVE UndoInv'
  <2>1. Moved(p) /\ proc[p].at = "write" BY <1>12, ConfigWriteStep, ConfigureFrame DEF Shared
  <2>2. PICK g \in proc[p].changed \ proc[p].done :
          /\ config' = [config EXCEPT ![g] = Applied(p, g)]
          /\ SameBut(proc[p], proc'[p], {"done"})
    BY <1>12, ConfigWriteStep
  <2>3. ASSUME NEW f \in ConfigFiles, p \in Installers PROVE CanUndo(p, f)'
    <3>1. CanUndo(p, f) /\ (p \in Installers => proc[p].recorded) BY <2>1, <2>3 DEF Way
    <3>2. f \notin proc[p].changed => config'[f] = config[f] BY <2>2
    <3> QED BY <2>1, <2>2, <2>3, <3>1, <3>2 DEF CanUndo, SameBut
  <2> QED BY <2>1, <2>3, UndoBy
<1>13. ASSUME NEW p \in Procs, Wrote(p) PROVE UndoInv'
  <2>1. Moved(p) BY <1>13, WroteStep
  <2>2. ASSUME NEW f \in ConfigFiles, p \in Installers PROVE CanUndo(p, f)'
    BY <1>13, <2>2, WroteStep DEF Wrote, CanUndo, SameBut, Goes, Way, Exit, Ends
  <2> QED BY <2>1, <2>2, UndoBy
<1>14. ASSUME NEW p \in Procs, WriteFails(p) PROVE UndoInv'
  <2>1. /\ Moved(p) /\ proc[p].at = "write" /\ config' = Restored(p)
        /\ SameBut(proc[p], proc'[p], {"at", "recorded"})
        /\ proc'[p].at = Exit(p, FALSE) /\ proc'[p].recorded = FALSE
    BY <1>14, WriteFailsStep, ConfigureFrame DEF Shared
  <2>2. ASSUME NEW f \in ConfigFiles, p \in Installers PROVE CanUndo(p, f)'
    <3>1. /\ CanUndo(p, f) /\ proc[p].recorded /\ proc[p].doing = "apply"
          /\ p \notin Selectors
      BY <2>1, <2>2 DEF Way
    <3>2. proc'[p].at = "finish" BY <2>1, <3>1 DEF Exit
    <3>3. f \notin proc[p].others => config'[f] = proc[p].before[f]
      BY <2>1, <3>1 DEF Restored, CanUndo
    <3> QED BY <2>1, <3>2, <3>3 DEF CanUndo, SameBut
  <2> QED BY <2>1, <2>2, UndoBy
<1>15. ASSUME NEW p \in Procs, Check(p) PROVE UndoInv'
  <2>1. Moved(p) /\ config' = config /\ proc[p].at = "check" /\ proc[p].recorded
    BY <1>15, CheckStep, ConfigureFrame DEF Shared, Way
  <2>2. ASSUME NEW f \in ConfigFiles, p \in Installers PROVE CanUndo(p, f)'
    <3>0. CanUndo(p, f) BY <2>2
    <3>1. CASE proc'[p].at = "undo"
      <4>1. SameBut(proc[p], proc'[p], {"at", "incomplete"}) /\ proc'[p].incomplete
        BY <1>15, <3>1, CheckStep
      <4> QED BY <2>1, <3>0, <3>1, <4>1 DEF CanUndo, SameBut
    <3>2. CASE proc'[p].at # "undo"
      <4>1. /\ SameBut(proc[p], proc'[p], {"at", "done"}) /\ proc'[p].at = "restore"
            /\ proc'[p].done = {g \in proc[p].changed : ~Untouched(p, g)}
        BY <1>15, <3>2, CheckStep
      <4>2. f \notin proc'[p].done => f \notin proc[p].changed \/ config[f] = proc[p].read[f]
        BY <4>1 DEF Untouched
      <4> QED BY <2>1, <3>0, <4>1, <4>2 DEF CanUndo, SameBut
    <3> QED BY <3>1, <3>2
  <2> QED BY <2>1, <2>2, UndoBy
<1>16. ASSUME NEW p \in Procs, Restore(p) PROVE UndoInv'
  <2>1. /\ Moved(p) /\ proc[p].at = "restore" /\ proc[p].recorded
        /\ config' = PutBack(p)
        /\ SameBut(proc[p], proc'[p], {"at", "recorded"})
        /\ proc'[p].at = "undo" /\ proc'[p].recorded = FALSE
    BY <1>16, RestoreStep, ConfigureFrame DEF Shared, Way
  <2>2. ASSUME NEW f \in ConfigFiles, p \in Installers PROVE CanUndo(p, f)'
    <3>1. CanUndo(p, f) BY <2>2
    <3>2. f \notin proc[p].others => config'[f] = proc[p].before[f]
      BY <2>1, <3>1 DEF CanUndo, PutBack
    <3> QED BY <2>1, <3>2 DEF CanUndo, SameBut
  <2> QED BY <2>1, <2>2, UndoBy
<1>17. ASSUME NEW p \in Procs, ConfigureKilled(p) PROVE UndoInv'
  <2>1. /\ Moved(p) /\ config' = config
        /\ SameBut(proc[p], proc'[p], {"at", "incomplete"}) /\ proc'[p].at = Exit(p, FALSE)
        /\ proc'[p].incomplete <=> proc[p].doing = "rollback"
    BY <1>17, ConfigureKilledStep DEF ConfigureKilled
  <2>2. ASSUME NEW f \in ConfigFiles, p \in Installers PROVE CanUndo(p, f)'
    <3>0. /\ CanUndo(p, f) /\ Way(p) /\ p \notin Selectors /\ proc[p].recorded \in BOOLEAN
          /\ proc[p].at \in {"wait", "read", "backup", "write", "check", "restore"}
      BY <1>17, <2>2, Field DEF ConfigureKilled, InConfigure
    <3>1. CASE proc[p].doing = "rollback"
      <4>1. proc'[p].at = "undo" /\ proc'[p].incomplete BY <2>1, <3>0, <3>1 DEF Exit
      <4> QED BY <2>1, <3>0, <4>1 DEF CanUndo, SameBut
    <3>2. CASE proc[p].doing # "rollback"
      <4>1. proc'[p].at = "finish" /\ proc[p].at \in {"wait", "read", "backup", "write"}
        BY <2>1, <3>0, <3>2 DEF Exit, Way
      <4>2. proc[p].doing = "apply" BY <3>2, Field
      <4>3. proc[p].recorded \/ (f \notin proc[p].others => config[f] = proc[p].before[f])
        BY <2>2, <3>0, <4>1, <4>2 DEF CanUndo, Way
      <4> QED BY <2>1, <3>0, <4>1, <4>3 DEF CanUndo, SameBut
    <3> QED BY <3>1, <3>2
  <2> QED BY <2>1, <2>2, UndoBy
<1>18. ASSUME NEW p \in Procs, InstallerKilled(p) PROVE UndoInv'
  <2>1. Moved(p) BY <1>18, InstallerKilledStep
  <2>2. ASSUME NEW f \in ConfigFiles, p \in Installers PROVE CanUndo(p, f)'
    BY <1>18, <2>2, InstallerKilledStep DEF InstallerKilled, CanUndo, SameBut, Goes, Way, Exit, Ends
  <2> QED BY <2>1, <2>2, UndoBy
<1>19. CASE Ages BY <1>19 DEF Ages, UndoInv, CanUndo
<1>20. ASSUME NEW f \in ConfigFiles, Edit(f) PROVE UndoInv'
  <2>1. Moved("user") /\ "user" \notin Installers
    BY <1>20, EditStep, InstallAssumption DEF InstallAssumption
  <2> QED BY <2>1, UndoBy
<1> QED BY <1>1, <1>2, <1>3, <1>4, <1>5, <1>6, <1>7, <1>8, <1>9, <1>10, <1>11, <1>12, <1>13,
           <1>14, <1>15, <1>16, <1>17, <1>18, <1>19, <1>20 DEF InstallNext, ConfigureNext


----------------------------------------------------------------------------
LEMMA LocksBy ==
  ASSUME NEW p, Moved(p),
         p \in Installers => (Active(p)' => installLock' = p),
         \A q \in Installers \ {p} : Active(q) => installLock' = q,
         p \in Procs /\ ~slow' => (proc'[p].at \in InConfigure => configLock'.holder = p),
         ~slow' => \A q \in Procs \ {p} : proc[q].at \in InConfigure => configLock'.holder = q
  PROVE  LocksInv'
<1>1. \A q \in Procs \ {p} : proc'[q].at = proc[q].at BY DEF Moved, Stands, SameBut
<1> QED BY <1>1 DEF LocksInv, Active, Procs, InConfigure

LEMMA LocksStep ==
  ASSUME InstallTyped, LocksInv, InstallNext PROVE LocksInv'
<1>p. /\ Installers \subseteq Procs /\ Selectors \subseteq Procs
      /\ "free" \notin Procs /\ "user" \notin Procs
      /\ \A p \in Procs : Way(p) /\ proc[p] \in Processes
      /\ \A p \in Installers : p \notin Selectors
      /\ InstallTyped /\ LocksInv
      /\ configLock \in [holder : Procs \cup {"free"}, old : BOOLEAN]
  BY InstallAssumption DEF Procs, InstallTyped, InstallAssumption
<1> USE <1>p
<1>1. ASSUME NEW p \in Installers, BeginInstall(p) PROVE LocksInv'
  <2>1. Moved(p) BY <1>1, BeginInstallStep
  <2>2. p \in Installers => (Active(p)' => installLock' = p)
    BY <1>1, BeginInstallStep DEF BeginInstall, LocksInv, Active, SameBut, Goes, Ends, Exit,
       InConfigure
  <2>3. \A q \in Installers \ {p} : Active(q) => installLock' = q
    BY <1>1 DEF BeginInstall, LocksInv, Active, Ends
  <2>4. ~slow' => (proc'[p].at \in InConfigure => configLock'.holder = p)
    BY <1>1, BeginInstallStep DEF BeginInstall, LocksInv, SameBut, Goes, InConfigure, Exit, Free
  <2>5. ~slow' => \A q \in Procs \ {p} : proc[q].at \in InConfigure => configLock'.holder = q
    BY <1>1 DEF BeginInstall, LocksInv, InConfigure, Free
  <2> QED BY <2>1, <2>2, <2>3, <2>4, <2>5, LocksBy
<1>2. ASSUME NEW p \in Installers, Checkout(p) PROVE LocksInv'
  <2>1. Moved(p) BY <1>2, CheckoutStep
  <2>2. p \in Installers => (Active(p)' => installLock' = p)
    BY <1>2, CheckoutStep DEF Checkout, LocksInv, Active, SameBut, Goes, Ends, Exit, InConfigure
  <2>3. \A q \in Installers \ {p} : Active(q) => installLock' = q
    BY <1>2 DEF Checkout, LocksInv, Active, Ends
  <2>4. ~slow' => (proc'[p].at \in InConfigure => configLock'.holder = p)
    BY <1>2, CheckoutStep DEF Checkout, LocksInv, SameBut, Goes, InConfigure, Exit, Free
  <2>5. ~slow' => \A q \in Procs \ {p} : proc[q].at \in InConfigure => configLock'.holder = q
    BY <1>2 DEF Checkout, LocksInv, InConfigure, Free
  <2> QED BY <2>1, <2>2, <2>3, <2>4, <2>5, LocksBy
<1>3. ASSUME NEW p \in Installers, Verify(p) PROVE LocksInv'
  <2>1. Moved(p) BY <1>3, VerifyStep
  <2>2. p \in Installers => (Active(p)' => installLock' = p)
    BY <1>3, VerifyStep DEF Verify, LocksInv, Active, SameBut, Goes, Ends, Exit, InConfigure
  <2>3. \A q \in Installers \ {p} : Active(q) => installLock' = q
    BY <1>3 DEF Verify, LocksInv, Active, Ends
  <2>4. ~slow' => (proc'[p].at \in InConfigure => configLock'.holder = p)
    BY <1>3, VerifyStep DEF Verify, LocksInv, SameBut, Goes, InConfigure, Exit, Free
  <2>5. ~slow' => \A q \in Procs \ {p} : proc[q].at \in InConfigure => configLock'.holder = q
    BY <1>3 DEF Verify, LocksInv, InConfigure, Free
  <2> QED BY <2>1, <2>2, <2>3, <2>4, <2>5, LocksBy
<1>4. ASSUME NEW p \in Installers, Commit(p) PROVE LocksInv'
  <2>1. Moved(p) BY <1>4, CommitStep
  <2>2. p \in Installers => (Active(p)' => installLock' = p)
    BY <1>4, CommitStep DEF Commit, LocksInv, Active, SameBut, Goes, Ends, Exit, InConfigure
  <2>3. \A q \in Installers \ {p} : Active(q) => installLock' = q
    BY <1>4 DEF Commit, LocksInv, Active, Ends
  <2>4. ~slow' => (proc'[p].at \in InConfigure => configLock'.holder = p)
    BY <1>4, CommitStep DEF Commit, LocksInv, SameBut, Goes, InConfigure, Exit, Free
  <2>5. ~slow' => \A q \in Procs \ {p} : proc[q].at \in InConfigure => configLock'.holder = q
    BY <1>4 DEF Commit, LocksInv, InConfigure, Free
  <2> QED BY <2>1, <2>2, <2>3, <2>4, <2>5, LocksBy
<1>5. ASSUME NEW p \in Installers, Finish(p) PROVE LocksInv'
  <2>1. Moved(p) BY <1>5, FinishStep
  <2>2. p \in Installers => (Active(p)' => installLock' = p)
    BY <1>5, FinishStep DEF Finish, LocksInv, Active, SameBut, Goes, Ends, Exit, InConfigure
  <2>3. \A q \in Installers \ {p} : Active(q) => installLock' = q
    BY <1>5 DEF Finish, LocksInv, Active, Ends
  <2>4. ~slow' => (proc'[p].at \in InConfigure => configLock'.holder = p)
    BY <1>5, FinishStep DEF Finish, LocksInv, SameBut, Goes, InConfigure, Exit, Free
  <2>5. ~slow' => \A q \in Procs \ {p} : proc[q].at \in InConfigure => configLock'.holder = q
    BY <1>5 DEF Finish, LocksInv, InConfigure, Free
  <2> QED BY <2>1, <2>2, <2>3, <2>4, <2>5, LocksBy
<1>6. ASSUME NEW p \in Installers, Undo(p) PROVE LocksInv'
  <2>1. Moved(p) BY <1>6, UndoStep
  <2>2. p \in Installers => (Active(p)' => installLock' = p)
    BY <1>6, UndoStep DEF Undo, LocksInv, Active, SameBut, Goes, Ends, Exit, InConfigure
  <2>3. \A q \in Installers \ {p} : Active(q) => installLock' = q
    BY <1>6 DEF Undo, LocksInv, Active, Ends
  <2>4. ~slow' => (proc'[p].at \in InConfigure => configLock'.holder = p)
    BY <1>6, UndoStep DEF Undo, LocksInv, SameBut, Goes, InConfigure, Exit, Free
  <2>5. ~slow' => \A q \in Procs \ {p} : proc[q].at \in InConfigure => configLock'.holder = q
    BY <1>6 DEF Undo, LocksInv, InConfigure, Free
  <2> QED BY <2>1, <2>2, <2>3, <2>4, <2>5, LocksBy
<1>7. ASSUME NEW p \in Selectors, Select(p) PROVE LocksInv'
  <2>1. Moved(p) BY <1>7, SelectStep
  <2>2. p \in Installers => (Active(p)' => installLock' = p)
    BY <1>7, SelectStep DEF Select, LocksInv, Active, SameBut, Goes, Ends, Exit, InConfigure
  <2>3. \A q \in Installers \ {p} : Active(q) => installLock' = q
    BY <1>7 DEF Select, LocksInv, Active, Ends
  <2>4. ~slow' => (proc'[p].at \in InConfigure => configLock'.holder = p)
    BY <1>7, SelectStep DEF Select, LocksInv, SameBut, Goes, InConfigure, Exit, Free
  <2>5. ~slow' => \A q \in Procs \ {p} : proc[q].at \in InConfigure => configLock'.holder = q
    BY <1>7 DEF Select, LocksInv, InConfigure, Free
  <2> QED BY <2>1, <2>2, <2>3, <2>4, <2>5, LocksBy
<1>8. ASSUME NEW p \in Procs, LockConfig(p) PROVE LocksInv'
  <2>1. Moved(p) BY <1>8, LockConfigStep
  <2>2. p \in Installers => (Active(p)' => installLock' = p)
    BY <1>8, LockConfigStep DEF LockConfig, LocksInv, Active, SameBut, Goes, Ends, Exit, InConfigure
  <2>3. \A q \in Installers \ {p} : Active(q) => installLock' = q
    BY <1>8 DEF LockConfig, LocksInv, Active, Ends
  <2>4. ~slow' => (proc'[p].at \in InConfigure => configLock'.holder = p)
    BY <1>8, LockConfigStep DEF LockConfig, LocksInv, SameBut, Goes, InConfigure, Exit, Free
  <2>5. ~slow' => \A q \in Procs \ {p} : proc[q].at \in InConfigure => configLock'.holder = q
    BY <1>8 DEF LockConfig, LocksInv, InConfigure, Free
  <2> QED BY <2>1, <2>2, <2>3, <2>4, <2>5, LocksBy
<1>9. ASSUME NEW p \in Procs, WaitTimesOut(p) PROVE LocksInv'
  <2>1. Moved(p) BY <1>9, WaitTimesOutStep
  <2>2. p \in Installers => (Active(p)' => installLock' = p)
    BY <1>9, WaitTimesOutStep DEF WaitTimesOut, LocksInv, Active, SameBut, Goes, Ends, Exit,
       InConfigure
  <2>3. \A q \in Installers \ {p} : Active(q) => installLock' = q
    BY <1>9 DEF WaitTimesOut, LocksInv, Active, Ends
  <2>4. ~slow' => (proc'[p].at \in InConfigure => configLock'.holder = p)
    <3>1. proc'[p].at = Exit(p, FALSE) BY <1>9, WaitTimesOutStep
    <3>2. proc'[p].at \notin InConfigure BY <3>1 DEF Exit, InConfigure
    <3> QED BY <3>2
  <2>5. ~slow' => \A q \in Procs \ {p} : proc[q].at \in InConfigure => configLock'.holder = q
    BY <1>9 DEF WaitTimesOut, LocksInv, InConfigure, Free
  <2> QED BY <2>1, <2>2, <2>3, <2>4, <2>5, LocksBy
<1>10. ASSUME NEW p \in Procs, Read(p) PROVE LocksInv'
  <2>1. Moved(p) BY <1>10, ReadStep
  <2>2. p \in Installers => (Active(p)' => installLock' = p)
    BY <1>10, ReadStep, ConfigureFrame DEF Shared, LocksInv, Active, SameBut, Goes, Ends, Exit,
       InConfigure
  <2>3. \A q \in Installers \ {p} : Active(q) => installLock' = q
    BY <1>10, ConfigureFrame DEF Shared, LocksInv, Active, Ends
  <2>4. ~slow' => (proc'[p].at \in InConfigure => configLock'.holder = p)
    BY <1>10, ReadStep, ConfigureFrame DEF Shared, LocksInv, SameBut, Goes, InConfigure, Exit, Free
  <2>5. ~slow' => \A q \in Procs \ {p} : proc[q].at \in InConfigure => configLock'.holder = q
    BY <1>10, ConfigureFrame DEF Shared, LocksInv, InConfigure, Free
  <2> QED BY <2>1, <2>2, <2>3, <2>4, <2>5, LocksBy
<1>11. ASSUME NEW p \in Procs, Backup(p) PROVE LocksInv'
  <2>1. Moved(p) BY <1>11, BackupStep
  <2>2. p \in Installers => (Active(p)' => installLock' = p)
    BY <1>11, BackupStep, ConfigureFrame DEF Shared, LocksInv, Active, SameBut, Goes, Ends, Exit,
       InConfigure
  <2>3. \A q \in Installers \ {p} : Active(q) => installLock' = q
    BY <1>11, ConfigureFrame DEF Shared, LocksInv, Active, Ends
  <2>4. ~slow' => (proc'[p].at \in InConfigure => configLock'.holder = p)
    <3>1. CASE Goes(proc[p], proc'[p], Exit(p, TRUE))
      <4>1. proc'[p].at \notin InConfigure BY <3>1 DEF Goes, Exit, InConfigure
      <4> QED BY <4>1
    <3>2. CASE ~Goes(proc[p], proc'[p], Exit(p, TRUE))
      <4>1. proc'[p].at = "write" BY <1>11, <3>2, BackupStep
      <4>2. proc[p].changed # {} BY <1>11, <3>2, BackupStep
      <4>3. UNCHANGED configLock /\ slow' = slow /\ proc[p].at = "backup"
        BY <1>11, <3>2, <4>2, BackupStep, ConfigureFrame DEF Shared
      <4> QED BY <4>3 DEF LocksInv, InConfigure
    <3> QED BY <3>1, <3>2
  <2>5. ~slow' => \A q \in Procs \ {p} : proc[q].at \in InConfigure => configLock'.holder = q
    BY <1>11, ConfigureFrame DEF Shared, LocksInv, InConfigure, Free
  <2> QED BY <2>1, <2>2, <2>3, <2>4, <2>5, LocksBy
<1>12. ASSUME NEW p \in Procs, Write(p) PROVE LocksInv'
  <2>1. Moved(p) BY <1>12, ConfigWriteStep
  <2>2. p \in Installers => (Active(p)' => installLock' = p)
    BY <1>12, ConfigWriteStep, ConfigureFrame DEF Shared, LocksInv, Active, SameBut, Goes, Ends, Exit,
       InConfigure
  <2>3. \A q \in Installers \ {p} : Active(q) => installLock' = q
    BY <1>12, ConfigureFrame DEF Shared, LocksInv, Active, Ends
  <2>4. ~slow' => (proc'[p].at \in InConfigure => configLock'.holder = p)
    BY <1>12, ConfigWriteStep, ConfigureFrame DEF Shared, LocksInv, SameBut, Goes, InConfigure, Exit, Free
  <2>5. ~slow' => \A q \in Procs \ {p} : proc[q].at \in InConfigure => configLock'.holder = q
    BY <1>12, ConfigureFrame DEF Shared, LocksInv, InConfigure, Free
  <2> QED BY <2>1, <2>2, <2>3, <2>4, <2>5, LocksBy
<1>13. ASSUME NEW p \in Procs, Wrote(p) PROVE LocksInv'
  <2>1. Moved(p) BY <1>13, WroteStep
  <2>2. p \in Installers => (Active(p)' => installLock' = p)
    BY <1>13, WroteStep DEF Wrote, LocksInv, Active, SameBut, Goes, Ends, Exit, InConfigure
  <2>3. \A q \in Installers \ {p} : Active(q) => installLock' = q
    BY <1>13 DEF Wrote, LocksInv, Active, Ends
  <2>4. ~slow' => (proc'[p].at \in InConfigure => configLock'.holder = p)
    BY <1>13, WroteStep DEF Wrote, LocksInv, SameBut, Goes, InConfigure, Exit, Free
  <2>5. ~slow' => \A q \in Procs \ {p} : proc[q].at \in InConfigure => configLock'.holder = q
    BY <1>13 DEF Wrote, LocksInv, InConfigure, Free
  <2> QED BY <2>1, <2>2, <2>3, <2>4, <2>5, LocksBy
<1>14. ASSUME NEW p \in Procs, WriteFails(p) PROVE LocksInv'
  <2>1. Moved(p) BY <1>14, WriteFailsStep
  <2>2. p \in Installers => (Active(p)' => installLock' = p)
    BY <1>14, WriteFailsStep, ConfigureFrame DEF Shared, LocksInv, Active, SameBut, Goes, Ends,
       Exit, InConfigure
  <2>3. \A q \in Installers \ {p} : Active(q) => installLock' = q
    BY <1>14, ConfigureFrame DEF Shared, LocksInv, Active, Ends
  <2>4. ~slow' => (proc'[p].at \in InConfigure => configLock'.holder = p)
    BY <1>14, WriteFailsStep, ConfigureFrame DEF Shared, LocksInv, SameBut, Goes, InConfigure,
       Exit, Free
  <2>5. ~slow' => \A q \in Procs \ {p} : proc[q].at \in InConfigure => configLock'.holder = q
    BY <1>14, ConfigureFrame DEF Shared, LocksInv, InConfigure, Free
  <2> QED BY <2>1, <2>2, <2>3, <2>4, <2>5, LocksBy
<1>15. ASSUME NEW p \in Procs, Check(p) PROVE LocksInv'
  <2>1. Moved(p) BY <1>15, CheckStep
  <2>2. p \in Installers => (Active(p)' => installLock' = p)
    BY <1>15, CheckStep, ConfigureFrame DEF Shared, LocksInv, Active, SameBut, Goes, Ends, Exit,
       InConfigure
  <2>3. \A q \in Installers \ {p} : Active(q) => installLock' = q
    BY <1>15, ConfigureFrame DEF Shared, LocksInv, Active, Ends
  <2>4. ~slow' => (proc'[p].at \in InConfigure => configLock'.holder = p)
    <3>1. configLock' = configLock \/ proc'[p].at = "undo" BY <1>15, CheckStep
    <3>2. slow' = slow /\ proc[p].at = "check" BY <1>15, ConfigureFrame DEF Shared
    <3> QED BY <3>1, <3>2 DEF LocksInv, InConfigure
  <2>5. ~slow' => \A q \in Procs \ {p} : proc[q].at \in InConfigure => configLock'.holder = q
    BY <1>15, ConfigureFrame DEF Shared, LocksInv, InConfigure, Free
  <2> QED BY <2>1, <2>2, <2>3, <2>4, <2>5, LocksBy
<1>16. ASSUME NEW p \in Procs, Restore(p) PROVE LocksInv'
  <2>1. Moved(p) BY <1>16, RestoreStep
  <2>2. p \in Installers => (Active(p)' => installLock' = p)
    BY <1>16, RestoreStep, ConfigureFrame DEF Shared, LocksInv, Active, SameBut, Goes, Ends, Exit,
       InConfigure
  <2>3. \A q \in Installers \ {p} : Active(q) => installLock' = q
    BY <1>16, ConfigureFrame DEF Shared, LocksInv, Active, Ends
  <2>4. ~slow' => (proc'[p].at \in InConfigure => configLock'.holder = p)
    BY <1>16, RestoreStep, ConfigureFrame DEF Shared, LocksInv, SameBut, Goes, InConfigure, Exit,
       Free
  <2>5. ~slow' => \A q \in Procs \ {p} : proc[q].at \in InConfigure => configLock'.holder = q
    BY <1>16, ConfigureFrame DEF Shared, LocksInv, InConfigure, Free
  <2> QED BY <2>1, <2>2, <2>3, <2>4, <2>5, LocksBy
<1>17. ASSUME NEW p \in Procs, ConfigureKilled(p) PROVE LocksInv'
  <2>1. Moved(p) BY <1>17, ConfigureKilledStep
  <2>2. p \in Installers => (Active(p)' => installLock' = p)
    BY <1>17, ConfigureKilledStep DEF ConfigureKilled, LocksInv, Active, SameBut, Goes, Ends,
       Exit, InConfigure
  <2>3. \A q \in Installers \ {p} : Active(q) => installLock' = q
    BY <1>17 DEF ConfigureKilled, LocksInv, Active, Ends
  <2>4. ~slow' => (proc'[p].at \in InConfigure => configLock'.holder = p)
    BY <1>17, ConfigureKilledStep DEF ConfigureKilled, LocksInv, SameBut, Goes, InConfigure, Exit,
       Free
  <2>5. ~slow' => \A q \in Procs \ {p} : proc[q].at \in InConfigure => configLock'.holder = q
    BY <1>17 DEF ConfigureKilled, LocksInv, InConfigure, Free
  <2> QED BY <2>1, <2>2, <2>3, <2>4, <2>5, LocksBy
<1>18. ASSUME NEW p \in Procs, InstallerKilled(p) PROVE LocksInv'
  <2>1. Moved(p) BY <1>18, InstallerKilledStep
  <2>2. p \in Installers => (Active(p)' => installLock' = p)
    BY <1>18, InstallerKilledStep DEF InstallerKilled, LocksInv, Active, SameBut, Goes, Ends,
       Exit, InConfigure
  <2>3. \A q \in Installers \ {p} : Active(q) => installLock' = q
    BY <1>18 DEF InstallerKilled, LocksInv, Active, Ends
  <2>4. ~slow' => (proc'[p].at \in InConfigure => configLock'.holder = p)
    BY <1>18, InstallerKilledStep DEF InstallerKilled, LocksInv, SameBut, Goes, InConfigure, Exit,
       Free
  <2>5. ~slow' => \A q \in Procs \ {p} : proc[q].at \in InConfigure => configLock'.holder = q
    BY <1>18 DEF InstallerKilled, LocksInv, InConfigure, Free
  <2> QED BY <2>1, <2>2, <2>3, <2>4, <2>5, LocksBy
<1>19. CASE Ages
  <2>1. configLock'.holder = configLock.holder BY <1>19 DEF Ages
  <2> QED BY <1>19, <2>1 DEF Ages, LocksInv, Active
<1>20. ASSUME NEW f \in ConfigFiles, Edit(f) PROVE LocksInv'
  <2>1. Moved("user") BY <1>20, EditStep
  <2> QED BY <1>20, <2>1, LocksBy DEF Edit, LocksInv
<1> QED BY <1>1, <1>2, <1>3, <1>4, <1>5, <1>6, <1>7, <1>8, <1>9, <1>10, <1>11, <1>12, <1>13,
           <1>14, <1>15, <1>16, <1>17, <1>18, <1>19, <1>20 DEF InstallNext, ConfigureNext


----------------------------------------------------------------------------
\* An installer that works is not disturbed by a process that adds no entry.
LEMMA TransactsStands ==
  ASSUME NEW q, Stands(q), Transacts(q), checkout' = checkout,
         \A f \in ConfigFiles : Configured(config'[f]) => Configured(config[f])
  PROVE  Transacts(q)'
<1>1. SameBut(proc[q], proc'[q], {"others"}) BY DEF Stands
<1>2. NoneConfigured(config) => NoneConfigured(config') BY DEF NoneConfigured
<1>3. Fresh(q) => Fresh(q)' BY <1>1, <1>2 DEF Fresh, SameBut
<1> QED BY <1>1, <1>3 DEF Transacts, Active, SameBut

LEMMA EntryBy ==
  ASSUME InstallTyped, LocksInv, EntryInv, NEW p \in Procs, Moved(p), slow => slow',
         p \in Installers /\ ~slow' => Transacts(p)',
         p \in Selectors /\ ~slow' => Selects(p)',
         ~slow' => NamesWork',
         config' = config \/ proc[p].at \in InConfigure,
         p \in Installers => \A q \in Installers \ {p} : ~Active(q),
         p \in Selectors /\ ~slow =>
           /\ checkout' = checkout
           /\ \A f \in ConfigFiles : Configured(config'[f]) => Configured(config[f])
  PROVE  EntryInv'
<1> SUFFICES ASSUME ~slow' PROVE EntryInv' BY DEF EntryInv
<1>0. ~slow /\ (p \in Installers \/ p \in Selectors) BY DEF Procs
<1>1. ASSUME NEW q \in Installers \ {p} PROVE Transacts(q)'
  <2>1. Stands(q) /\ q \in Procs BY DEF Moved, Procs
  <2>2. CASE p \in Installers
    <3>1. ~Active(q)' BY <2>1, <2>2 DEF Active, Stands, SameBut
    <3> QED BY <3>1 DEF Transacts
  <2>3. CASE p \in Selectors BY <1>0, <2>1, <2>3, TransactsStands DEF EntryInv
  <2> QED BY <1>0, <2>2, <2>3
<1>2. ASSUME NEW q \in Selectors \ {p} PROVE Selects(q)'
  <2>1. Stands(q) /\ q \in Procs BY DEF Moved, Procs
  <2>2. CASE config' = config BY <1>0, <2>1, <2>2 DEF Selects, EntryInv, Stands, SameBut
  <2>3. CASE proc[p].at \in InConfigure
    <3>1. proc[q].at \notin InConfigure BY <1>0, <2>1, <2>3 DEF LocksInv
    <3> QED BY <2>1, <3>1 DEF Selects, Stands, SameBut, InConfigure
  <2> QED BY <2>2, <2>3
<1> QED BY <1>0, <1>1, <1>2 DEF EntryInv

\* A file is only written next to a working checkout.
LEMMA WritesResolve ==
  ASSUME ~slow, EntryInv, NEW p \in Procs, Way(p), proc[p].at \in {"write", "restore"}
  PROVE  checkout = "new"
<1>1. CASE p \in Installers
  <2>1. Transacts(p) /\ Active(p) /\ proc[p].recorded BY <1>1 DEF EntryInv, Active, Ends, Way
  <2> QED BY <2>1 DEF Transacts, Fresh
<1>2. CASE p \in Selectors
  <2>1. Selects(p) /\ NamesWork /\ proc[p].at = "write" BY <1>2 DEF EntryInv, Way, Ends
  <2>2. Configured(config["server"]) BY <2>1 DEF Selects, ConfigFiles
  <2> QED BY <2>1, <2>2 DEF NamesWork, ConfigFiles
<1> QED BY <1>1, <1>2 DEF Procs

\* An installer that goes on without its working checkout is still fresh, if its step says so.
LEMMA TransactsBy ==
  ASSUME NEW p, Transacts(p), Active(p), proc'[p].head = proc[p].head,
         checkout' \in {checkout, "new"},
         Fresh(p) => Fresh(p)'
  PROVE  Transacts(p)'
BY DEF Transacts

LEMMA EntryStep ==
  ASSUME ~CommitSignals, InstallTyped, LocksInv, EntryInv, InstallNext PROVE EntryInv'
<1> SUFFICES ASSUME ~slow PROVE EntryInv'
  <2>1. slow => slow'
    <3>1. ASSUME NEW p \in Installers, BeginInstall(p) \/ Checkout(p) \/ Verify(p) \/ Commit(p)
                                       \/ Finish(p) \/ Undo(p)
          PROVE  slow' = slow
      BY <3>1, Zenon DEF BeginInstall, Checkout, Verify, Commit, Finish, Undo
    <3>2. ASSUME NEW p \in Procs, LockConfig(p) PROVE slow => slow' BY <3>2 DEF LockConfig
    <3>3. ASSUME NEW p \in Procs, WaitTimesOut(p) \/ Wrote(p) \/ ConfigureKilled(p) \/ InstallerKilled(p)
          PROVE  slow' = slow
      BY <3>3, Zenon DEF WaitTimesOut, Wrote, ConfigureKilled, InstallerKilled
    <3>4. ASSUME NEW p \in Procs, Read(p) \/ Backup(p) \/ Write(p) \/ WriteFails(p) \/ Check(p) \/ Restore(p)
          PROVE  slow' = slow
      BY <3>4, ConfigureFrame DEF Shared
    <3>5. ASSUME NEW p \in Selectors, Select(p) PROVE slow' = slow BY <3>5 DEF Select
    <3>6. Ages => slow' = slow BY DEF Ages
    <3>7. ASSUME NEW f \in ConfigFiles, Edit(f) PROVE slow' = slow BY <3>7 DEF Edit
    <3> QED BY <3>1, <3>2, <3>3, <3>4, <3>5, <3>6, <3>7 DEF InstallNext, ConfigureNext
  <2> QED BY <2>1 DEF EntryInv
<1>p. /\ Installers \subseteq Procs /\ Selectors \subseteq Procs
      /\ "free" \notin Procs /\ "user" \notin Procs
      /\ \A p \in Procs : Way(p) /\ proc[p] \in Processes /\ (p \in Installers \/ p \in Selectors)
      /\ \A p \in Installers : p \notin Selectors
      /\ InstallTyped /\ LocksInv /\ EntryInv /\ NamesWork
      /\ \A p \in Installers : Transacts(p)
      /\ \A p \in Selectors : Selects(p)
  BY InstallAssumption DEF Procs, InstallTyped, InstallAssumption, EntryInv
<1>q. ASSUME NEW p \in Installers, Active(p) PROVE \A q \in Installers \ {p} : ~Active(q)
  BY <1>q DEF LocksInv
<1> USE <1>p
<1>1. ASSUME NEW p \in Installers, BeginInstall(p) PROVE EntryInv'
  <2>1. /\ Moved(p) /\ config' = config /\ checkout' = checkout
        /\ proc'[p].at = "checkout" /\ ~proc'[p].recorded /\ proc'[p].head = checkout
    BY <1>1, BeginInstallStep DEF BeginInstall
  <2>2. \A q \in Installers \ {p} : ~Active(q)
    BY <1>1 DEF BeginInstall, LocksInv, Active, Ends
  <2>3. checkout # "new" => NoneConfigured(config') BY <2>1 DEF NamesWork, NoneConfigured
  <2>4. Transacts(p)' BY <2>1, <2>3 DEF Transacts, Fresh
  <2> QED BY <1>1, <2>1, <2>2, <2>4, EntryBy DEF NamesWork
<1>2. ASSUME NEW p \in Installers, Checkout(p) PROVE EntryInv'
  <2>0. Moved(p) /\ p \in Procs BY <1>2, CheckoutStep
  <2>1. p \in Installers => Active(p) BY <1>2 DEF Checkout, Active, InConfigure, Ends
  <2>2. ASSUME p \in Installers PROVE Transacts(p)'
    <3>0. Transacts(p) /\ Active(p) /\ Way(p) /\ p \notin Selectors /\ proc[p] \in Processes
      BY <2>0, <2>1, <2>2
    <3>1. /\ config' = config /\ proc[p].at = "checkout" /\ ~proc[p].recorded /\ proc[p].doing = "apply"
      BY <1>2, <3>0 DEF Checkout, Way
    <3>2. /\ checkout' \in {checkout, "new"}
          /\ \/ Goes(proc[p], proc'[p], "wait") /\ checkout' = "new"
             \/ Goes(proc[p], proc'[p], "finish")
      <4>1. CASE Proceed(p, "wait") /\ checkout' = "new"
        BY <1>2, <2>0, <3>1, <4>1, Proceeds DEF InstallPoints, Ends, InstallTyped
      <4>2. CASE Proceed(p, "finish")
        BY <1>2, <2>0, <3>1, <4>2, Proceeds DEF InstallPoints, Ends, InstallTyped, Checkout
      <4> QED BY <1>2, <4>1, <4>2 DEF Checkout
    <3>8. proc'[p].head = proc[p].head /\ checkout' \in {checkout, "new"}
      BY <3>2 DEF Goes, SameBut, Ends
    <3>9. ASSUME Fresh(p) PROVE Fresh(p)'
      BY <3>1, <3>2, <3>9 DEF Fresh, Goes, SameBut, Ends
    <3> QED BY <3>0, <3>8, <3>9, TransactsBy
  <2>3. ASSUME p \in Selectors PROVE Selects(p)'
    BY <1>2, <2>0, <2>3, CheckoutStep DEF Checkout, Selects, SameBut, Goes, Exit, Ends, Way
  <2>4. NamesWork'
    BY <1>2, <2>0, CheckoutStep DEF Checkout, NamesWork, Undone, Fresh, Transacts, Active, Ends,
       NoneConfigured
  <2>5. config' = config BY <1>2 DEF Checkout
  <2> QED BY <1>2, <1>q, <2>0, <2>1, <2>2, <2>3, <2>4, <2>5, EntryBy DEF Checkout
<1>3. ASSUME NEW p \in Installers, Verify(p) PROVE EntryInv'
  <2>0. Moved(p) /\ p \in Procs BY <1>3, VerifyStep
  <2>1. p \in Installers => Active(p) BY <1>3 DEF Verify, Active, InConfigure, Ends
  <2>2. ASSUME p \in Installers PROVE Transacts(p)'
    BY <1>3, <2>0, <2>1, <2>2, VerifyStep, Field DEF Verify, Transacts, Active, Fresh,
       NoneConfigured, SameBut, Goes, Way, Exit, Ends
  <2>3. ASSUME p \in Selectors PROVE Selects(p)'
    BY <1>3, <2>0, <2>3, VerifyStep DEF Verify, Selects, SameBut, Goes, Exit, Ends, Way
  <2>4. NamesWork'
    BY <1>3, <2>0, VerifyStep DEF Verify, NamesWork, Undone, Fresh, Transacts, Active, Ends,
       NoneConfigured
  <2>5. config' = config BY <1>3 DEF Verify
  <2> QED BY <1>3, <1>q, <2>0, <2>1, <2>2, <2>3, <2>4, <2>5, EntryBy DEF Verify
<1>4. ASSUME NEW p \in Installers, Commit(p) PROVE EntryInv'
  <2>0. Moved(p) /\ p \in Procs BY <1>4, CommitStep
  <2>1. p \in Installers => Active(p) BY <1>4 DEF Commit, Active, InConfigure, Ends
  <2>2. ASSUME p \in Installers PROVE Transacts(p)'
    BY <1>4, <2>0, <2>1, <2>2, CommitStep, Field DEF Commit, Transacts, Active, Fresh,
       NoneConfigured, SameBut, Goes, Way, Exit, Ends
  <2>3. ASSUME p \in Selectors PROVE Selects(p)'
    BY <1>4, <2>0, <2>3, CommitStep DEF Commit, Selects, SameBut, Goes, Exit, Ends, Way
  <2>4. NamesWork'
    BY <1>4, <2>0, CommitStep DEF Commit, NamesWork, Undone, Fresh, Transacts, Active, Ends,
       NoneConfigured
  <2>5. config' = config BY <1>4 DEF Commit
  <2> QED BY <1>4, <1>q, <2>0, <2>1, <2>2, <2>3, <2>4, <2>5, EntryBy DEF Commit
<1>5. ASSUME NEW p \in Installers, Finish(p) PROVE EntryInv'
  <2>0. Moved(p) /\ p \in Procs BY <1>5, FinishStep
  <2>1. p \in Installers => Active(p) BY <1>5 DEF Finish, Active, InConfigure, Ends
  <2>2. ASSUME p \in Installers PROVE Transacts(p)'
    BY <1>5, <2>0, <2>1, <2>2, FinishStep, Field DEF Finish, Transacts, Active, Fresh,
       NoneConfigured, SameBut, Goes, Way, Exit, Ends
  <2>3. ASSUME p \in Selectors PROVE Selects(p)'
    BY <1>5, <2>0, <2>3, FinishStep DEF Finish, Selects, SameBut, Goes, Exit, Ends, Way
  <2>4. NamesWork'
    BY <1>5, <2>0, FinishStep DEF Finish, NamesWork, Undone, Fresh, Transacts, Active, Ends,
       NoneConfigured
  <2>5. config' = config BY <1>5 DEF Finish
  <2> QED BY <1>5, <1>q, <2>0, <2>1, <2>2, <2>3, <2>4, <2>5, EntryBy DEF Finish
<1>6. ASSUME NEW p \in Installers, Undo(p) PROVE EntryInv'
  <2>0. Moved(p) /\ p \in Procs BY <1>6, UndoStep
  <2>1. p \in Installers => Active(p) BY <1>6 DEF Undo, Active, InConfigure, Ends
  <2>2. ASSUME p \in Installers PROVE Transacts(p)'
    BY <1>6, <2>0, <2>1, <2>2, UndoStep, Field DEF Undo, Transacts, Active, Fresh, NoneConfigured,
       SameBut, Goes, Way, Exit, Ends
  <2>3. ASSUME p \in Selectors PROVE Selects(p)'
    BY <1>6, <2>0, <2>3, UndoStep DEF Undo, Selects, SameBut, Goes, Exit, Ends, Way
  <2>4. NamesWork'
    BY <1>6, <2>0, UndoStep DEF Undo, NamesWork, Undone, Fresh, Transacts, Active, Ends,
       NoneConfigured
  <2>5. config' = config BY <1>6 DEF Undo
  <2> QED BY <1>6, <1>q, <2>0, <2>1, <2>2, <2>3, <2>4, <2>5, EntryBy DEF Undo
<1>7. ASSUME NEW p \in Selectors, Select(p) PROVE EntryInv'
  <2>0. Moved(p) /\ p \in Procs BY <1>7, SelectStep
  <2>1. p \in Installers => Active(p) BY <1>7 DEF Select, Active, InConfigure, Ends
  <2>2. ASSUME p \in Installers PROVE Transacts(p)'
    BY <1>7, <2>0, <2>1, <2>2, SelectStep, Field DEF Select, Transacts, Active, Fresh,
       NoneConfigured, SameBut, Goes, Way, Exit, Ends
  <2>3. ASSUME p \in Selectors PROVE Selects(p)'
    BY <1>7, <2>0, <2>3, SelectStep DEF Select, Selects, SameBut, Goes, Exit, Ends, Way
  <2>4. NamesWork'
    BY <1>7, <2>0, SelectStep DEF Select, NamesWork, Undone, Fresh, Transacts, Active, Ends,
       NoneConfigured
  <2>5. config' = config BY <1>7 DEF Select
  <2> QED BY <1>7, <1>q, <2>0, <2>1, <2>2, <2>3, <2>4, <2>5, EntryBy DEF Select
<1>8. ASSUME NEW p \in Procs, LockConfig(p) PROVE EntryInv'
  <2>0. Moved(p) /\ p \in Procs BY <1>8, LockConfigStep
  <2>1. p \in Installers => Active(p) BY <1>8 DEF LockConfig, Active, InConfigure, Ends
  <2>2. ASSUME p \in Installers PROVE Transacts(p)'
    BY <1>8, <2>0, <2>1, <2>2, LockConfigStep, Field DEF LockConfig, Transacts, Active, Fresh,
       NoneConfigured, SameBut, Goes, Way, Exit, Ends
  <2>3. ASSUME p \in Selectors PROVE Selects(p)'
    BY <1>8, <2>0, <2>3, LockConfigStep DEF LockConfig, Selects, SameBut, Goes, Exit, Ends, Way
  <2>4. NamesWork'
    BY <1>8, <2>0, LockConfigStep DEF LockConfig, NamesWork, Undone, Fresh, Transacts, Active,
       Ends, NoneConfigured
  <2>5. config' = config BY <1>8 DEF LockConfig
  <2> QED BY <1>8, <1>q, <2>0, <2>1, <2>2, <2>3, <2>4, <2>5, EntryBy DEF LockConfig
<1>9. ASSUME NEW p \in Procs, WaitTimesOut(p) PROVE EntryInv'
  <2>0. Moved(p) /\ p \in Procs BY <1>9, WaitTimesOutStep
  <2>1. p \in Installers => Active(p) BY <1>9 DEF WaitTimesOut, Active, InConfigure, Ends
  <2>2. ASSUME p \in Installers PROVE Transacts(p)'
    <3>0. Transacts(p) /\ Active(p) /\ Way(p) /\ p \notin Selectors /\ proc[p] \in Processes
      BY <2>0, <2>1, <2>2
    <3>1. /\ config' = config /\ checkout' = checkout
          /\ SameBut(proc[p], proc'[p], {"at", "incomplete"}) /\ proc'[p].at = Exit(p, FALSE)
          /\ proc'[p].incomplete <=> proc[p].doing = "rollback"
          /\ proc[p].at \in {"wait", "read", "backup", "write", "check", "restore"}
      BY <1>9, <2>0, WaitTimesOutStep DEF WaitTimesOut, InConfigure
    <3>8. proc'[p].head = proc[p].head /\ checkout' \in {checkout, "new"} BY <3>1 DEF SameBut
    <3>9. ASSUME Fresh(p) PROVE Fresh(p)'
      <4>1. CASE proc[p].doing = "rollback"
        <5>1. proc'[p].at = "undo" /\ proc'[p].incomplete BY <3>0, <3>1, <4>1 DEF Exit
        <5> QED BY <3>1, <3>9, <5>1 DEF Fresh, SameBut
      <4>2. CASE proc[p].doing # "rollback"
        <5>1. proc'[p].at = "finish" /\ proc[p].at \in {"wait", "read", "backup", "write"}
          BY <3>0, <3>1, <4>2 DEF Exit, Way
        <5>2. proc[p].doing = "apply" BY <3>0, <4>2, Field
        <5>3. proc[p].recorded \/ NoneConfigured(config)
          BY <2>2, <3>0, <3>9, <5>1, <5>2 DEF Fresh, Way
        <5> QED BY <3>1, <3>9, <5>1, <5>3 DEF Fresh, SameBut
      <4> QED BY <4>1, <4>2
    <3> QED BY <3>0, <3>8, <3>9, TransactsBy
  <2>3. ASSUME p \in Selectors PROVE Selects(p)'
    <3>1. proc'[p].at = "failed" BY <1>9, <2>3, WaitTimesOutStep DEF Exit
    <3> QED BY <3>1 DEF Selects
  <2>4. NamesWork'
    BY <1>9, <2>0, WaitTimesOutStep DEF WaitTimesOut, NamesWork, Undone, Fresh, Transacts, Active,
       Ends, NoneConfigured
  <2>5. config' = config BY <1>9 DEF WaitTimesOut
  <2> QED BY <1>9, <1>q, <2>0, <2>1, <2>2, <2>3, <2>4, <2>5, EntryBy DEF WaitTimesOut
<1>10. ASSUME NEW p \in Procs, Read(p) PROVE EntryInv'
  <2>0. Moved(p) /\ p \in Procs BY <1>10, ReadStep
  <2>1. p \in Installers => Active(p) BY <1>10, ConfigureFrame DEF Shared, Active, InConfigure, Ends
  <2>2. ASSUME p \in Installers PROVE Transacts(p)'
    <3>0. Transacts(p) /\ Active(p) /\ Way(p) /\ p \notin Selectors /\ proc[p] \in Processes
      BY <2>0, <2>1, <2>2
    <3>1. /\ config' = config /\ checkout' = checkout /\ proc[p].at = "read" /\ ~proc[p].recorded
          /\ SameBut(proc[p], proc'[p], {"at", "model", "read", "changed", "done"})
          /\ proc'[p].at = "backup" /\ proc'[p].read = config /\ proc'[p].done = {}
          /\ proc'[p].changed = {f \in ConfigFiles : config[f].plugin # proc'[p].model}
      BY <1>10, <2>0, <3>0, ReadStep, ConfigureFrame DEF Shared, Way
    <3>8. proc'[p].head = proc[p].head /\ checkout' \in {checkout, "new"} BY <3>1 DEF SameBut
    <3>9. ASSUME Fresh(p) PROVE Fresh(p)'
      <4>1. proc'[p].model \in {"selected", "chosen"} BY <2>0, Field DEF Moved
      <4>2. checkout = "new" /\ NoneConfigured(config) BY <3>1, <3>9 DEF Fresh
      <4>3. proc'[p].changed = ConfigFiles BY <3>1, <4>1, <4>2 DEF NoneConfigured, Configured
      <4>4. ~proc'[p].recorded BY <3>1 DEF SameBut
      <4> QED BY <3>1, <4>2, <4>3, <4>4 DEF Fresh
    <3> QED BY <3>0, <3>8, <3>9, TransactsBy
  <2>3. ASSUME p \in Selectors PROVE Selects(p)'
    BY <1>10, <2>0, <2>3, ReadStep, ConfigureFrame DEF Shared, Selects, SameBut, Goes, Exit, Ends,
       Way
  <2>4. NamesWork'
    BY <1>10, <2>0, ReadStep, ConfigureFrame DEF Shared, NamesWork, Undone, Fresh, Transacts,
       Active, Ends, NoneConfigured
  <2>5. config' = config BY <1>10, ConfigureFrame DEF Shared
  <2> QED BY <1>10, <1>q, <2>0, <2>1, <2>2, <2>3, <2>4, <2>5, EntryBy, ConfigureFrame DEF Shared
<1>11. ASSUME NEW p \in Procs, Backup(p) PROVE EntryInv'
  <2>0. Moved(p) /\ p \in Procs BY <1>11, BackupStep
  <2>1. p \in Installers => Active(p) BY <1>11, ConfigureFrame DEF Shared, Active, InConfigure, Ends
  <2>2. ASSUME p \in Installers PROVE Transacts(p)'
    <3>0. Transacts(p) /\ Active(p) /\ Way(p) /\ p \notin Selectors /\ proc[p] \in Processes
      BY <2>0, <2>1, <2>2
    <3>1. /\ config' = config /\ checkout' = checkout /\ proc[p].at = "backup" /\ ~proc[p].recorded
          /\ proc[p].doing = "apply"
      BY <1>11, <3>0, ConfigureFrame DEF Shared, Way
    <3>2. \/ proc[p].changed = {} /\ Goes(proc[p], proc'[p], "verify")
          \/ /\ SameBut(proc[p], proc'[p], {"at", "saved", "recorded"})
             /\ proc'[p].at = "write" /\ proc'[p].saved = config
      BY <1>11, <2>0, <3>0, <3>1, BackupStep DEF Exit
    <3>8. proc'[p].head = proc[p].head /\ checkout' \in {checkout, "new"}
      BY <3>1, <3>2 DEF SameBut, Goes, Ends
    <3>9. ASSUME Fresh(p) PROVE Fresh(p)'
      <4>1. /\ proc[p].changed = ConfigFiles /\ NoneConfigured(proc[p].read)
            /\ checkout = "new" /\ NoneConfigured(config) /\ proc[p].done \subseteq proc[p].changed
        BY <3>1, <3>9 DEF Fresh
      <4>2. /\ SameBut(proc[p], proc'[p], {"at", "saved", "recorded"})
            /\ proc'[p].at = "write" /\ proc'[p].saved = config
        BY <3>2, <4>1 DEF ConfigFiles
      <4> QED BY <3>1, <4>1, <4>2 DEF Fresh, SameBut
    <3> QED BY <3>0, <3>8, <3>9, TransactsBy
  <2>3. ASSUME p \in Selectors PROVE Selects(p)'
    BY <1>11, <2>0, <2>3, BackupStep, ConfigureFrame DEF Shared, Selects, SameBut, Goes, Exit,
       Ends, Way
  <2>4. NamesWork'
    BY <1>11, <2>0, BackupStep, ConfigureFrame DEF Shared, NamesWork, Undone, Fresh, Transacts,
       Active, Ends, NoneConfigured
  <2>5. config' = config BY <1>11, ConfigureFrame DEF Shared
  <2> QED BY <1>11, <1>q, <2>0, <2>1, <2>2, <2>3, <2>4, <2>5, EntryBy, ConfigureFrame DEF Shared
<1>12. ASSUME NEW p \in Procs, Write(p) PROVE EntryInv'
  <2>0. Moved(p) /\ p \in Procs BY <1>12, ConfigWriteStep
  <2>1. p \in Installers => Active(p) BY <1>12, ConfigureFrame DEF Shared, Active, InConfigure, Ends
  <2>2. ASSUME p \in Installers PROVE Transacts(p)'
    <3>0. Transacts(p) /\ Active(p) /\ Way(p) /\ p \notin Selectors /\ proc[p] \in Processes
      BY <2>0, <2>1, <2>2
    <3>1. checkout' = checkout /\ proc[p].at = "write" /\ proc[p].recorded
      BY <1>12, <2>2, <3>0, ConfigureFrame DEF Shared, Way
    <3>2. PICK f \in proc[p].changed \ proc[p].done :
            SameBut(proc[p], proc'[p], {"done"}) /\ proc'[p].done = proc[p].done \cup {f}
      BY <1>12, <2>0, ConfigWriteStep
    <3>8. proc'[p].head = proc[p].head /\ checkout' \in {checkout, "new"} BY <3>1, <3>2 DEF SameBut
    <3>9. ASSUME Fresh(p) PROVE Fresh(p)'
      <4>1. proc'[p].done \subseteq proc'[p].changed BY <3>1, <3>2, <3>9 DEF Fresh, SameBut
      <4> QED BY <3>1, <3>2, <3>9, <4>1 DEF Fresh, SameBut
    <3> QED BY <3>0, <3>8, <3>9, TransactsBy
  <2>3. ASSUME p \in Selectors PROVE Selects(p)'
    <3>1. PICK g \in proc[p].changed \ proc[p].done :
            config' = [config EXCEPT ![g] = Applied(p, g)] /\ SameBut(proc[p], proc'[p], {"done"})
      BY <1>12, ConfigWriteStep
    <3>2. proc[p].at = "write" /\ Selects(p) BY <1>12, <2>3, ConfigureFrame DEF Shared
    <3>3. Configured(Applied(p, g))
      <4>1. g \in ConfigFiles /\ proc[p].model \in {"selected", "chosen"} BY <2>0, <3>1, Field
      <4>2. proc[p].read[g] \in Contents BY <2>0, <4>1, Field
      <4>3. Applied(p, g).plugin = proc[p].model BY <4>2 DEF Applied, Contents
      <4> QED BY <4>1, <4>3 DEF Configured
    <3>4. \A f \in ConfigFiles : Configured(config'[f])
      BY <3>1, <3>2, <3>3 DEF Selects, InstallTyped
    <3> QED BY <3>1, <3>2, <3>4 DEF Selects, SameBut
  <2>4. NamesWork'
    <3>1. proc[p].at \in {"write", "restore"} /\ checkout' = checkout
      BY <1>12, ConfigureFrame DEF Shared
    <3>2. checkout = "new" BY <2>0, <3>1, WritesResolve
    <3> QED BY <3>1, <3>2 DEF NamesWork
  <2>5. proc[p].at \in InConfigure /\ checkout' = checkout /\ slow' = slow
    BY <1>12, ConfigureFrame DEF Shared, InConfigure
  <2>6. p \in Selectors => \A f \in ConfigFiles : Configured(config'[f]) => Configured(config[f])
    BY <1>12, <2>0, ConfigWriteStep, ConfigureFrame DEF Shared, Selects, Way, Ends
  <2> QED BY <1>12, <1>q, <2>0, <2>1, <2>2, <2>3, <2>4, <2>5, <2>6, EntryBy
<1>13. ASSUME NEW p \in Procs, Wrote(p) PROVE EntryInv'
  <2>0. Moved(p) /\ p \in Procs BY <1>13, WroteStep
  <2>1. p \in Installers => Active(p) BY <1>13 DEF Wrote, Active, InConfigure, Ends
  <2>2. ASSUME p \in Installers PROVE Transacts(p)'
    BY <1>13, <2>0, <2>1, <2>2, WroteStep, Field DEF Wrote, Transacts, Active, Fresh,
       NoneConfigured, SameBut, Goes, Way, Exit, Ends
  <2>3. ASSUME p \in Selectors PROVE Selects(p)'
    BY <1>13, <2>0, <2>3, WroteStep DEF Wrote, Selects, SameBut, Goes, Exit, Ends, Way
  <2>4. NamesWork'
    BY <1>13, <2>0, WroteStep DEF Wrote, NamesWork, Undone, Fresh, Transacts, Active, Ends,
       NoneConfigured
  <2>5. config' = config BY <1>13 DEF Wrote
  <2> QED BY <1>13, <1>q, <2>0, <2>1, <2>2, <2>3, <2>4, <2>5, EntryBy DEF Wrote
<1>14. ASSUME NEW p \in Procs, WriteFails(p) PROVE EntryInv'
  <2>0. Moved(p) /\ p \in Procs BY <1>14, WriteFailsStep
  <2>1. p \in Installers => Active(p) BY <1>14, ConfigureFrame DEF Shared, Active, InConfigure, Ends
  <2>2. ASSUME p \in Installers PROVE Transacts(p)'
    <3>0. Transacts(p) /\ Active(p) /\ Way(p) /\ p \notin Selectors /\ proc[p] \in Processes
      BY <2>0, <2>1, <2>2
    <3>1. /\ checkout' = checkout /\ config' = Restored(p) /\ proc[p].recorded /\ proc[p].doing = "apply"
          /\ SameBut(proc[p], proc'[p], {"at", "recorded"})
          /\ proc'[p].at = "finish" /\ proc'[p].recorded = FALSE
      BY <1>14, <2>0, <2>2, <3>0, WriteFailsStep, ConfigureFrame DEF Shared, Way, Exit
    <3>8. proc'[p].head = proc[p].head /\ checkout' \in {checkout, "new"} BY <3>1 DEF SameBut
    <3>9. ASSUME Fresh(p) PROVE Fresh(p)'
      <4>1. proc[p].changed = ConfigFiles /\ NoneConfigured(proc[p].saved) BY <3>1, <3>9 DEF Fresh
      <4>2. NoneConfigured(config') BY <3>1, <4>1 DEF NoneConfigured, Restored
      <4> QED BY <3>1, <4>2 DEF Fresh
    <3> QED BY <3>0, <3>8, <3>9, TransactsBy
  <2>3. ASSUME p \in Selectors PROVE Selects(p)'
    BY <1>14, <2>0, <2>3, WriteFailsStep, ConfigureFrame DEF Shared, Selects, SameBut, Goes, Exit,
       Ends, Way
  <2>4. NamesWork'
    <3>1. proc[p].at \in {"write", "restore"} /\ checkout' = checkout
      BY <1>14, ConfigureFrame DEF Shared
    <3>2. checkout = "new" BY <2>0, <3>1, WritesResolve
    <3> QED BY <3>1, <3>2 DEF NamesWork
  <2>5. proc[p].at \in InConfigure /\ checkout' = checkout /\ slow' = slow
    BY <1>14, ConfigureFrame DEF Shared, InConfigure
  <2>6. p \in Selectors => \A f \in ConfigFiles : Configured(config'[f]) => Configured(config[f])
    BY <1>14, <2>0, WriteFailsStep, ConfigureFrame DEF Shared, Selects, Way, Ends
  <2> QED BY <1>14, <1>q, <2>0, <2>1, <2>2, <2>3, <2>4, <2>5, <2>6, EntryBy
<1>15. ASSUME NEW p \in Procs, Check(p) PROVE EntryInv'
  <2>0. Moved(p) /\ p \in Procs BY <1>15, CheckStep
  <2>1. p \in Installers => Active(p) BY <1>15, ConfigureFrame DEF Shared, Active, InConfigure, Ends
  <2>2. ASSUME p \in Installers PROVE Transacts(p)'
    <3>0. Transacts(p) /\ Active(p) /\ Way(p) /\ p \notin Selectors /\ proc[p] \in Processes
      BY <2>0, <2>1, <2>2
    <3>1. config' = config /\ checkout' = checkout /\ proc[p].at = "check" /\ proc[p].recorded
      BY <1>15, <3>0, ConfigureFrame DEF Shared, Way
    <3>2. \/ /\ SameBut(proc[p], proc'[p], {"at", "done"})
             /\ proc'[p].at = "restore"
             /\ proc'[p].done = {f \in proc[p].changed : ~Untouched(p, f)}
          \/ /\ SameBut(proc[p], proc'[p], {"at", "incomplete"})
             /\ proc'[p].at = "undo" /\ proc'[p].incomplete = TRUE
      BY <1>15, <2>0, CheckStep
    <3>8. proc'[p].head = proc[p].head /\ checkout' \in {checkout, "new"} BY <3>1, <3>2 DEF SameBut
    <3>9. ASSUME Fresh(p) PROVE Fresh(p)'
      <4>1. /\ checkout = "new" /\ proc[p].changed = ConfigFiles
            /\ NoneConfigured(proc[p].saved) /\ NoneConfigured(proc[p].read)
        BY <3>1, <3>9 DEF Fresh
      <4>2. CASE proc'[p].at = "restore"
        <5>1. /\ SameBut(proc[p], proc'[p], {"at", "done"})
              /\ proc'[p].done = {f \in ConfigFiles : ~Untouched(p, f)}
          BY <3>2, <4>1, <4>2
        <5>2. \A f \in ConfigFiles \ proc'[p].done : ~Configured(config'[f])
          BY <3>1, <4>1, <5>1 DEF NoneConfigured, Untouched
        <5> QED BY <3>1, <4>1, <4>2, <5>1, <5>2 DEF Fresh, SameBut
      <4>3. CASE proc'[p].at # "restore" BY <3>1, <3>2, <4>1, <4>3 DEF Fresh, SameBut
      <4> QED BY <4>2, <4>3
    <3> QED BY <3>0, <3>8, <3>9, TransactsBy
  <2>3. ASSUME p \in Selectors PROVE Selects(p)'
    BY <1>15, <2>0, <2>3, CheckStep, ConfigureFrame DEF Shared, Selects, SameBut, Goes, Exit,
       Ends, Way
  <2>4. NamesWork'
    BY <1>15, <2>0, CheckStep, ConfigureFrame DEF Shared, NamesWork, Undone, Fresh, Transacts,
       Active, Ends, NoneConfigured
  <2>5. config' = config BY <1>15, ConfigureFrame DEF Shared
  <2> QED BY <1>15, <1>q, <2>0, <2>1, <2>2, <2>3, <2>4, <2>5, EntryBy, ConfigureFrame DEF Shared
<1>16. ASSUME NEW p \in Procs, Restore(p) PROVE EntryInv'
  <2>0. Moved(p) /\ p \in Procs BY <1>16, RestoreStep
  <2>1. p \in Installers => Active(p) BY <1>16, ConfigureFrame DEF Shared, Active, InConfigure, Ends
  <2>2. ASSUME p \in Installers PROVE Transacts(p)'
    <3>0. Transacts(p) /\ Active(p) /\ Way(p) /\ p \notin Selectors /\ proc[p] \in Processes
      BY <2>0, <2>1, <2>2
    <3>1. /\ checkout' = checkout /\ proc[p].recorded /\ proc[p].at = "restore"
          /\ config' = PutBack(p)
          /\ SameBut(proc[p], proc'[p], {"at", "recorded"})
          /\ proc'[p].at = "undo" /\ proc'[p].recorded = FALSE
      BY <1>16, <2>0, <3>0, RestoreStep, ConfigureFrame DEF Shared, Way
    <3>8. proc'[p].head = proc[p].head /\ checkout' \in {checkout, "new"} BY <3>1 DEF SameBut
    <3>9. ASSUME Fresh(p) PROVE Fresh(p)'
      <4>1. /\ NoneConfigured(proc[p].saved)
            /\ \A f \in ConfigFiles \ proc[p].done : ~Configured(config[f])
        BY <3>1, <3>9 DEF Fresh
      <4>2. NoneConfigured(config') BY <3>1, <4>1 DEF NoneConfigured, PutBack
      <4> QED BY <3>1, <4>2 DEF Fresh
    <3> QED BY <3>0, <3>8, <3>9, TransactsBy
  <2>3. ASSUME p \in Selectors PROVE Selects(p)'
    BY <1>16, <2>0, <2>3, RestoreStep, ConfigureFrame DEF Shared, Selects, SameBut, Goes, Exit,
       Ends, Way
  <2>4. NamesWork'
    <3>1. proc[p].at \in {"write", "restore"} /\ checkout' = checkout
      BY <1>16, ConfigureFrame DEF Shared
    <3>2. checkout = "new" BY <2>0, <3>1, WritesResolve
    <3> QED BY <3>1, <3>2 DEF NamesWork
  <2>5. proc[p].at \in InConfigure /\ checkout' = checkout /\ slow' = slow
    BY <1>16, ConfigureFrame DEF Shared, InConfigure
  <2>6. p \in Selectors => \A f \in ConfigFiles : Configured(config'[f]) => Configured(config[f])
    BY <1>16, <2>0, RestoreStep, ConfigureFrame DEF Shared, Selects, Way, Ends
  <2> QED BY <1>16, <1>q, <2>0, <2>1, <2>2, <2>3, <2>4, <2>5, <2>6, EntryBy
<1>17. ASSUME NEW p \in Procs, ConfigureKilled(p) PROVE EntryInv'
  <2>0. Moved(p) /\ p \in Procs BY <1>17, ConfigureKilledStep
  <2>1. p \in Installers => Active(p) BY <1>17 DEF ConfigureKilled, Active, InConfigure, Ends
  <2>2. ASSUME p \in Installers PROVE Transacts(p)'
    <3>0. Transacts(p) /\ Active(p) /\ Way(p) /\ p \notin Selectors /\ proc[p] \in Processes
      BY <2>0, <2>1, <2>2
    <3>1. /\ config' = config /\ checkout' = checkout
          /\ SameBut(proc[p], proc'[p], {"at", "incomplete"}) /\ proc'[p].at = Exit(p, FALSE)
          /\ proc'[p].incomplete <=> proc[p].doing = "rollback"
          /\ proc[p].at \in {"wait", "read", "backup", "write", "check", "restore"}
      BY <1>17, <2>0, ConfigureKilledStep DEF ConfigureKilled, InConfigure
    <3>8. proc'[p].head = proc[p].head /\ checkout' \in {checkout, "new"} BY <3>1 DEF SameBut
    <3>9. ASSUME Fresh(p) PROVE Fresh(p)'
      <4>1. CASE proc[p].doing = "rollback"
        <5>1. proc'[p].at = "undo" /\ proc'[p].incomplete BY <3>0, <3>1, <4>1 DEF Exit
        <5> QED BY <3>1, <3>9, <5>1 DEF Fresh, SameBut
      <4>2. CASE proc[p].doing # "rollback"
        <5>1. proc'[p].at = "finish" /\ proc[p].at \in {"wait", "read", "backup", "write"}
          BY <3>0, <3>1, <4>2 DEF Exit, Way
        <5>2. proc[p].doing = "apply" BY <3>0, <4>2, Field
        <5>3. proc[p].recorded \/ NoneConfigured(config)
          BY <2>2, <3>0, <3>9, <5>1, <5>2 DEF Fresh, Way
        <5> QED BY <3>1, <3>9, <5>1, <5>3 DEF Fresh, SameBut
      <4> QED BY <4>1, <4>2
    <3> QED BY <3>0, <3>8, <3>9, TransactsBy
  <2>3. ASSUME p \in Selectors PROVE Selects(p)'
    BY <1>17, <2>0, <2>3, ConfigureKilledStep DEF ConfigureKilled, Selects, SameBut, Goes, Exit,
       Ends, Way
  <2>4. NamesWork'
    BY <1>17, <2>0, ConfigureKilledStep DEF ConfigureKilled, NamesWork, Undone, Fresh, Transacts,
       Active, Ends, NoneConfigured
  <2>5. config' = config BY <1>17 DEF ConfigureKilled
  <2> QED BY <1>17, <1>q, <2>0, <2>1, <2>2, <2>3, <2>4, <2>5, EntryBy DEF ConfigureKilled
<1>18. ASSUME NEW p \in Procs, InstallerKilled(p) PROVE EntryInv'
  <2>0. Moved(p) /\ p \in Procs BY <1>18, InstallerKilledStep
  <2>1. p \in Installers => Active(p) BY <1>18 DEF InstallerKilled, Active, InConfigure, Ends
  <2>2. ASSUME p \in Installers PROVE Transacts(p)'
    BY <1>18, <2>0, <2>1, <2>2, InstallerKilledStep, Field DEF InstallerKilled, Transacts, Active,
       Fresh, NoneConfigured, SameBut, Goes, Way, Exit, Ends
  <2>3. ASSUME p \in Selectors PROVE Selects(p)'
    BY <1>18, <2>0, <2>3, InstallerKilledStep DEF InstallerKilled, Selects, SameBut, Goes, Exit,
       Ends, Way
  <2>4. NamesWork'
    BY <1>18, <2>0, InstallerKilledStep DEF InstallerKilled, NamesWork, Undone, Fresh, Transacts,
       Active, Ends, NoneConfigured
  <2>5. config' = config BY <1>18 DEF InstallerKilled
  <2> QED BY <1>18, <1>q, <2>0, <2>1, <2>2, <2>3, <2>4, <2>5, EntryBy DEF InstallerKilled
<1>19. CASE Ages BY <1>19 DEF Ages, EntryInv, Transacts, Selects, NamesWork, Fresh, Active
<1>20. ASSUME NEW f \in ConfigFiles, Edit(f) PROVE EntryInv'
  <2>1. /\ \A q \in Procs : Stands(q)
        /\ \A g \in ConfigFiles : Configured(config'[g]) <=> Configured(config[g])
    <3>1. /\ \A q \in Procs : Stands(q)
          /\ Configured(config'[f]) <=> Configured(config[f])
          /\ \A g \in ConfigFiles \ {f} : config'[g] = config[g]
      BY <1>20, EditStep
    <3> QED BY <3>1
  <2>2. checkout' = checkout /\ slow' = slow BY <1>20 DEF Edit
  <2>3. \A p \in Installers : Transacts(p)' BY <2>1, <2>2, TransactsStands
  <2>4. \A p \in Selectors : Selects(p)' BY <2>1 DEF Selects, Stands, SameBut
  <2> QED BY <2>1, <2>2, <2>3, <2>4 DEF EntryInv, NamesWork
<1> QED BY <1>1, <1>2, <1>3, <1>4, <1>5, <1>6, <1>7, <1>8, <1>9, <1>10, <1>11, <1>12, <1>13,
           <1>14, <1>15, <1>16, <1>17, <1>18, <1>19, <1>20 DEF InstallNext, ConfigureNext


----------------------------------------------------------------------------
LEMMA InstallStarts ==
  ASSUME InstallInit
  PROVE  InstallTyped /\ EditsInv /\ UndoInv /\ LocksInv /\ EntryInv
<1>1. /\ proc \in [Procs -> Processes] /\ \A p \in Procs : proc[p] = Idle
  BY IdleType DEF InstallInit
<1>2. /\ Idle.at = "idle" /\ Idle.doing = "apply" /\ Idle.changed = {} /\ Idle.recorded = FALSE
      /\ Idle.others = {} /\ Idle.done = {}
  BY DEF Idle
<1>3. config \in [ConfigFiles -> Contents] /\ NoneConfigured(config)
  BY DEF InstallInit, Contents, NoConfig, NoneConfigured, Configured
<1>4. edits \in [ConfigFiles -> Nat] /\ EditsKept
  BY <1>3 DEF InstallInit, Contents, EditsKept
<1>5. InstallTyped
  BY <1>1, <1>2, <1>3, <1>4, InstallAssumption DEF InstallInit, InstallTyped, Way,
     InstallAssumption, Procs, Ends
<1>6. EditsInv BY <1>1, <1>2, <1>4 DEF EditsInv, CopiesKept
<1>7. UndoInv BY <1>1, <1>2 DEF UndoInv, CanUndo, Procs
<1>8. LocksInv BY <1>1, <1>2 DEF LocksInv, Active, InConfigure, Procs
<1>9. EntryInv
  BY <1>1, <1>2, <1>3 DEF EntryInv, Transacts, Active, Selects, NamesWork, NoneConfigured, Procs
<1> QED BY <1>5, <1>6, <1>7, <1>8, <1>9

LEMMA InstallStutters ==
  ASSUME UNCHANGED installvars
  PROVE  /\ InstallTyped => InstallTyped'
         /\ EditsInv => EditsInv'
         /\ UndoInv => UndoInv'
         /\ LocksInv => LocksInv'
         /\ EntryInv => EntryInv'
<1> USE DEF installvars
<1>1. InstallTyped => InstallTyped' BY DEF InstallTyped, Way
<1>2. EditsInv => EditsInv' BY DEF EditsInv, EditsKept, CopiesKept
<1>3. UndoInv => UndoInv' BY DEF UndoInv, CanUndo
<1>4. LocksInv => LocksInv' BY DEF LocksInv, Active
<1>5. EntryInv => EntryInv'
  BY DEF EntryInv, Transacts, Active, Selects, NamesWork, Fresh
<1> QED BY <1>1, <1>2, <1>3, <1>4, <1>5

LEMMA InstallTypedStep ==
  ASSUME InstallTyped, InstallNext PROVE InstallTyped'
<1>1. ASSUME NEW p \in Installers, BeginInstall(p) PROVE InstallTyped' BY <1>1, BeginInstallStep
<1>2. ASSUME NEW p \in Installers, Checkout(p) PROVE InstallTyped' BY <1>2, CheckoutStep
<1>3. ASSUME NEW p \in Installers, Verify(p) PROVE InstallTyped' BY <1>3, VerifyStep
<1>4. ASSUME NEW p \in Installers, Commit(p) PROVE InstallTyped' BY <1>4, CommitStep
<1>5. ASSUME NEW p \in Installers, Finish(p) PROVE InstallTyped' BY <1>5, FinishStep
<1>6. ASSUME NEW p \in Installers, Undo(p) PROVE InstallTyped' BY <1>6, UndoStep
<1>7. ASSUME NEW p \in Selectors, Select(p) PROVE InstallTyped' BY <1>7, SelectStep
<1>8. ASSUME NEW p \in Procs, LockConfig(p) PROVE InstallTyped' BY <1>8, LockConfigStep
<1>9. ASSUME NEW p \in Procs, WaitTimesOut(p) PROVE InstallTyped' BY <1>9, WaitTimesOutStep
<1>10. ASSUME NEW p \in Procs, Read(p) PROVE InstallTyped' BY <1>10, ReadStep
<1>11. ASSUME NEW p \in Procs, Backup(p) PROVE InstallTyped' BY <1>11, BackupStep
<1>12. ASSUME NEW p \in Procs, Write(p) PROVE InstallTyped' BY <1>12, ConfigWriteStep
<1>13. ASSUME NEW p \in Procs, Wrote(p) PROVE InstallTyped' BY <1>13, WroteStep
<1>14. ASSUME NEW p \in Procs, WriteFails(p) PROVE InstallTyped' BY <1>14, WriteFailsStep
<1>15. ASSUME NEW p \in Procs, Check(p) PROVE InstallTyped' BY <1>15, CheckStep
<1>16. ASSUME NEW p \in Procs, Restore(p) PROVE InstallTyped' BY <1>16, RestoreStep
<1>17. ASSUME NEW p \in Procs, ConfigureKilled(p) PROVE InstallTyped' BY <1>17, ConfigureKilledStep
<1>18. ASSUME NEW p \in Procs, InstallerKilled(p) PROVE InstallTyped' BY <1>18, InstallerKilledStep
<1>19. CASE Ages BY <1>19, AgesStep
<1>20. ASSUME NEW f \in ConfigFiles, Edit(f) PROVE InstallTyped' BY <1>20, EditStep
<1> QED BY <1>1, <1>2, <1>3, <1>4, <1>5, <1>6, <1>7, <1>8, <1>9, <1>10, <1>11, <1>12, <1>13,
           <1>14, <1>15, <1>16, <1>17, <1>18, <1>19, <1>20 DEF InstallNext, ConfigureNext

\* What the user puts into a configuration file is not lost to a transaction, to its
\* rollback, to a selection or to a kill (configure.ts:269-291, 419-443), for every set of
\* installers and selections and any number of faults, also when the installer can be
\* interrupted while it commits: unless the edit falls between a read and the write after it.
THEOREM EditsSurvive == InstallSpec => []EditsKept
<1>1. InstallInit => InstallTyped /\ EditsInv BY InstallStarts
<1>2. InstallTyped /\ EditsInv /\ [InstallNext]_installvars => (InstallTyped /\ EditsInv)'
  BY InstallTypedStep, EditsStep, InstallStutters
<1>3. EditsInv => EditsKept BY DEF EditsInv
<1> QED BY <1>1, <1>2, <1>3, PTL DEF InstallSpec

\* A transaction that failed and whose rollback was not refused leaves every file nobody else
\* has changed as it found it (README.md:73), also when the lock of configure.ts is taken
\* from a process that still works.
THEOREM FailuresUndone == ASSUME ~CommitSignals PROVE InstallSpec => []FailureUndone
<1>1. InstallInit => InstallTyped /\ UndoInv BY InstallStarts
<1>2. InstallTyped /\ UndoInv /\ [InstallNext]_installvars => (InstallTyped /\ UndoInv)'
  BY InstallTypedStep, CanUndoStep, InstallStutters
<1>3. UndoInv => FailureUndone BY DEF UndoInv, CanUndo, FailureUndone
<1> QED BY <1>1, <1>2, <1>3, PTL DEF InstallSpec

\* No configuration ever names a checkout that was removed or rolled back, whatever the
\* installers, the selections, the user and the faults do between two steps.
THEOREM EntriesResolve == ASSUME ~CommitSignals PROVE InstallSpec => []EntryResolves
<1> DEFINE I == InstallTyped /\ LocksInv /\ EntryInv
<1>1. InstallInit => I BY InstallStarts
<1>2. I /\ [InstallNext]_installvars => I'
  BY InstallTypedStep, LocksStep, EntryStep, InstallStutters
<1>3. I => EntryResolves BY DEF EntryInv, NamesWork, EntryResolves
<1> QED BY <1>1, <1>2, <1>3, PTL DEF InstallSpec
=============================================================================
