---------------------------- MODULE MCMirrorSync ----------------------------
(* Small instances of MirrorSync with the JSONL adapter. *)
EXTENDS MirrorSync
CONSTANTS w1, w2, f1, f2, MaxChanges, MaxLines, MaxRecords

OneWorker == {w1}
TwoWorkers == {w1, w2}
Nowhere == {}
WhileUploading == {"upload"}
Anywhere == Points \ {"off"}
NotWhenStored == Anywhere \ {"stored"}
BothModes == {"daemon", "once"}
Daemon == {"daemon"}

CONSTANT MCFiles
OneFile == <<f1>>
TwoFiles == <<f1, f2>>

Jsonl == INSTANCE JsonlDiscovery
    WITH FileOrder <- MCFiles, KeepRemoteOnMissing <- FALSE, AllowSourceShrink <- FALSE

ASSUME JsonlParameters == Jsonl!JsonlAssumption

NoFile == [lines |-> <<>>, mtime |-> 0]

\* A source is the tree and the time of its last change; a line's content is the time it
\* was written.
Tree == Jsonl!Files
MCFirst == {[tree |-> [f \in Tree |-> IF f = f1 THEN [lines |-> <<1>>, mtime |-> 1] ELSE NoFile],
             clock |-> 1]}
MCMoves(s) ==
    LET t == s.clock + 1
        write(f, lines) == [tree |-> [s.tree EXCEPT ![f] = [lines |-> lines, mtime |-> t]],
                            clock |-> t]
    IN IF s.clock > MaxChanges THEN {} ELSE
       {write(f, Append(s.tree[f].lines, t)) :
            f \in {g \in Tree : Len(s.tree[g].lines) < MaxLines}}
       \cup {write(f, <<t>>) : f \in {g \in Tree : s.tree[g].mtime # 0}}
       \cup {[tree |-> [s.tree EXCEPT ![f] = NoFile], clock |-> t] :
            f \in {g \in Tree : s.tree[g].mtime # 0}}
\* Session files lie below the directories the fingerprint looks at.
MCFingerprint(s) == 0
MCDiscover(cp, seen, now, aborted) == Jsonl!DiscoverJsonl(cp, seen.tree, now.tree, aborted)
MCStart == Jsonl!JsonlStart
MCKeys == Jsonl!JsonlKeys
MCValues == 0 .. MaxChanges + 1

\* Bound: two workers overlap once, and nothing fails and the source rests when they do.
\* Liveness is not claimed of what follows an overlap.
OverlapBound ==
    "overlap" \in past =>
        /\ faults = 0 /\ source.clock = 1
        /\ revision > 5 => \A w \in Workers : at[w] = "off"

\* The mirror shows the source.
Current == LiveRows(table) = Jsonl!JsonlRecords(source.tree)

\* When the source rests, the mirror comes to show it and stays so, unless two workers
\* overlapped, a discovery did not fit, took several passes, or skipped a file, or the
\* source shrank.
BecomesCurrent ==
    <>[](Current \/ past \cap {"overlap", "over", "partial", "blocked", "skipped"} # {})

\* Several passes over a file tombstone nothing that is still there: a prefix is
\* reconciled when its file disappears (db/migrations/004_reconcile_prefix_index.sql:1).
PassesAddUp == <>[](Current \/ past \cap {"overlap", "over", "blocked", "skipped"} # {})

\* An append is not stranded when other files appear (cli.ts:503-505).
AppendsSeen == <>[](Current \/ past \cap {"overlap", "over", "partial", "blocked"} # {})
=============================================================================
