--------------------------- MODULE JsonlDiscovery ---------------------------
(***************************************************************************)
(* discoverJsonl of src/src/jsonl.ts: what one pass over a tree of JSONL   *)
(* session files stages, and the checkpoint it leaves.                     *)
(*                                                                         *)
(* A file is its lines and its mtime; a line is one unit of size and one   *)
(* record.  `seen` is the tree when listJsonlFiles took sizes and mtimes,  *)
(* `now` the tree when the files are read.  A file that is not there has   *)
(* mtime 0.                                                                *)
(***************************************************************************)
EXTENDS Integers, Sequences, FiniteSets, SequencesExt, FiniteSetsExt

CONSTANTS
    FileOrder,             \* the files, in the order in which they are read
    MaxLines,              \* bound: lines of a file
    MaxRecords,            \* maxRecords (batch_size * 5)
    KeepRemoteOnMissing,
    AllowSourceShrink

\* The assumption on the constants; the module that instantiates this one states it.
JsonlAssumption ==
    /\ MaxLines \in Nat
    /\ MaxRecords \in Nat
    /\ KeepRemoteOnMissing \in BOOLEAN
    /\ AllowSourceShrink \in BOOLEAN

Files == {FileOrder[i] : i \in DOMAIN FileOrder}

\* Natural keys: <path>|session is line 0, <path>|line:i is line i + 1.
JsonlKeys == Files \X (0 .. MaxLines)
Prefix(f) == {f} \X (0 .. MaxLines)

\* lineCount is undefined until the file was read to its end.
Uncounted == -1
NoEntry == [size |-> 0, mtime |-> 0, lineCount |-> Uncounted]
NoCurrent == [path |-> "none", line |-> 0, size |-> 0, mtime |-> 0]
JsonlStart ==
    [prior |-> FALSE, inventoryComplete |-> FALSE, counts |-> [files |-> 0, bytes |-> 0],
     files |-> [f \in Files |-> NoEntry], current |-> NoCurrent]

Upsert(key, value) == [op |-> "upsert", keys |-> {key}, value |-> value, marked |-> FALSE]
SessionRecord(f) == Upsert(<<f, 0>>, 0)
MessageRecord(f, line, value) == Upsert(<<f, line>>, value)
PrefixControl(f) == [op |-> "prefix", keys |-> Prefix(f), value |-> 0, marked |-> FALSE]

Size(tree, f) == Len(tree[f].lines)
Present(tree) == {f \in Files : tree[f].mtime # 0}
Known(files) == {f \in Files : files[f].mtime # 0}
Bytes(tree) == MapThenSumSet(LAMBDA f : Size(tree, f), Present(tree))

\* Mutant: the mtime is not compared.
SameSize(saved, tree, f) == saved.size = Size(tree, f)
Unchanged(saved, tree, f) == saved.size = Size(tree, f) /\ saved.mtime = tree[f].mtime

Shrinking(cp, seen) ==
    {f \in Present(seen) \cap Known(cp.files) : Size(seen, f) < cp.files[f].size}
Missing(cp, seen) == Known(cp.files) \ Present(seen)

\* shrinkBlocked
ShrinkBlocked(cp, seen) ==
    /\ cp.prior /\ ~KeepRemoteOnMissing /\ ~AllowSourceShrink
    /\ \/ cp.counts.files > 0 /\ Present(seen) = {}
       \/ Bytes(seen) < cp.counts.bytes
       \/ Shrinking(cp, seen) # {}
       \/ Missing(cp, seen) # {} /\ Bytes(seen) <= cp.counts.bytes

\* Entries of files that are gone are dropped; their prefix is reconciled unless the
\* source shrank or the remote rows are kept.
DropMissing(cp, seen) ==
    LET gone == Missing(cp, seen)
        blocked == ShrinkBlocked(cp, seen)
        reconciled == IF KeepRemoteOnMissing \/ blocked THEN {} ELSE gone
    IN [files |-> [f \in Files |-> IF f \in gone THEN NoEntry ELSE cp.files[f]],
        current |-> IF cp.current.path \in gone THEN NoCurrent ELSE cp.current,
        prefixes |-> SelectSeq(FileOrder, LAMBDA f : f \in reconciled),
        rows |-> <<>>]

\* The headers of new and changed files, read while any file is new.  A changed file
\* takes its new size and mtime and keeps its lineCount.
Inventory(cp, seen, reached, acc) ==
    LET needed == ~cp.inventoryComplete \/ \E f \in Present(seen) : f \notin Known(acc.files)
        read == {f \in Present(seen) \cap reached :
                    needed /\ ~Unchanged(acc.files[f], seen, f)}
    IN [acc EXCEPT
          !.files = [f \in Files |->
              IF f \in read
              THEN [size |-> Size(seen, f), mtime |-> seen[f].mtime,
                    lineCount |-> acc.files[f].lineCount]
              ELSE acc.files[f]],
          !.rows = [i \in 1 .. Cardinality(read) |->
                        SessionRecord(SelectSeq(FileOrder, LAMBDA f : f \in read)[i])]]

Candidate(acc, seen, f) ==
    /\ f \in Present(seen)
    /\ \/ acc.current.path = f
       \/ ~Unchanged(acc.files[f], seen, f)
       \/ acc.files[f].lineCount = Uncounted

\* startLine, startOffset: a file that only grew is resumed.
StartLine(acc, seen, f) ==
    IF acc.current.path = f /\ Size(seen, f) >= acc.current.size THEN acc.current.line ELSE 0

\* One file: its session record, and lines while the budget lasts.
ReadFile(blocked, cp, seen, now, acc, f) ==
    LET start == StartLine(acc, seen, f)
        total == Size(now, f)
        left == IF total > start THEN total - start ELSE 0
        taken == IF left < acc.remaining THEN left ELSE acc.remaining
        lines == [i \in 1 .. taken |-> MessageRecord(f, start + i, now[f].lines[start + i])]
        read == [acc EXCEPT !.rows = @ \o <<SessionRecord(f)>> \o lines,
                            !.remaining = @ - taken]
    IN IF taken < left
       THEN [read EXCEPT !.going = FALSE,
                !.current = [path |-> f, line |-> start + taken,
                             size |-> Size(seen, f), mtime |-> seen[f].mtime]]
       ELSE [read EXCEPT
                !.files[f] = [size |-> Size(seen, f), mtime |-> seen[f].mtime,
                              lineCount |-> start + taken],
                !.current = IF @.path = f THEN NoCurrent ELSE @,
                !.prefixes = IF blocked /\ f \in Shrinking(cp, seen) THEN @ ELSE Append(@, f),
                !.going = acc.late \/ read.remaining > 0]

\* Where a pass stops: the files whose headers it reaches, the lines it reads, and
\* whether a signal arrives only after the next file was opened.
Whole == [headers |-> Len(FileOrder), lines |-> IF MaxRecords = 0 THEN 1 ELSE MaxRecords,
          late |-> FALSE]
Interrupted == [headers : 0 .. Len(FileOrder), lines : 0 .. MaxRecords, late : BOOLEAN]

\* Set mapping and CHOOSE bind intermediate results, so that TLC evaluates them once.
ReadFiles(cp, seen, now, stop, listed) ==
    LET blocked == ShrinkBlocked(cp, seen)
        opened == [rows |-> listed.rows, files |-> listed.files, current |-> listed.current,
                   prefixes |-> listed.prefixes, remaining |-> stop.lines, late |-> stop.late,
                   going |-> stop.headers = Len(FileOrder) /\ (stop.late \/ stop.lines > 0)]
    IN FoldLeft(LAMBDA before, f :
                    CHOOSE after \in {IF acc.going THEN ReadFile(blocked, cp, seen, now, acc, f)
                                      ELSE acc : acc \in {before}} : TRUE,
                opened,
                SelectSeq(FileOrder, LAMBDA f : Candidate(listed, seen, f)))

\* `skipped`, for the properties only: a file that changed was only seen by the inventory.
Result(cp, seen, stop, end) ==
    LET blocked == ShrinkBlocked(cp, seen)
        hasMore == \/ end.current # NoCurrent
                   \/ \E f \in Present(seen) :
                        \/ ~Unchanged(end.files[f], seen, f)
                        \/ end.files[f].lineCount = Uncounted
        controls == [i \in 1 .. Len(end.prefixes) |-> PrefixControl(end.prefixes[i])]
    IN [rows |-> controls \o end.rows,
        forced |-> end.prefixes # <<>>,
        cp |-> [prior |-> TRUE,
                inventoryComplete |-> cp.inventoryComplete \/ stop.headers = Len(FileOrder),
                counts |-> IF blocked THEN cp.counts
                           ELSE [files |-> Cardinality(Present(seen)), bytes |-> Bytes(seen)],
                files |-> end.files, current |-> end.current],
        complete |-> ~hasMore /\ ~blocked,
        hasMore |-> hasMore,
        blocked |-> blocked,
        skipped |-> ~hasMore /\ \E f \in Present(seen) \cap Known(cp.files) :
            /\ ~Unchanged(cp.files[f], seen, f)
            /\ \A i \in DOMAIN end.prefixes : end.prefixes[i] # f]

Pass(cp, seen, now, stop) ==
    LET reached == {FileOrder[i] : i \in 1 .. stop.headers}
        listed == {Inventory(cp, seen, reached, acc) : acc \in {DropMissing(cp, seen)}}
        read == {ReadFiles(cp, seen, now, stop, acc) : acc \in listed}
    IN CHOOSE found \in {Result(cp, seen, stop, end) : end \in read} : TRUE

\* What a pass can return; nothing when a file it must read is gone, which throws.
DiscoverJsonl(cp, seen, now, aborted) ==
    IF \E f \in Files \ Present(now) : Candidate(cp, seen, f)
    THEN {}
    ELSE {Pass(cp, seen, now, stop) : stop \in IF aborted THEN Interrupted ELSE {Whole}}

\* What the remote rows should be: the session and the lines of every file.
JsonlRecords(tree) ==
    UNION {{[key |-> <<f, 0>>, value |-> 0]}
            \cup {[key |-> <<f, i>>, value |-> tree[f].lines[i]] : i \in 1 .. Size(tree, f)}
           : f \in Present(tree)}
=============================================================================
