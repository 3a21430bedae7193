----------------------------- MODULE RagPipeline -----------------------------
(* The retrieval worker (scripts/rag_worker.py): it embeds the documents of the mirrored
   messages page by page. One thread reads the candidates of a backfill through a server
   cursor, one stages the next page, one writes vectors, and the main loop encodes; a saved
   cursor lets a restarted worker go on. Statements, threads and the process can fail.

   A document is one version of a message's text; its number is the order of the query
   (updated_at, then the keys), so what a query returns is the set of its documents. A
   document is one chunk, or none when the tokenizer leaves no text of it.                *)
EXTENDS Naturals, FiniteSets, FiniteSetsExt

CONSTANTS
    Docs,          \* the documents, natural numbers in the order of the query
    FirstDocs,     \* the documents mirrored at the start
    Supersedes,    \* document -> the documents of the same message it replaces
    Chunkless,     \* the documents without a chunk
    PageSize,      \* rag.message_batch_size
    MaxRagFaults   \* bound: failing statements, stops and crashes

ASSUME RagAssumption ==
    /\ Docs \subseteq Nat \ {0} /\ IsFiniteSet(Docs)
    /\ FirstDocs \subseteq Docs /\ Chunkless \subseteq Docs
    /\ Supersedes \in [Docs -> SUBSET Docs]
    /\ PageSize \in Nat \ {0}
    /\ MaxRagFaults \in Nat

VARIABLES
    mirror,     \* [docs, late]: the documents of the projection, and those still to come
    recent,     \* the documents inside the lookback of the live query
    rag,        \* [staged, embedded]: documents with chunks, with current embeddings
    saved,      \* the state file, which is written whenever it changes
    work,       \* the main loop
    stager,     \* the staging thread: its page, or its result, or nothing
    writer,     \* the writer thread: the batch it holds
    ragFaults

ragvars == <<mirror, recent, rag, saved, work, stager, writer, ragFaults>>

NoPage == [is |-> "none", page |-> {}]
Job(page) == [is |-> "queued", page |-> page]
NoStream == [open |-> FALSE, full |-> FALSE, all |-> {}, rest |-> {}]
NewPass == [at |-> "top", stream |-> NoStream, page |-> {}, live |-> FALSE, candidates |-> {},
            lookahead |-> {}, stagePending |-> FALSE, endPending |-> FALSE]

RagInit ==
    /\ mirror = [docs |-> FirstDocs, late |-> Docs \ FirstDocs]
    /\ recent = {}
    /\ rag = [staged |-> {}, embedded |-> {}]
    /\ saved = [caughtUp |-> FALSE, cursor |-> 0, sweepDue |-> TRUE]
    /\ work = NewPass
    /\ stager = NoPage
    /\ writer = NoPage
    /\ ragFaults = MaxRagFaults

-------------------------------------------------------------------------------
(* The queries. *)

\* A document is a candidate until it has chunks and every chunk an embedding.
Candidates == {d \in mirror.docs : d \notin rag.embedded}
\* Mutant: a full sweep starts behind the cursor too.
StreamRowsBehind(full) == {d \in Candidates : d > saved.cursor}
\* stream_parameters: a full sweep ignores the cursor.
StreamRows(full) == {d \in Candidates : full \/ saved.caughtUp \/ d > saved.cursor}

FirstPage(rows) == {d \in rows : Cardinality({e \in rows : e <= d}) <= PageSize}
Behind(rows) == rows \ FirstPage(rows)
LivePage == FirstPage(Candidates \cap recent)

\* stage_batch: the chunks of the page that have no embedding yet.
Unembedded(page) == page \ (Chunkless \cup rag.embedded)

-------------------------------------------------------------------------------
(* The main loop. *)

\* The end of a stream: the worker is caught up, and a full sweep starts its interval.
CatchUp(state, full) ==
    [state EXCEPT !.caughtUp = TRUE, !.sweepDue = @ /\ ~full]

\* While caught up the live query decides; it finds nothing and a sweep is due, or the
\* backfill is not complete: a stream is opened.
Poll ==
    /\ work.at = "top" /\ ~work.stream.open /\ saved.caughtUp
    /\ LivePage # {}
    /\ work' = [work EXCEPT !.at = "stage", !.page = LivePage, !.live = TRUE]
    /\ UNCHANGED <<mirror, recent, rag, saved, stager, writer, ragFaults>>
OpenStream ==
    /\ work.at = "top" /\ ~work.stream.open
    /\ saved.caughtUp => LivePage = {} /\ saved.sweepDue
    /\ \E all \in {StreamRows(saved.caughtUp)} :
         work' = [work EXCEPT !.at = "fetch",
                    !.stream = [open |-> TRUE, full |-> saved.caughtUp, all |-> all, rest |-> all]]
    /\ UNCHANGED <<mirror, recent, rag, saved, stager, writer, ragFaults>>

\* The first page of a stream is staged at once; without one the stream has ended.
FetchFirst ==
    /\ work.at = "fetch"
    /\ IF work.stream.rest = {}
         THEN /\ work' = [work EXCEPT !.at = "top", !.stream = NoStream]
              /\ saved' = CatchUp(saved, work.stream.full)
              /\ UNCHANGED stager
         ELSE /\ work' = [work EXCEPT !.at = "collect", !.page = FirstPage(work.stream.rest),
                                      !.live = FALSE, !.stream.rest = Behind(@)]
              /\ stager' = Job(FirstPage(work.stream.rest))
              /\ UNCHANGED saved
    /\ UNCHANGED <<mirror, recent, rag, writer, ragFaults>>

\* The page that was read ahead is taken; its staging is already under way.
TakeLookahead ==
    /\ work.at = "top" /\ work.stream.open
    /\ work' = [work EXCEPT !.at = "collect", !.page = work.lookahead, !.live = FALSE,
                            !.lookahead = {}]
    /\ IF work.stagePending THEN UNCHANGED stager
       ELSE stager.is = "none" /\ stager' = Job(work.lookahead)
    /\ UNCHANGED <<mirror, recent, rag, saved, writer, ragFaults>>

\* Whether the next page is with the stager already.
StagedAhead(ahead) == ahead # {}

\* The staged page is collected, and the next one is read and handed to the stager while
\* this one is encoded.
CollectBatch ==
    /\ work.at = "collect" /\ stager.is = "done"
    /\ LET ahead == FirstPage(work.stream.rest) IN
       /\ work' = [work EXCEPT !.at = "embed", !.candidates = stager.page,
                      !.lookahead = ahead, !.stream.rest = Behind(@),
                      !.stagePending = StagedAhead(ahead), !.endPending = @ \/ ahead = {}]
       /\ stager' = IF ahead = {} THEN NoPage ELSE Job(ahead)
    /\ UNCHANGED <<mirror, recent, rag, saved, writer, ragFaults>>

\* A live page is staged by the main loop itself.
StageLive ==
    /\ work.at = "stage"
    /\ rag' = [rag EXCEPT !.staged = @ \cup work.page]
    /\ work' = [work EXCEPT !.at = "embed", !.candidates = Unembedded(work.page)]
    /\ UNCHANGED <<mirror, recent, saved, stager, writer, ragFaults>>

\* submit: the batch before must be written before the next is handed over.
Encode ==
    /\ work.at = "embed" /\ writer.is = "none"
    /\ \E d \in work.candidates :
         /\ \A e \in work.candidates : d <= e
         /\ writer' = Job({d})
         /\ work' = [work EXCEPT !.candidates = @ \ {d}]
    /\ UNCHANGED <<mirror, recent, rag, saved, stager, ragFaults>>

\* Mutant: the page counts as done while its last batch is still with the writer.
WrittenUpToLast == work.at = "embed" /\ work.candidates = {} /\ writer.is # "failed"
\* finish: every batch is written.
BatchWritten == work.at = "embed" /\ work.candidates = {} /\ writer.is = "none"

\* After a page of a stream the cursor moves to its last row; after the last page the
\* stream is closed.
PageDone ==
    /\ BatchWritten
    /\ LET moved == IF work.live THEN saved
                    ELSE [saved EXCEPT !.cursor = Max(work.page), !.caughtUp = FALSE]
       IN saved' = IF work.endPending THEN CatchUp(moved, work.stream.full) ELSE moved
    /\ work' = IF work.endPending THEN NewPass
               ELSE [work EXCEPT !.at = "top", !.page = {}]
    /\ UNCHANGED <<mirror, recent, rag, stager, writer, ragFaults>>

\* The handler of a failed pass drops the stream, the lookahead and the staging thread; the
\* writer keeps what it holds.
FailPass(job) ==
    /\ work' = NewPass
    /\ stager' = NoPage
    /\ writer' = job
    /\ UNCHANGED <<mirror, recent, rag, saved>>

\* A statement of the main loop fails (the handler waits for the staging thread first).
PassFails ==
    /\ work.at # "off" /\ work.at # "top" /\ stager.is # "queued" /\ ragFaults > 0
    /\ ragFaults' = ragFaults - 1
    /\ FailPass(writer)
\* What a thread raised is raised again where the main loop collects it.
StagerRaises ==
    /\ work.at = "collect" /\ stager.is = "failed"
    /\ FailPass(writer)
    /\ UNCHANGED ragFaults
WriterRaises ==
    /\ work.at = "embed" /\ writer.is = "failed" /\ stager.is # "queued"
    /\ FailPass(NoPage)
    /\ UNCHANGED ragFaults

-------------------------------------------------------------------------------
(* The threads. *)

StagerCommits ==
    /\ stager.is = "queued"
    /\ rag' = [rag EXCEPT !.staged = @ \cup stager.page]
    /\ stager' = [is |-> "done", page |-> Unembedded(stager.page)]
    /\ UNCHANGED <<mirror, recent, saved, work, writer, ragFaults>>
\* A batch is written where it has no embedding yet.
WriterCommits ==
    /\ writer.is = "queued"
    /\ rag' = [rag EXCEPT !.embedded = @ \cup writer.page]
    /\ writer' = NoPage
    /\ UNCHANGED <<mirror, recent, saved, work, stager, ragFaults>>
ThreadFails ==
    /\ ragFaults > 0 /\ ragFaults' = ragFaults - 1
    /\ \/ stager.is = "queued" /\ stager' = [stager EXCEPT !.is = "failed"] /\ UNCHANGED writer
       \/ writer.is = "queued" /\ writer' = [writer EXCEPT !.is = "failed"] /\ UNCHANGED stager
    /\ UNCHANGED <<mirror, recent, rag, saved, work>>

-------------------------------------------------------------------------------
(* What happens around it. *)

\* The process ends: killed, or by an error the handler itself runs into.
RagCrash ==
    /\ work.at # "off" /\ ragFaults > 0
    /\ ragFaults' = ragFaults - 1
    /\ work' = [NewPass EXCEPT !.at = "off"]
    /\ stager' = NoPage /\ writer' = NoPage
    /\ UNCHANGED <<mirror, recent, rag, saved>>
RagRestart ==
    /\ work.at = "off"
    /\ work' = NewPass
    /\ UNCHANGED <<mirror, recent, rag, saved, stager, writer, ragFaults>>

\* The mirror gets a document, which may be older than the cursor and than the lookback.
Arrive ==
    \E d \in mirror.late :
        /\ mirror' = [docs |-> (mirror.docs \ Supersedes[d]) \cup {d},
                      late |-> mirror.late \ (Supersedes[d] \cup {d})]
        /\ \/ recent' = recent \cup {d}
           \/ UNCHANGED recent
        /\ UNCHANGED <<rag, saved, work, stager, writer, ragFaults>>
AgeOut ==
    /\ recent # {} /\ recent' = {}
    /\ UNCHANGED <<mirror, rag, saved, work, stager, writer, ragFaults>>
SweepTime ==
    /\ ~saved.sweepDue /\ saved' = [saved EXCEPT !.sweepDue = TRUE]
    /\ UNCHANGED <<mirror, recent, rag, work, stager, writer, ragFaults>>

RagLoop ==
    \/ Poll \/ OpenStream \/ FetchFirst \/ TakeLookahead \/ CollectBatch \/ StageLive
    \/ Encode \/ PageDone \/ PassFails \/ StagerRaises \/ WriterRaises \/ RagRestart
RagThreads == StagerCommits \/ WriterCommits
RagNext == RagLoop \/ RagThreads \/ ThreadFails \/ RagCrash \/ Arrive \/ AgeOut \/ SweepTime

-------------------------------------------------------------------------------
(* Properties. *)

RagTypeOK ==
    /\ mirror.docs \cup mirror.late \subseteq Docs /\ mirror.docs \cap mirror.late = {}
    /\ recent \subseteq Docs
    /\ rag.embedded \subseteq rag.staged \ Chunkless /\ rag.staged \subseteq Docs
    /\ saved.cursor \in Docs \cup {0}
    /\ work.stagePending => work.lookahead # {} \/ work.at = "collect"
    /\ work.at = "collect" => stager.is # "none"
    /\ writer.is # "none" => Cardinality(writer.page) = 1

\* The saved cursor never passes a document whose vectors are not stored: everything the
\* stream found up to it is embedded, whichever thread was ahead, failed or was restarted
\* (rag_worker.py:415-418, 608-618).
CursorSound ==
    [][saved'.cursor # saved.cursor =>
         \A d \in work.stream.all : d <= saved'.cursor => d \in rag.embedded \cup Chunkless]_ragvars

\* Every mirrored document is eventually embedded, also one that arrives behind the cursor
\* and outside the lookback, through failing passes and restarts (rag_worker.py:362-367).
RagCatchesUp == <>[](mirror.docs \subseteq rag.embedded \cup Chunkless)
===============================================================================
