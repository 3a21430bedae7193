------------------------------ MODULE VccSource ------------------------------
(***************************************************************************)
(* The canonical source of hybrid mode and the candidate compiled from it: *)
(* collectVccOpenCodeSession pages through the session newest first while  *)
(* messages are added, go on and are deleted; the records are mapped to    *)
(* events, the events form causal episodes, and compileVccCandidate keeps  *)
(* what it must and the newest complete episodes that fit.  The recall     *)
(* tool collects again and looks up the handles a candidate listed.        *)
(*                                                                         *)
(* A message's content is its kind and whether its tool call has ended.  A *)
(* digest or a handle is what it is a digest of.  Sizes and limits are in  *)
(* events; the docket, a few hundred bytes, always fits.                   *)
(***************************************************************************)
EXTENDS Naturals, Sequences, FiniteSets, SequencesExt, Listing

CONSTANTS
    MessageKinds,       \* the kinds of messages the session gets
    VccPageSize,        \* VCC_OPENCODE_PAGE_SIZE
    MaxPages,           \* max_pages
    MaxCandidateSize,   \* max_candidate_bytes
    FirstMessages,      \* bound: messages at the beginning
    MaxSessionChanges,  \* bound: changes of the session
    MaxCollections      \* bound: collections

ASSUME VccSourceAssumption ==
    /\ MessageKinds \subseteq {"user", "text", "tool", "listing", "question", "summary", "compaction", "empty"}
    /\ VccPageSize \in Nat \ {0}
    /\ MaxPages \in Nat \ {0}
    /\ MaxCandidateSize \in Nat \ {0}

VARIABLES
    session,    \* the messages the host stores, oldest first
    lastMessage,\* the newest ID ever given
    job,        \* the newest collection
    listed,     \* the candidate before it, or NoCandidate
    steady,     \* history: the handles of the events that stayed as they were since the
                \* collection began
    changes,    \* changes left
    collections \* collections left

sourcevars == <<session, lastMessage, job, listed, steady, changes, collections>>

----------------------------------------------------------------------------
(* Messages.  OpenCode's IDs ascend with time.  A listing is a tool whose  *)
(* result is long; an empty message has no parts yet.                      *)

Tools == {"tool", "listing", "question"}
Humans == {"user", "compaction"}

\* The user message an assistant message answers.
ParentIn(messages) ==
    LET asked == {i \in DOMAIN messages : messages[i].kind = "user"}
    IN messages[CHOOSE i \in asked : \A j \in asked : j <= i].id

NewMessage(messages, id, kind, ended) ==
    [id |-> id, kind |-> kind, ended |-> ended,
     parent |-> IF kind \in Humans THEN 0 ELSE ParentIn(messages)]

Endings(kind) == IF kind \in Tools THEN BOOLEAN ELSE {TRUE}

\* A session that begins with these messages.
FirstSession(kinds, ended) ==
    [i \in DOMAIN kinds |->
        [id |-> i, kind |-> kinds[i], ended |-> ended[i],
         parent |-> IF kinds[i] \in Humans THEN 0 ELSE Max({j \in 1 .. i - 1 : kinds[j] = "user"})]]

----------------------------------------------------------------------------
(* toVccOpenCodeEvents *)

Advisory(m) == m.kind \in {"summary", "compaction"}
Unsupported(m) == m.kind = "empty"

\* What a message expands to: its content, and a call with its result.
EventParts(m) ==
    CASE m.kind = "empty" -> <<>>
      [] m.kind \in Tools /\ ~m.ended -> <<"message", "tool_call">>
      [] m.kind = "question" /\ m.ended -> <<"message", "tool_call", "question_answer">>
      [] m.kind \in {"tool", "listing"} /\ m.ended -> <<"message", "tool_call", "tool_result">>
      [] OTHER -> <<"message">>

\* What an event says. The content of a message holds the end of its step, that of a call
\* or of a result is its own.
Payload(m, part) == <<m.kind, part = "message" /\ m.ended>>

\* createVccArchiveHandle: the event's stable ID and its payload, without its sequence.
ArchiveHandle(m, part) == <<m.id, part, Payload(m, part)>>
HandlesOf(messages) ==
    UNION {{ArchiveHandle(m, part) : part \in ToSet(EventParts(m))} : m \in {x \in messages : ~Advisory(x)}}

LongSize == 3

CanonicalEvent(m, part, sequence) ==
    [id |-> <<m.id, part>>, record |-> m, sequence |-> sequence, handle |-> ArchiveHandle(m, part),
     pair |-> IF part # "message" THEN <<"call", m.id>>
              ELSE IF m.parent = 0 THEN <<"event", m.id>> ELSE <<"parent", m.parent>>,
     human |-> part = "question_answer" \/ (part = "message" /\ m.kind = "user"),
     size |-> IF m.kind = "listing" /\ part = "tool_result" THEN LongSize ELSE 1]

ToEvents(m, sequence) ==
    [i \in DOMAIN EventParts(m) |-> CanonicalEvent(m, EventParts(m)[i], sequence + i - 1)]

\* compareOpenCodeRecords: the messages by time.
ByTime(messages) ==
    LET ids == Ascending({m.id : m \in messages})
    IN [n \in DOMAIN ids |-> CHOOSE m \in messages : m.id = ids[n]]

\* The events of one message after the other, numbered.
EventsOf(messages) ==
    LET upTo[n \in 0 .. Len(messages)] ==
          IF n = 0 THEN <<>> ELSE upTo[n - 1] \o ToEvents(messages[n], Len(upTo[n - 1]))
    IN upTo[Len(messages)]

\* Mutant: the sequence counts generated messages and follows the pages.
CanonicalPaged(records) == SelectSeq(EventsOf(records), LAMBDA e : ~Advisory(e.record))

\* The second pass: the authoritative records by time, numbered without the others.
Canonical(records) == EventsOf(ByTime({m \in ToSet(records) : ~Advisory(m)}))

----------------------------------------------------------------------------
(* formCausalEpisodes and compileVccCandidate *)

Episodes(events) == {{e \in ToSet(events) : e.pair = p} : p \in {e.pair : e \in ToSet(events)}}

\* A call with its result or its human answer; everything else stays open.
CompletePair(episode) ==
    LET kinds == {e.id[2] : e \in episode}
    IN "tool_call" \in kinds /\ ("tool_result" \in kinds \/ "question_answer" \in kinds)

\* The units of size of all events.
SizeOf(events) == Cardinality({unit \in events \X (1 .. LongSize) : unit[2] <= unit[1].size})

LiveEpisodes(events) == {episode \in Episodes(events) : ~CompletePair(episode)}
Protected(events) == {e \in ToSet(events) : e.human} \cup UNION LiveEpisodes(events)
Selectable(events) ==
    {episode \in Episodes(events) : CompletePair(episode) /\ episode \cap Protected(events) = {}}

\* The digest map and the handles, the protected events, the contract chain, the live
\* episodes.
Mandatory(events) ==
    Len(events) + SizeOf(Protected(events)) + SizeOf({e \in ToSet(events) : e.human})
        + SizeOf(UNION LiveEpisodes(events))

\* Without goals and evidence every episode covers the same, so the newest comes first.
Newest(episodes) ==
    CHOOSE episode \in episodes :
        \E e \in episode : \A f \in UNION episodes : f.sequence <= e.sequence

\* Mutant: the selection ends at the first episode that does not fit.
SelectNewest(episodes, room, chosen) ==
    LET left == episodes \ chosen
    IN IF left # {} /\ SizeOf(UNION (chosen \cup {Newest(left)})) <= room
         THEN chosen \cup {Newest(left)} ELSE chosen

\* One more episode: one that does not fit is passed over.
SelectOne(episodes, room, chosen) ==
    LET fitting == {episode \in episodes \ chosen : SizeOf(UNION (chosen \cup {episode})) <= room}
    IN IF fitting = {} THEN chosen ELSE chosen \cup {Newest(fitting)}

Selected(episodes, room) ==
    LET upTo[n \in 0 .. Cardinality(episodes)] ==
          IF n = 0 THEN {} ELSE SelectOne(episodes, room, upTo[n - 1])
    IN upTo[Cardinality(episodes)]

NoCandidate == [events |-> <<>>, protected |-> {}, live |-> {}, selected |-> {}]
Compiles(events) == events # <<>> /\ Mandatory(events) <= MaxCandidateSize
Compile(events) ==
    IF Compiles(events)
      THEN [events |-> events, protected |-> Protected(events), live |-> LiveEpisodes(events),
            selected |-> Selected(Selectable(events), MaxCandidateSize - Mandatory(events))]
      ELSE NoCandidate

CandidateSize(c) == Mandatory(c.events) + SizeOf(UNION c.selected)

----------------------------------------------------------------------------
(* collectVccOpenCodeSession *)

\* purpose: a candidate for the hooks, or the index of the recall tool.
NoCollection ==
    [at |-> "idle", purpose |-> "compact", cursor |-> 0, pages |-> 0, records |-> <<>>,
     complete |-> FALSE, candidate |-> NoCandidate]

SourceInit ==
    /\ \E n \in 1 .. FirstMessages : \E kinds \in [1 .. n -> MessageKinds], ended \in [1 .. n -> BOOLEAN] :
        /\ kinds[1] = "user" /\ \A i \in 1 .. n : ended[i] \in Endings(kinds[i])
        /\ session = FirstSession(kinds, ended)
    /\ lastMessage = Len(session)
    /\ job = NoCollection
    /\ listed = NoCandidate
    /\ steady = {}
    /\ changes = MaxSessionChanges
    /\ collections = MaxCollections

\* The messages endpoint: the newest messages before the cursor, oldest first, and a
\* cursor when there are more.
Before(cursor) == Keep(session, {m \in ToSet(session) : cursor = 0 \/ m.id < cursor})
Page == LET rest == Before(job.cursor)
        IN SubSeq(rest, IF Len(rest) > VccPageSize THEN Len(rest) - VccPageSize + 1 ELSE 1, Len(rest))
NextCursor == IF Len(Before(job.cursor)) > VccPageSize THEN Page[1].id ELSE 0

BeginCollection(purpose) ==
    /\ job.at # "fetching" /\ collections > 0
    /\ collections' = collections - 1
    /\ job' = [NoCollection EXCEPT !.at = "fetching", !.purpose = purpose]
    /\ listed' = IF job.candidate # NoCandidate THEN job.candidate ELSE listed
    /\ steady' = HandlesOf(ToSet(session))
    /\ UNCHANGED <<session, lastMessage, changes>>

\* A failed request, a limit, or a record that has no mapping: the source is incomplete.
CollectionFails ==
    /\ job.at = "fetching"
    /\ job' = [job EXCEPT !.at = "collected"]
    /\ UNCHANGED <<session, lastMessage, listed, steady, changes, collections>>

\* The next page is within the limits and every record on it has a mapping.
PageFits ==
    /\ job.at = "fetching" /\ job.pages < MaxPages
    /\ \A m \in ToSet(Page) : ~Unsupported(m)

FetchPage ==
    /\ PageFits /\ NextCursor # 0
    /\ job' = [job EXCEPT !.pages = @ + 1, !.records = @ \o Page, !.cursor = NextCursor]
    /\ UNCHANGED <<session, lastMessage, listed, steady, changes, collections>>

\* Mutant: a page without an authoritative record counts as the last.
LastPageGenerated ==
    /\ PageFits /\ (NextCursor = 0 \/ \A m \in ToSet(Page) : Advisory(m))
    /\ job' = [job EXCEPT !.at = "collected", !.complete = TRUE, !.records = @ \o Page,
                          !.candidate = IF job.purpose = "recall" THEN NoCandidate
                                        ELSE Compile(Canonical(job.records \o Page))]
    /\ UNCHANGED <<session, lastMessage, listed, steady, changes, collections>>

LastPage ==
    /\ PageFits /\ NextCursor = 0
    /\ job' = [job EXCEPT !.at = "collected", !.complete = TRUE, !.records = @ \o Page,
                          !.candidate = IF job.purpose = "recall" THEN NoCandidate
                                        ELSE Compile(Canonical(job.records \o Page))]
    /\ UNCHANGED <<session, lastMessage, listed, steady, changes, collections>>

----------------------------------------------------------------------------
(* The recall tool *)

\* Mutant: the message is looked up by the whole source ID.
IndexedByMessage(e, records) ==
    \E m \in ToSet(records) : e.id = <<m.id, "message">> /\ e.handle = ArchiveHandle(m, "message")

\* An event is indexed when its message is there and its handle verifies.
Indexed(e, records) ==
    \E m \in ToSet(records) : e.id[1] = m.id /\ e.handle = ArchiveHandle(m, e.id[2])

EntriesOf(handle) ==
    {e \in ToSet(Canonical(job.records)) : Indexed(e, job.records) /\ e.handle = handle}

\* What vcc_recall answers to a handle: its status, or the reason of "unavailable".
RecallStatus(handle, max_bytes) ==
    IF ~job.complete THEN "incomplete"
    ELSE IF EntriesOf(handle) = {} THEN "unavailable"
    ELSE IF \E e \in EntriesOf(handle) : e.size > max_bytes THEN "oversized"
    ELSE "ok"

----------------------------------------------------------------------------
(* The host *)

SessionChanges ==
    /\ changes > 0
    /\ changes' = changes - 1
    /\ steady' = steady \cap HandlesOf(ToSet(session'))
    /\ UNCHANGED <<job, listed, collections>>

AddMessage ==
    /\ \E kind \in MessageKinds, ended \in BOOLEAN :
        /\ ended \in Endings(kind)
        /\ kind \in Humans \/ \E m \in ToSet(session) : m.kind = "user"
        /\ session' = Append(session, NewMessage(session, lastMessage + 1, kind, ended))
    /\ lastMessage' = lastMessage + 1
    /\ SessionChanges

\* A tool call ends, or an empty message gets its first part.
MessageGoesOn ==
    /\ \E i \in DOMAIN session :
        /\ ~session[i].ended \/ session[i].kind = "empty"
        /\ session' = [session EXCEPT ![i].ended = TRUE,
                                      ![i].kind = IF @ = "empty" THEN "text" ELSE @]
    /\ UNCHANGED lastMessage
    /\ SessionChanges

DeleteMessage ==
    /\ Len(session) > 1
    /\ \E i \in 2 .. Len(session) : session' = RemoveAt(session, i)
    /\ UNCHANGED lastMessage
    /\ SessionChanges

SourceNext ==
    \/ \E purpose \in {"compact", "recall"} : BeginCollection(purpose)
    \/ CollectionFails \/ FetchPage \/ LastPage
    \/ AddMessage \/ MessageGoesOn \/ DeleteMessage

SourceSpec == SourceInit /\ [][SourceNext]_sourcevars

----------------------------------------------------------------------------
(* Properties *)

SourceTypeOK ==
    /\ \A i, j \in DOMAIN session : i < j => session[i].id < session[j].id
    /\ \A i \in DOMAIN session : session[i].id <= lastMessage
    /\ job.at \in {"idle", "fetching", "collected"}
    /\ job.pages <= MaxPages /\ job.cursor <= lastMessage
    /\ job.candidate # NoCandidate => job.complete /\ job.purpose = "compact"
    /\ Cardinality({m.id : m \in ToSet(job.records)}) = Len(job.records)

\* A complete source has every authoritative event that stayed as it was throughout the
\* collection, once and in the order of the messages, however pages moved meanwhile
\* (vcc-opencode-session.ts:84-169).
SourceCovers ==
    job.complete =>
        \E events \in {Canonical(job.records)} :
            /\ steady \subseteq {e.handle : e \in ToSet(events)}
            /\ \A i, j \in DOMAIN events : i < j =>
                /\ events[i].id # events[j].id
                /\ events[i].id[1] <= events[j].id[1]

\* The messages a candidate was compiled from.
AuthoritativeIn(c) == {e.record : e \in ToSet(c.events)}

\* Two collections that saw the same authoritative messages compile the same candidate,
\* whatever summaries came in between and however the pages were cut: the hooks compare
\* digests and would degrade the summary otherwise (server.ts:553-563, vcc.ts:719-724).
CandidateStable ==
    /\ job.candidate # NoCandidate /\ listed # NoCandidate
    /\ AuthoritativeIn(job.candidate) = AuthoritativeIn(listed)
    => job.candidate = listed

\* A candidate fits, has every human event and every open episode, and no complete
\* episode that would still fit is left out, a smaller and older one included
\* (vcc.ts:394-418, 487-505).
CandidateBest ==
    job.candidate # NoCandidate =>
        \E c \in {job.candidate} :
            /\ CandidateSize(c) <= MaxCandidateSize
            /\ {e \in ToSet(c.events) : e.human} \cup UNION c.live \subseteq c.protected
            /\ (UNION (c.live \cup c.selected)) \cup c.protected \subseteq ToSet(c.events)
            /\ \A episode \in Selectable(c.events) \ c.selected :
                CandidateSize(c) + SizeOf(episode) > MaxCandidateSize

\* A recall from a complete source answers every handle a candidate listed whose event is
\* still what it was, calls and results of a message that went on included: with the item,
\* or with the refusal of one that is larger than max_bytes, and of no other
\* (README.md:35-36, vcc-opencode-recall.ts:52-128, server.ts:845-857).
RecallAnswers ==
    job.purpose = "recall" /\ job.complete =>
        \A e \in ToSet(listed.events), max_bytes \in 1 .. LongSize :
            e.handle \in steady =>
                RecallStatus(e.handle, max_bytes) = IF e.size > max_bytes THEN "oversized" ELSE "ok"

\* A call and its result are retained together (vcc-opencode-message.ts:25-27): a
\* candidate that carries the one carries the other.
PairsTogether ==
    \A call, end \in ToSet(job.candidate.events) :
        /\ call.pair = end.pair
        /\ call.id[2] = "tool_call"
        /\ end \in job.candidate.protected \cup UNION job.candidate.selected
        => call \in job.candidate.protected \cup UNION job.candidate.selected
=============================================================================
