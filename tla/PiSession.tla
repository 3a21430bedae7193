------------------------------ MODULE PiSession ------------------------------
(* A Pi session under the two Pi extensions: the compaction and tree hooks of pi.ts with the
   cut of pi-vcc-cut.ts and the chained ledger of pi-adapter.ts; the recall handles of
   vcc-pi-recall.ts; the /cat command of cat.ts with the pins of cat-core.ts, a file that
   several sessions share.

   The active branch is a sequence of entries. A summary is the set of the entries it was
   built from (`covers'): those whose records the ledger was given, and those of the ledger
   it chains. Pi itself appends the entries, and compacts on its own when the hook
   returns nothing.                                                                     *)
EXTENDS Naturals, Sequences, FiniteSets, SequencesExt

CONSTANTS
    Modes,            \* the values of vcc_mode the session is started with
    Said,             \* the kinds of messages that are appended
    TailTurns,        \* tail_turns
    OtherSessions,    \* sessions sharing the pin file
    MaxFixedPins,     \* MAX_FIXED_PINS
    RecallMaxEntries, \* VCC_PI_RECALL_MAX_ENTRIES
    RefusedIds,       \* the entry ids validIdentity refuses: digits only, a colon, too long
    ItemBytes,        \* entry id -> the bytes of the answer with its item
    RecallLimits,     \* the values of max_bytes that are asked for
    MaxEntries,       \* bound: entries ever appended
    MaxPinUpdates     \* bound: updates of the pin file

ASSUME PiAssumption ==
    /\ Modes \subseteq {"off", "offline", "hybrid"}
    /\ Said \subseteq {"user", "answer", "cat"}
    /\ "free" \notin OtherSessions
    /\ TailTurns \in Nat /\ MaxFixedPins \in Nat \ {0} /\ RecallMaxEntries \in Nat
    /\ MaxEntries \in Nat /\ MaxPinUpdates \in Nat
    /\ ItemBytes \in [1..MaxEntries -> Nat] /\ RecallLimits \subseteq Nat

VARIABLES
    branch,     \* the entries from the root to the leaf
    lastId,     \* the ids given so far
    mode,       \* resolved.vcc_mode
    hook,       \* the hook that is awaited
    handles,    \* history: the recall handles handed out
    pins,       \* the pins of the file: the session and its pinnedAt
    pinLock,    \* the session that made the lock directory, or "free"
    updater,    \* session -> its update of the pin file
    wanted,     \* history: the pins as the updates one after the other make them
    pinUpdates

pivars == <<branch, lastId, mode, hook, handles, pins, pinLock, updater, wanted, pinUpdates>>
pinvars == <<pins, pinLock, updater, wanted, pinUpdates>>

Me == "me"
PinSessions == OtherSessions \cup {Me}
Talk == {"user", "answer", "cat", "pinned"}
\* kept: firstKeptEntryId of a compaction, 0 for the empty string; by: who compacted.
PiEntry(kind, kept, covers, by) ==
    [id |-> lastId + 1, kind |-> kind, kept |-> kept, covers |-> covers, by |-> by]
NoHook == [at |-> "none", messages |-> {}, kept |-> 0, to |-> 0, pinned |-> FALSE]
NoUpdate == [at |-> "none", op |-> "save", pinnedAt |-> 0, value |-> {}]

PiInit ==
    /\ branch = <<>> /\ lastId = 0
    /\ mode = "off"
    /\ hook = NoHook
    /\ handles = {}
    /\ pins = {} /\ pinLock = "free" /\ wanted = {}
    /\ updater = [s \in PinSessions |-> NoUpdate]
    /\ pinUpdates = 0

PiIdle == hook.at = "none" /\ updater[Me].at = "none"
Append1(entry) == branch' = Append(branch, entry) /\ lastId' = lastId + 1

-------------------------------------------------------------------------------
(* The live branch and the cut. *)

Ids(entries) == {e.id : e \in ToSet(entries)}
IndexOf(id) == CHOOSE i \in 1..Len(branch) : branch[i].id = id
Compactions == {i \in 1..Len(branch) : branch[i].kind = "compaction"}
Newest(S) == IF S = {} THEN 0 ELSE CHOOSE i \in S : \A j \in S : j <= i

\* Mutant: a boundary that is gone makes the pass start from the old history.
LiveStartReplays ==
    LET c == Newest(Compactions)
    IN IF c = 0 \/ branch[c].kept \notin Ids(branch) THEN 1 ELSE IndexOf(branch[c].kept)
\* From the kept entry of the newest compaction; after it when that entry is not there.
LiveStart ==
    LET c == Newest(Compactions)
    IN IF c = 0 THEN 1
       ELSE IF branch[c].kept \notin Ids(branch) THEN c + 1
       ELSE IndexOf(branch[c].kept)
\* The live messages, by their places on the branch.
LiveEntries == {i \in LiveStart..Len(branch) : branch[i].kind # "compaction"}
Before(i) == {j \in LiveEntries : j < i}
IdsAt(S) == {branch[i].id : i \in S}

\* /cat attachments are user messages too.
IsTurn(e) == e.kind \in {"user", "cat", "pinned"}
LiveTurns == {i \in LiveEntries : IsTurn(branch[i])}
TurnsFrom(i) == {j \in LiveTurns : j >= i}

\* Mutant: the tail is one turn longer.
CutAtLonger == {i \in LiveTurns : Cardinality(TurnsFrom(i)) = TailTurns + 1}
\* The turn that starts the tail, unless nothing would be left to summarise before it.
CutAt == {i \in LiveTurns : Before(i) # {} /\ Cardinality(TurnsFrom(i)) = TailTurns}

\* What is summarised and the first entry kept: everything and none without a cut.
CutBefore(i) == [messages |-> IdsAt(Before(i)), kept |-> branch[i].id]
CutOf ==
    IF CutAt = {} THEN [messages |-> IdsAt(LiveEntries), kept |-> 0]
    ELSE CutBefore(CHOOSE i \in CutAt : TRUE)
\* Pi's own cuts, before any live entry but the first.
PiCuts == {CutBefore(i) : i \in {j \in LiveEntries : Before(j) # {}}}

-------------------------------------------------------------------------------
(* The pipeline. *)

\* priorPluginSummary: the newest compaction with a ledger of the plugin is chained.
PriorCovers ==
    LET c == Newest({i \in Compactions : branch[i].by # "pi"})
    IN IF c = 0 THEN {} ELSE branch[c].covers

\* isCatAttachment: /cat files, pinned or not.
Attachments == {e.id : e \in {x \in ToSet(branch) : x.kind \in {"cat", "pinned"}}}
\* toMessageRecords: every message of the branch has its record; with a fixed pin of the
\* session every attachment message is left out.
Records(messages, pinned) == IF pinned THEN messages \ Attachments ELSE messages
\* runPipeline: the ledger of the records and of the summary that is chained.
SummaryCovers(messages, pinned) == PriorCovers \cup Records(messages, pinned)

MyPin == \E p \in pins : p.session = Me

\* session_before_compact. With vcc_mode off the cut is Pi's; otherwise a branch of at most
\* two live messages is left to Pi.
BeginCompact ==
    /\ PiIdle /\ lastId < MaxEntries
    /\ Cardinality(LiveEntries) > 1
    /\ \E cut \in IF mode = "off" THEN PiCuts ELSE {CutOf} :
         hook' = [at |-> IF mode # "off" /\ Cardinality(LiveEntries) <= 2 THEN "native"
                         ELSE IF mode = "offline" THEN "embed" ELSE "model",
                  messages |-> cut.messages, kept |-> cut.kept, to |-> 0, pinned |-> MyPin]
    /\ UNCHANGED <<branch, lastId, mode, handles, pinvars>>

\* session_before_tree, when the user wants a summary of what is left behind.
BeginTree ==
    /\ PiIdle /\ lastId < MaxEntries
    /\ \E i \in 1..(Len(branch) - 1) :
         hook' = [NoHook EXCEPT !.at = IF mode = "offline" THEN "embed" ELSE "model", !.to = i,
                    !.messages = Ids(SubSeq(branch, i + 1, Len(branch))), !.pinned = MyPin]
    /\ UNCHANGED <<branch, lastId, mode, handles, pinvars>>

\* The provider: an answer, valid or not, becomes a summary; so does a missing model in
\* hybrid mode. An abort ends it. A missing model otherwise, and whatever throws with or
\* without a provider, leaves it to Pi.
ModelReturns ==
    /\ \/ hook.at = "model" /\ hook' \in {[hook EXCEPT !.at = "embed"], NoHook}
       \/ hook.at \in {"model", "embed"} /\ hook' = [hook EXCEPT !.at = "native"]
    /\ UNCHANGED <<branch, lastId, mode, handles, pinvars>>

\* The summary, with the pinned files in front of it if they fit, comes back to Pi.
HookReturns ==
    /\ hook.at = "embed"
    /\ LET covers == SummaryCovers(hook.messages, hook.pinned)
       IN IF hook.to = 0
            THEN Append1(PiEntry("compaction", hook.kept, covers, mode))
            ELSE /\ branch' = Append(SubSeq(branch, 1, hook.to), PiEntry("branch", 0, covers, mode))
                 /\ lastId' = lastId + 1
    /\ hook' = NoHook
    /\ UNCHANGED <<mode, handles, pinvars>>

\* Pi's own compaction or branch summary, over its own last summary.
PiCompacts ==
    /\ hook.at = "native"
    /\ IF hook.to # 0
         THEN /\ branch' = Append(SubSeq(branch, 1, hook.to), PiEntry("branch", 0, hook.messages, "pi"))
              /\ lastId' = lastId + 1
         ELSE \E cut \in PiCuts :
                LET c == Newest(Compactions)
                IN Append1(PiEntry("compaction", cut.kept,
                     cut.messages \cup (IF c = 0 THEN {} ELSE branch[c].covers), "pi"))
    /\ hook' = NoHook
    /\ UNCHANGED <<mode, handles, pinvars>>

-------------------------------------------------------------------------------
(* The session around it. *)

\* session_start loads the options again.
SessionStart ==
    /\ PiIdle
    /\ mode' \in Modes \ {mode}
    /\ UNCHANGED <<branch, lastId, hook, handles, pinvars>>

\* The conversation, with /cat attachments that are not pinned.
Speak ==
    /\ PiIdle /\ lastId < MaxEntries
    /\ \E kind \in Said : Append1(PiEntry(kind, 0, {}, "none"))
    /\ UNCHANGED <<mode, hook, handles, pinvars>>

\* The user goes back in the tree without a summary.
GoBack ==
    /\ PiIdle
    /\ \E i \in 1..(Len(branch) - 1) : branch' = SubSeq(branch, 1, i)
    /\ UNCHANGED <<lastId, mode, hook, handles, pinvars>>

-------------------------------------------------------------------------------
(* vcc_recall. *)

\* Mutant: the leaf marks the lineage.
MarkerIsLeaf == branch[Len(branch)].id
\* vccPiLineageId: the first child of the root, the root itself when it is alone.
Marker == IF Len(branch) > 1 THEN branch[2].id ELSE branch[1].id
\* The handle of an entry. An entry never changes, so its payload adds nothing to its id.
PiHandle(e) == [id |-> e.id, marker |-> Marker]

\* The messages of the branch that have a handle.
RecallEntries == {e \in ToSet(branch) : e.kind \in Talk}
\* The index is bounded, and one message whose id is refused makes all of it incomplete.
IndexComplete ==
    /\ Len(branch) <= RecallMaxEntries
    /\ \A e \in RecallEntries : e.id \notin RefusedIds

\* What vcc_recall answers to a handle: its status, or the reason of "unavailable".
PiRecallStatus(h, max_bytes) ==
    IF ~IndexComplete THEN "incomplete"
    ELSE IF \A e \in RecallEntries : PiHandle(e) # h THEN "unavailable"
    ELSE IF ItemBytes[h.id] > max_bytes THEN "oversized"
    ELSE "ok"

\* A discovery hands out the handle of a message of the branch.
Discover ==
    /\ PiIdle /\ handles = {} /\ IndexComplete
    /\ \E e \in RecallEntries : handles' = {PiHandle(e)}
    /\ UNCHANGED <<branch, lastId, mode, hook, pinvars>>

-------------------------------------------------------------------------------
(* The pin file: /cat --fixed and /cat --reset. *)

\* The pin of a session replaces the one it has; the newest MaxFixedPins stay.
PinSaved(s, pinnedAt, value) ==
    LET all == {p \in value : p.session # s} \cup {[session |-> s, at |-> pinnedAt]}
    IN {p \in all : Cardinality({q \in all : q.at > p.at}) < MaxFixedPins}
PinCleared(s, value) == {p \in value : p.session # s}
\* What an update makes of the file.
Updated(s, value) ==
    IF updater[s].op = "save" THEN PinSaved(s, updater[s].pinnedAt, value) ELSE PinCleared(s, value)

\* Mutant: a busy file is written as well.
PinLockFreeAlways == TRUE
\* mkdir of the lock directory, which nobody ever removes for another.
PinLockFree == pinLock = "free"

\* pinnedAt is taken before the lock, so another session may have pinned since: any stamp
\* that no other pin has.
Stamps(s) == 1..MaxPinUpdates \ {p.at : p \in PinCleared(s, pins)}
\* A busy file refuses the command, and a refused pin attaches nothing.
LockPins(s) ==
    /\ updater[s].at = "none" /\ (s = Me => hook.at = "none" /\ lastId < MaxEntries)
    /\ pinUpdates < MaxPinUpdates /\ PinLockFree
    /\ \/ \E pinnedAt \in Stamps(s) :
            updater' = [updater EXCEPT ![s] = [NoUpdate EXCEPT !.at = "read", !.pinnedAt = pinnedAt]]
       \/ updater' = [updater EXCEPT ![s] = [NoUpdate EXCEPT !.at = "read", !.op = "clear"]]
    /\ pinLock' = s
    /\ pinUpdates' = pinUpdates + 1
    /\ UNCHANGED <<branch, lastId, mode, hook, handles, pins, wanted>>

ReadPins(s) ==
    /\ updater[s].at = "read"
    /\ updater' = [updater EXCEPT ![s].at = "write", ![s].value = Updated(s, pins)]
    /\ UNCHANGED <<branch, lastId, mode, hook, handles, pins, pinLock, wanted, pinUpdates>>

\* The rename, the removal of the lock, and the attachment that follows a pin.
WritePins(s) ==
    /\ updater[s].at = "write"
    /\ pins' = updater[s].value
    /\ pinLock' = "free"
    /\ updater' = [updater EXCEPT ![s] = NoUpdate]
    /\ wanted' = Updated(s, wanted)
    /\ IF s = Me /\ updater[s].op = "save"
         THEN Append1(PiEntry("pinned", 0, {}, "none"))
         ELSE UNCHANGED <<branch, lastId>>
    /\ UNCHANGED <<mode, hook, handles, pinUpdates>>

\* Another session dies in between; its lock directory stays.
PinnerDies(s) ==
    /\ s \in OtherSessions /\ updater[s].at \in {"read", "write"}
    /\ updater' = [updater EXCEPT ![s].at = "dead"]
    /\ UNCHANGED <<branch, lastId, mode, hook, handles, pins, pinLock, wanted, pinUpdates>>

PiNext ==
    \/ SessionStart \/ Speak \/ GoBack \/ Discover
    \/ BeginCompact \/ BeginTree \/ ModelReturns \/ HookReturns \/ PiCompacts
    \/ \E s \in PinSessions : LockPins(s) \/ ReadPins(s) \/ WritePins(s) \/ PinnerDies(s)

-------------------------------------------------------------------------------
(* Properties. *)

PiTypeOK ==
    /\ lastId \in 0..MaxEntries /\ Ids(branch) \subseteq 1..lastId
    /\ \A i, j \in 1..Len(branch) : i < j => branch[i].id < branch[j].id
    /\ \A e \in ToSet(branch) : e.covers \subseteq 1..(e.id - 1) /\ e.kept < e.id
    /\ mode \in Modes \cup {"off"}
    /\ hook.messages \subseteq 1..lastId
    /\ pinLock \in PinSessions \cup {"free"} /\ Cardinality(pins) <= MaxFixedPins

\* What the context and the newest summary hold between them is every message of the branch,
\* none of them twice: no message falls between the cut, the boundary of the compaction
\* before and the chained ledger (pi-vcc-cut.ts:20-40, pi-adapter.ts:186-199), whatever the
\* user cut off or summarised in the tree. A compaction of Pi's own cannot be chained, and
\* attachments are left out while files are pinned.
Chained == \A i, j \in Compactions : i < j /\ branch[j].by # "pi" => branch[i].by # "pi"
SummaryAndTail ==
    LET c == Newest(Compactions)
        covered == IF c = 0 THEN {} ELSE branch[c].covers
        spoken == {e.id : e \in {x \in ToSet(branch) : x.kind \in {"user", "answer", "branch"}}}
    IN Chained => /\ spoken \subseteq covered \cup IdsAt(LiveEntries)
                  /\ covered \cap IdsAt(LiveEntries) = {}

\* A compaction of the VCC modes leaves the tail of exactly tail_turns turns that begins
\* with a turn, or no tail at all (pi-vcc-cut.ts:58-74).
TailKept ==
    LET c == Len(branch)
    IN c > 0 /\ branch[c].kind = "compaction" /\ branch[c].by \in {"offline", "hybrid"}
         => \/ LiveEntries = {}
            \/ /\ Cardinality(LiveTurns) = TailTurns
               /\ \A i \in LiveEntries : Before(i) = {} => IsTurn(branch[i])

\* A handle of an entry below the root is answered whenever the entry is on the active
\* branch again or still, whatever was compacted or left in the tree since: it fails only for
\* the reasons the tool names, an index that is incomplete, for every handle alike, and an
\* item that is larger than max_bytes (README.md:35-36, vcc-pi-recall.ts:52-66,108-145).
RecallStable ==
    \A h \in handles, max_bytes \in RecallLimits :
        h.id \in Ids(Tail(branch)) /\ IndexComplete =>
            PiRecallStatus(h, max_bytes) = IF ItemBytes[h.id] > max_bytes THEN "oversized" ELSE "ok"

\* Two sessions that pin and unpin at the same time lose none of it (cat-core.ts:334-401).
PinsKept == pins = wanted
===============================================================================
