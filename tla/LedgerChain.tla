----------------------------- MODULE LedgerChain -----------------------------
(***************************************************************************)
(* The recovery ledger (src/src/ledger.ts) over the compactions of one     *)
(* session: what a compaction recovers from the newest messages, merges    *)
(* with the ledger of the newest valid summary, and cuts down until the    *)
(* block fits.  Values are numbers or members of a set; their text after   *)
(* compact(), redaction and truncation is left out.                        *)
(***************************************************************************)
EXTENDS Integers, Sequences, SequencesExt, FiniteSetsExt, Listing

CONSTANTS
    Requests,       \* texts of user turns
    RuleIn,         \* RuleIn[r]: the sequence of constraint lines in request r
    Results,        \* tool parts, [tool, status, text, paths]
    TodoIDs,        \* a todo's content is its ID
    RequestTurns,   \* tail_turns
    Limits,         \* LEDGER_LIMITS, by section
    Sizes,          \* bytes of a value, by section
    BlockBytes,     \* bytes of a block without values
    Budgets,        \* values of max_ledger_bytes
    LedgerWindow,   \* LEDGER_LIMITS.messages
    MaxMessages, MaxLedgers, MaxTodoChanges     \* bounds

\* The sections of RecoveryLedgerData in the order in which fitLedger empties them.
RemovalOrder ==
    <<"evidence", "tool_statuses", "errors", "legacy_context", "constraints",
      "touched_paths", "todos", "recent_requests", "next_actions">>
Sections == ToSet(RemovalOrder)

ASSUME LedgerAssumption ==
    /\ RuleIn \in [Requests -> Seq(Nat)]
    /\ \A e \in Results : e.status \in {"completed", "error"} /\ e.paths \in Seq(Nat)
    /\ TodoIDs \subseteq Nat /\ IsFiniteSet(TodoIDs)
    /\ Limits \in [Sections -> Nat \ {0}] /\ Sizes \in [Sections -> Nat \ {0}]
    \* options.ts:151: at least 1024 bytes, more than a block without values has.
    /\ Budgets \subseteq Nat /\ \A b \in Budgets : BlockBytes <= b
    /\ {RequestTurns, BlockBytes, LedgerWindow, MaxMessages, MaxLedgers, MaxTodoChanges} \subseteq Nat

VARIABLES
    messages,   \* the session: turns, tool results, summaries with a ledger and native ones
    todos,      \* the session's todo list, "absent" for IDs not in it
    budget,     \* max_ledger_bytes of this session
    todoChanges     \* the number of changes of todos, for the bound

ledgervars == <<messages, todos, budget, todoChanges>>

NoValues == [k \in Sections |-> <<>>]

LastOf(values, limit) == SubSeq(values, Len(values) - Min({limit, Len(values)}) + 1, Len(values))
FirstOf(values, limit) == SubSeq(values, 1, Min({limit, Len(values)}))

\* A JavaScript Set in insertion order: a repeated value keeps its first place.
Unique(values) ==
    LET firsts == {n \in DOMAIN values : \A m \in 1 .. n - 1 : values[m] # values[n]}
        places == Keep([n \in DOMAIN values |-> n], firsts)
    IN [i \in DOMAIN places |-> values[places[i]]]

\* pushReverseUnique over a scan from the newest value: a repeated value has its last place.
NewestUnique(values, limit) == Reverse(FirstOf(Unique(Reverse(values)), limit))

\* Mutant: the newer values come first.
MergeNewerFirst(older, newer, limit) == LastOf(Unique(newer \o older), limit)
MergeValues(older, newer, limit) == LastOf(Unique(older \o newer), limit)

----------------------------------------------------------------------------
(* buildRecoveryLedger *)

Window == LastOf(messages, LedgerWindow)

\* The values of the messages of one kind, oldest first.
ValuesOf(ms, kind) ==
    LET chosen == Keep(ms, {m \in ToSet(ms) : m.kind = kind}) IN [i \in DOMAIN chosen |-> chosen[i].value]

\* The constraint lines of requests, and what the tool parts with a status say.
RulesOf(requests) == FlattenSeq([i \in DOMAIN requests |-> RuleIn[requests[i]]])
Outcomes(results, status) ==
    LET chosen == Keep(results, {e \in Results : e.status = status})
    IN [i \in DOMAIN chosen |-> <<chosen[i].tool, chosen[i].text>>]

\* addBoundedPath: when the set is full the largest path leaves it.
AddPath(paths, p) ==
    LET grown == Append(paths, p) IN
    IF p \in ToSet(paths) THEN paths
    ELSE IF Len(grown) <= Limits.touched_paths THEN grown
    ELSE Keep(grown, ToSet(grown) \ {Max(ToSet(grown))})

AddPaths(added) ==
    LET upTo[n \in 0 .. Len(added)] ==
          IF n = 0 THEN <<>> ELSE AddPath(upTo[n - 1], added[n])
    IN upTo[Len(added)]

\* newestPriorPluginSummaryFromSession: the position of the newest summary with a ledger.
Trusted == {i \in DOMAIN messages : messages[i].kind = "summary"}
PriorPosition == Max(Trusted \cup {0})
Prior == IF PriorPosition = 0 THEN NoValues ELSE messages[PriorPosition].value

\* Positions name the summaries: those in the window that are not the prior one.
Untrusted ==
    Ascending({i \in DOMAIN messages : /\ messages[i].kind \in {"summary", "native"}
                                       /\ i # PriorPosition
                                       /\ i > Len(messages) - LedgerWindow})

\* What the scan of the window recovers.
RecoveredLedger ==
    LET requests == ValuesOf(Window, "user")
        results == ValuesOf(Window, "tool")
        newestFirst == Reverse(results)
    IN [evidence |-> NewestUnique(Outcomes(results, "completed"), Limits.evidence),
        errors |-> NewestUnique(Outcomes(results, "error"), Limits.errors),
        tool_statuses |-> LastOf([i \in DOMAIN results |-> <<results[i].tool, results[i].status>>],
                                 Limits.tool_statuses),
        legacy_context |-> LastOf(Untrusted, Limits.legacy_context),
        constraints |-> NewestUnique(RulesOf(requests), Limits.constraints),
        touched_paths |-> AddPaths(FlattenSeq([i \in DOMAIN results |-> newestFirst[i].paths])),
        recent_requests |-> LastOf(requests, Max({1, Min({RequestTurns, Limits.recent_requests})}))]

\* insertSortedBounded by ID.
SortedBounded(ts) ==
    LET ids == Ascending({t.id : t \in ts})
    IN FirstOf([n \in DOMAIN ids |-> CHOOSE t \in ts : t.id = ids[n]], Limits.todos)

ListedTodos ==
    SortedBounded({[id |-> i, status |-> todos[i]] : i \in {j \in TodoIDs : todos[j] # "absent"}})

\* todoByID: the session's todo replaces the prior ledger's, todos that left the list stay.
MergeTodos(older, newer) ==
    SortedBounded(ToSet(newer)
                    \cup {t \in ToSet(older) : \A u \in ToSet(newer) : u.id # t.id})

\* The todos not done yet, then the actions of the prior ledger.
NextActions(merged) ==
    LET pending == Keep(merged, {t \in ToSet(merged) : t.status # "completed"})
        contents == [i \in DOMAIN pending |-> pending[i].id]
    IN FirstOf(Unique(contents \o Prior.next_actions), Limits.next_actions)

Merged ==
    LET new == RecoveredLedger
        both(k) == MergeValues(Prior[k], new[k], Limits[k])
        tasks == MergeTodos(Prior.todos, ListedTodos)
        chained == IF PriorPosition = 0 THEN <<>> ELSE <<-PriorPosition>>
    IN [k \in Sections |->
          CASE k = "recent_requests" ->
                 IF RequestTurns = 0 THEN <<>>
                 ELSE MergeValues(Prior[k], new[k], Min({RequestTurns, Limits[k]}))
            [] k = "legacy_context" -> MergeValues(Prior[k], new[k] \o chained, Limits[k])
            [] k = "touched_paths" -> Ascending(ToSet(both(k)))
            [] k = "todos" -> tasks
            [] k = "next_actions" -> NextActions(tasks)
            [] OTHER -> both(k)]

----------------------------------------------------------------------------
(* fitLedger *)

Bytes(d) ==
    LET upTo[n \in 0 .. Len(RemovalOrder)] ==
          IF n = 0 THEN BlockBytes
          ELSE upTo[n - 1] + Len(d[RemovalOrder[n]]) * Sizes[RemovalOrder[n]]
    IN upTo[Len(RemovalOrder)]

\* The section without its n least important values: actions from the end, others the oldest.
Trim(d, k, n) ==
    [d EXCEPT ![k] = IF k = "next_actions" THEN FirstOf(@, Len(@) - n) ELSE LastOf(@, Len(@) - n)]

\* Mutant: the search leaves the middle in when it does not fit.
LeastTrimShort(d, k) ==
    LET halve(r) ==
          LET middle == (r.low + r.high) \div 2 IN
          IF r.low + 1 >= r.high THEN r
          ELSE IF Bytes(Trim(d, k, middle)) <= budget THEN [r EXCEPT !.high = middle]
          ELSE [r EXCEPT !.low = middle]
        loop[n \in 0 .. Len(d[k])] ==
          IF n = 0 THEN [low |-> 1, high |-> Len(d[k])] ELSE halve(loop[n - 1])
    IN loop[Len(d[k])].low

\* The binary search for the least number of values to remove: its range after n steps.
Halve(d, k, r) ==
    LET middle == (r.low + r.high) \div 2 IN
    IF r.low >= r.high THEN r
    ELSE IF Bytes(Trim(d, k, middle)) <= budget THEN [r EXCEPT !.high = middle]
    ELSE [r EXCEPT !.low = middle + 1]
LeastTrim(d, k) ==
    LET loop[n \in 0 .. Len(d[k])] ==
          IF n = 0 THEN [low |-> 1, high |-> Len(d[k])] ELSE Halve(d, k, loop[n - 1])
    IN loop[Len(d[k])].low

FitSection(d, k) ==
    LET without == [d EXCEPT ![k] = <<>>] IN
    IF Bytes(d) <= budget \/ d[k] = <<>> THEN d
    ELSE IF Bytes(without) > budget THEN without
    ELSE Trim(d, k, LeastTrim(d, k))

Fit(d) ==
    LET upTo[n \in 0 .. Len(RemovalOrder)] ==
          IF n = 0 THEN d ELSE FitSection(upTo[n - 1], RemovalOrder[n])
    IN upTo[Len(RemovalOrder)]

----------------------------------------------------------------------------
(* The session *)

LedgerMessage(kind, value) == [kind |-> kind, value |-> value]

LedgerInit ==
    /\ messages = <<>>
    /\ todos = [i \in TodoIDs |-> "absent"]
    /\ budget \in Budgets
    /\ todoChanges = 0

Ask(r) ==
    /\ Len(messages) < MaxMessages
    /\ messages' = Append(messages, LedgerMessage("user", r))
    /\ UNCHANGED <<todos, budget, todoChanges>>

RunTool(e) ==
    /\ Len(messages) < MaxMessages
    /\ messages' = Append(messages, LedgerMessage("tool", e))
    /\ UNCHANGED <<todos, budget, todoChanges>>

SetTodo(i, status) ==
    /\ todoChanges < MaxTodoChanges
    /\ todos[i] # status
    /\ todos' = [todos EXCEPT ![i] = status]
    /\ todoChanges' = todoChanges + 1
    /\ UNCHANGED <<messages, budget>>

Ledgers == Cardinality({i \in DOMAIN messages : messages[i].kind \in {"summary", "native"}})

\* The summary that is accepted carries the ledger.
Compacts ==
    /\ Ledgers < MaxLedgers /\ messages # <<>>
    /\ \E d \in {Fit(Merged)} :
         /\ Bytes(d) <= budget
         /\ messages' = Append(messages, LedgerMessage("summary", d))
    /\ UNCHANGED <<todos, budget, todoChanges>>

\* A hook or the model failed: the host's summary, without a ledger.
CompactsRaw ==
    /\ Ledgers < MaxLedgers /\ messages # <<>>
    /\ messages' = Append(messages, LedgerMessage("native", 0))
    /\ UNCHANGED <<todos, budget, todoChanges>>

LedgerNext ==
    \/ \E r \in Requests : Ask(r)
    \/ \E e \in Results : RunTool(e)
    \/ \E i \in TodoIDs, status \in {"absent", "pending", "completed"} : SetTodo(i, status)
    \/ Compacts \/ CompactsRaw

LedgerSpec == LedgerInit /\ [][LedgerNext]_ledgervars

----------------------------------------------------------------------------
(* Properties *)

IsLedger(d) ==
    /\ DOMAIN d = Sections
    /\ \A k \in Sections : Len(d[k]) <= Limits[k] /\ IsInjective(d[k])

LedgerTypeOK ==
    /\ \A i \in DOMAIN messages :
         \/ messages[i].kind = "user" /\ messages[i].value \in Requests
         \/ messages[i].kind = "tool" /\ messages[i].value \in Results
         \/ messages[i].kind = "native"
         \/ messages[i].kind = "summary" /\ IsLedger(messages[i].value)
    /\ todos \in [TodoIDs -> {"absent", "pending", "completed"}]
    /\ budget \in Budgets /\ todoChanges \in 0 .. MaxTodoChanges

\* A section keeps its newest values (of the actions the first), and loses one only when all
\* the sections before it in the removal order are empty; the most important section that is
\* cut keeps as many as fit.  What is given up before is not taken back when a later cut
\* makes room.  The block always fits, so that the RangeError of fitLedger never ends a
\* compaction (ledger.ts:539-572).
LedgerFits ==
    messages # <<>> => \E full \in {Merged} : \E d \in {Fit(full)} :
        LET cut == {n \in DOMAIN RemovalOrder : Len(d[RemovalOrder[n]]) < Len(full[RemovalOrder[n]])}
            last == RemovalOrder[Max(cut)]
        IN /\ \A k \in Sections :
                IF k = "next_actions" THEN IsPrefix(d[k], full[k]) ELSE IsSuffix(d[k], full[k])
           /\ cut # {} => /\ \A m \in 1 .. Max(cut) - 1 : d[RemovalOrder[m]] = <<>>
                          /\ Bytes([d EXCEPT ![last] = Append(@, 0)]) > budget
           /\ Bytes(d) <= budget

\* Whether nothing has to be cut.
Ample == Bytes([k \in Sections |-> [i \in 1 .. Limits[k] |-> 0]]) <= budget

\* No message left the window before a ledger had it.
WindowsOverlap ==
    \A j \in Trusted \cup {Len(messages) + 1} :
        j - 1 - Max({i \in Trusted : i < j} \cup {0}) <= LedgerWindow

\* The chain of ledgers carries what one ledger of the whole history would have, also of
\* messages that are no longer read (README.md:309), as long as no value comes again; and a
\* todo that the session still lists has the status it has there.
ChainCovers ==
    messages # <<>> => \E d \in {Merged} :
        LET turns == ValuesOf(messages, "user")
            results(status) == Outcomes(ValuesOf(messages, "tool"), status)
            chained(k, values, limit) == IsInjective(values) => d[k] = LastOf(values, limit)
        IN /\ Ample /\ WindowsOverlap =>
                /\ chained("recent_requests", turns, Min({RequestTurns, Limits.recent_requests}))
                /\ chained("constraints", RulesOf(turns), Limits.constraints)
                /\ chained("evidence", results("completed"), Limits.evidence)
                /\ chained("errors", results("error"), Limits.errors)
           /\ \A t \in ToSet(d.todos) : todos[t.id] \in {t.status, "absent"}

\* The requests of the newest tail_turns turns are in the ledger when nothing has to be cut
\* (README.md:261).
NewestRequestsKept ==
    \E d \in {Merged} :
        Ample => ToSet(LastOf(ValuesOf(Window, "user"),
                              Min({RequestTurns, Limits.recent_requests})))
                   \subseteq ToSet(d.recent_requests)
=============================================================================
