-------------------------- MODULE AttemptStoreOps --------------------------
(***************************************************************************)
(* AttemptStore driven by arbitrary calls under a clock that may step      *)
(* back, next to the JavaScript Map that state.ts keeps, written out as a  *)
(* sequence of entries in insertion order.                                 *)
(***************************************************************************)
EXTENDS AttemptStore, Listing

CONSTANTS
    MaxClock,   \* bound: the largest Date.now()
    MaxSets     \* bound: calls of set

\* A Map tells a key that is not there from every attempt.
ASSUME OpsAssumption ==
    /\ MaxClock \in Nat /\ MaxSets \in Nat
    /\ NoAttempt \notin [createdAt : Nat]

VARIABLES
    attempts,   \* the store under check
    entries,    \* the Map: a sequence of [sessionID, createdAt]
    clock,      \* Date.now()
    sets        \* the number of calls of set, for the bound

opsVars == <<attempts, entries, clock, sets>>

\* The Map after the loops of cleanupExpired, delete and the eviction in set.
Entry == [sessionID : Sessions, createdAt : Nat]
MapCleanup(es, time) == Keep(es, {e \in Entry : time - e.createdAt < TTL})
MapDelete(es, s) == Keep(es, {e \in Entry : e.sessionID # s})
MapEvict(es) == IF Len(es) <= MaxAttempts THEN es ELSE SubSeq(es, Len(es) - MaxAttempts + 1, Len(es))
MapSet(es, s, time) ==
    MapEvict(Append(MapDelete(MapCleanup(es, time), s), [sessionID |-> s, createdAt |-> time]))

OpsInit ==
    /\ attempts = EmptyStore
    /\ entries = <<>>
    /\ clock = 0
    /\ sets = 0

\* createdAt was read from the clock before the call, at most one tick ago.
CallSet(s) ==
    /\ sets < MaxSets
    /\ \E time \in {clock, clock - 1} \cap Nat :
        /\ attempts' = Set(attempts, s, [createdAt |-> time])
        /\ entries' = MapSet(entries, s, time)
    /\ sets' = sets + 1
    /\ UNCHANGED clock

\* get, and the events that only clean up.
CallCleanup ==
    /\ attempts' = CleanupExpired(attempts, clock)
    /\ entries' = MapCleanup(entries, clock)
    /\ UNCHANGED <<clock, sets>>

CallDelete(s) ==
    /\ attempts' = Delete(attempts, s)
    /\ entries' = MapDelete(entries, s)
    /\ UNCHANGED <<clock, sets>>

CallClear ==
    /\ attempts' = EmptyStore
    /\ entries' = <<>>
    /\ UNCHANGED <<clock, sets>>

\* Date.now() is not monotonic.
ClockMoves ==
    /\ clock' \in {clock - 1, clock + 1} \cap (0 .. MaxClock)
    /\ UNCHANGED <<attempts, entries, sets>>

OpsNext ==
    \/ \E s \in Sessions : CallSet(s) \/ CallDelete(s)
    \/ CallCleanup
    \/ CallClear
    \/ ClockMoves

OpsSpec == OpsInit /\ [][OpsNext]_opsVars

----------------------------------------------------------------------------
(* Properties *)

OpsTypeOK ==
    /\ attempts \in Stores([createdAt : Nat])
    /\ entries \in Seq(Entry)
    /\ clock \in Nat
    /\ sets \in 0 .. MaxSets

\* The insertion order is a strict total order on the live sessions (state.ts: the
\* iteration order of the Map), whatever was deleted, expired or set again.
OrderTotal ==
    /\ attempts.older \subseteq Live(attempts) \X Live(attempts)
    /\ \A s, t \in Live(attempts) :
        /\ s # t => (<<s, t>> \in attempts.older <=> <<t, s>> \notin attempts.older)
        /\ <<s, s>> \notin attempts.older
    /\ \A s, t, u \in Live(attempts) :
        <<s, t>> \in attempts.older /\ <<t, u>> \in attempts.older => <<s, u>> \in attempts.older

\* The store holds what the Map holds, in the Map's order, and no more than the cap.
StoreIsTheMap ==
    /\ Len(entries) <= MaxAttempts
    /\ Live(attempts) = {entries[i].sessionID : i \in DOMAIN entries}
    /\ \A i \in DOMAIN entries : attempts.map[entries[i].sessionID].createdAt = entries[i].createdAt
    /\ \A i, j \in DOMAIN entries :
        i < j <=> <<entries[i].sessionID, entries[j].sessionID>> \in attempts.older
=============================================================================
