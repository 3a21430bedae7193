--------------------------- MODULE AttemptStore ---------------------------
(***************************************************************************)
(* The process-local attempt table of src/src/state.ts (AttemptStore and   *)
(* VccAttemptStore): a JavaScript Map from Session ID to attempt, with a   *)
(* time to live and a size cap that evicts in insertion order.             *)
(*                                                                         *)
(* A store is a record: map gives each session its attempt or NoAttempt,   *)
(* and older is the insertion order of the Map, a strict total order on    *)
(* the live keys: <<a, b>> \in older when a was inserted before b.         *)
(*                                                                         *)
(* VccAttemptStore is keyed by attempt ID, but its set() removes every     *)
(* other attempt of the same session, so at most one attempt per session   *)
(* is live and getSession() reads it: keyed by session, the two stores     *)
(* have the same operations.                                               *)
(***************************************************************************)
EXTENDS Integers, FiniteSets

CONSTANTS
    Sessions,       \* Session IDs
    NoAttempt,      \* what Map.get returns for a key that is not there
    TTL,            \* ATTEMPT_TTL_MS (or VCC_ATTEMPT_TTL_MS), in ticks
    MaxAttempts     \* MAX_ATTEMPTS (or MAX_VCC_ATTEMPTS)

ASSUME StoreAssumption ==
    /\ TTL \in Nat \ {0}
    /\ MaxAttempts \in Nat \ {0}

Stores(Attempt) ==
    [map : [Sessions -> Attempt \cup {NoAttempt}], older : SUBSET (Sessions \X Sessions)]

EmptyStore == [map |-> [s \in Sessions |-> NoAttempt], older |-> {}]

Live(st) == {s \in Sessions : st.map[s] # NoAttempt}

\* The store with every key outside K removed; Map.delete keeps the order of the rest.
KeepOnly(st, K) ==
    [map   |-> [s \in Sessions |-> IF s \in K THEN st.map[s] ELSE NoAttempt],
     older |-> {p \in st.older : p[1] \in K /\ p[2] \in K}]

\* Mutant: the entry stays, with a creation time that has always expired.
DeleteLazily(st, s) ==
    IF st.map[s] = NoAttempt THEN st ELSE [st EXCEPT !.map[s].createdAt = -TTL]

Delete(st, s) == KeepOnly(st, Sessions \ {s})

\* A clock that stepped back makes the age negative: such an attempt stays.
Expired(a, now) == now - a.createdAt >= TTL

CleanupExpired(st, now) == KeepOnly(st, {s \in Live(st) : ~Expired(st.map[s], now)})

\* Mutant: Map.set without the delete, the key keeps its place in the order.
InsertInPlace(st, s, a) ==
    [map   |-> [st.map EXCEPT ![s] = a],
     older |-> IF s \in Live(st) THEN st.older ELSE st.older \cup (Live(st) \X {s})]

\* Map.delete followed by Map.set: the key moves to the end of the order.
Insert(st, s, a) ==
    LET others == Live(st) \ {s} IN
    [map   |-> [st.map EXCEPT ![s] = a],
     older |-> {p \in st.older : p[1] \in others /\ p[2] \in others} \cup (others \X {s})]

\* Mutant: the loop runs while the size is not below the cap.
EvictAtCap(st) ==
    KeepOnly(st, {s \in Live(st) : Cardinality({t \in Live(st) : <<s, t>> \in st.older}) < MaxAttempts - 1})

\* The loop that deletes the first key while the size is above the cap.
EvictOldest(st) ==
    KeepOnly(st, {s \in Live(st) : Cardinality({t \in Live(st) : <<s, t>> \in st.older}) < MaxAttempts})

Set(st, s, a) == EvictOldest(Insert(CleanupExpired(st, a.createdAt), s, a))

\* Assigning a field of the attempt object that the Map holds.
Mutate(st, s, a) == [st EXCEPT !.map[s] = a]
===========================================================================
