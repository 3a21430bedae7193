------------------------- MODULE AttemptStore_proofs -------------------------
(***************************************************************************)
(* What the operations of the attempt store keep, for any sessions, any    *)
(* cap and any time to live.                                               *)
(***************************************************************************)
EXTENDS AttemptStore, FiniteSetTheorems, TLAPS

\* With attempts in Values, the store b is the store a after some removals.
Shrinks(Values, a, b) ==
    /\ b \in Stores(Values)
    /\ \A s \in Sessions : b.map[s] \in {a.map[s], NoAttempt}

LEMMA KeepOnlyShrinks ==
    ASSUME NEW Values, NEW st \in Stores(Values), NEW K
    PROVE  Shrinks(Values, st, KeepOnly(st, K))
BY DEF Stores, KeepOnly, Shrinks

LEMMA CleanupShrinks ==
    ASSUME NEW Values, NEW st \in Stores(Values), NEW time
    PROVE  Shrinks(Values, st, CleanupExpired(st, time))
BY KeepOnlyShrinks DEF CleanupExpired

\* A delete removes the attempt of its session.
LEMMA DeleteShrinks ==
    ASSUME NEW Values, NEW st \in Stores(Values), NEW s \in Sessions
    PROVE  Shrinks(Values, st, Delete(st, s)) /\ Delete(st, s).map[s] = NoAttempt
<1>1. Shrinks(Values, st, Delete(st, s))
  BY KeepOnlyShrinks DEF Delete
<1>2. Delete(st, s).map[s] = NoAttempt
  BY DEF Delete, KeepOnly
<1> QED BY <1>1, <1>2

LEMMA InsertStore ==
    ASSUME NEW Values, NEW st \in Stores(Values), NEW s \in Sessions, NEW a \in Values
    PROVE  /\ Insert(st, s, a) \in Stores(Values)
           /\ Insert(st, s, a).map = [st.map EXCEPT ![s] = a]
           /\ \A t \in Sessions : <<s, t>> \notin Insert(st, s, a).older
<1> DEFINE others == Live(st) \ {s}
           new == Insert(st, s, a)
<1>1. new.map = [st.map EXCEPT ![s] = a]
  BY DEF Insert
<1>2. new.older = {p \in st.older : p[1] \in others /\ p[2] \in others} \cup (others \X {s})
  BY DEF Insert
<1>3. new.older \in SUBSET (Sessions \X Sessions)
  BY <1>2 DEF Stores, Live
<1>4. \A t \in Sessions : <<s, t>> \notin new.older
  BY <1>2
<1>5. new \in Stores(Values)
  BY <1>1, <1>3 DEF Stores, Insert
<1> QED BY <1>1, <1>4, <1>5

\* set keeps the attempt it is given and changes no other session's but to remove it.
LEMMA SetStore ==
    ASSUME NEW Values, NEW st \in Stores(Values), NEW s \in Sessions, NEW a \in Values
    PROVE  /\ Set(st, s, a) \in Stores(Values)
           /\ Set(st, s, a).map[s] \in {a, NoAttempt}
           /\ a # NoAttempt => Set(st, s, a).map[s] = a
           /\ \A t \in Sessions \ {s} : Set(st, s, a).map[t] \in {st.map[t], NoAttempt}
<1> DEFINE clean == CleanupExpired(st, a.createdAt)
           new == Insert(clean, s, a)
<1>1. Shrinks(Values, st, clean)
  BY CleanupShrinks
<1>2. /\ new \in Stores(Values)
      /\ new.map = [clean.map EXCEPT ![s] = a]
      /\ \A t \in Sessions : <<s, t>> \notin new.older
  BY <1>1, InsertStore DEF Shrinks
<1>3. Shrinks(Values, new, Set(st, s, a))
  BY <1>2, KeepOnlyShrinks DEF Set, EvictOldest
<1>4. new.map[s] = a /\ \A t \in Sessions \ {s} : new.map[t] = clean.map[t]
  BY <1>1, <1>2 DEF Stores, Shrinks
<1>5. ASSUME a # NoAttempt PROVE Set(st, s, a).map[s] = a
  <2>1. {t \in Live(new) : <<s, t>> \in new.older} = {}
    BY <1>2 DEF Live
  <2>2. Cardinality({t \in Live(new) : <<s, t>> \in new.older}) < MaxAttempts
    <3>1. Cardinality({t \in Live(new) : <<s, t>> \in new.older}) = 0
      BY <2>1, FS_EmptySet, Zenon
    <3> QED BY <3>1, StoreAssumption
  <2>3. s \in Live(new)
    BY <1>4, <1>5 DEF Live
  <2> QED BY <1>4, <2>2, <2>3 DEF Set, EvictOldest, KeepOnly
<1> QED BY <1>1, <1>3, <1>4, <1>5 DEF Shrinks

LEMMA MutateStore ==
    ASSUME NEW Values, NEW st \in Stores(Values), NEW s \in Sessions, NEW a \in Values
    PROVE  /\ Mutate(st, s, a) \in Stores(Values)
           /\ Mutate(st, s, a).map = [st.map EXCEPT ![s] = a]
BY DEF Stores, Mutate

LEMMA MutateAny ==
    ASSUME NEW Values, NEW st \in Stores(Values), NEW s \in Sessions, NEW a
    PROVE  Mutate(st, s, a).map[s] = a
BY DEF Stores, Mutate

----------------------------------------------------------------------------
(* The insertion order and the cap *)

\* The order of a Map: a strict total order on the live sessions.
Ordered(st) ==
    /\ st.older \subseteq Live(st) \X Live(st)
    /\ \A s, t \in Live(st) :
        /\ s # t => (<<s, t>> \in st.older <=> <<t, s>> \notin st.older)
        /\ <<s, s>> \notin st.older
    /\ \A s, t, u \in Live(st) :
        <<s, t>> \in st.older /\ <<t, u>> \in st.older => <<s, u>> \in st.older

LEMMA EmptyOrdered == Ordered(EmptyStore)
BY DEF Ordered, EmptyStore, Live

LEMMA KeepOnlyOrdered ==
    ASSUME NEW st, Ordered(st), NEW K PROVE Ordered(KeepOnly(st, K))
<1> DEFINE new == KeepOnly(st, K)
<1>1. Live(new) = Live(st) \cap K
  BY DEF Live, KeepOnly
<1>2. new.older = {p \in st.older : p[1] \in K /\ p[2] \in K}
  BY DEF KeepOnly
<1>3. new.older \subseteq Live(new) \X Live(new)
  BY <1>1, <1>2 DEF Ordered
<1>4. \A s, t \in Live(new) : <<s, t>> \in new.older <=> <<s, t>> \in st.older
  BY <1>1, <1>2
<1> QED BY <1>1, <1>3, <1>4 DEF Ordered

LEMMA InsertOrdered ==
    ASSUME NEW Values, NEW st \in Stores(Values), Ordered(st), NEW s \in Sessions,
           NEW a, a # NoAttempt
    PROVE  Ordered(Insert(st, s, a))
<1> DEFINE new == Insert(st, s, a)
           others == Live(st) \ {s}
<1>1. Live(new) = others \cup {s}
  BY DEF Live, Insert, Stores
<1>2. new.older = {p \in st.older : p[1] \in others /\ p[2] \in others} \cup (others \X {s})
  BY DEF Insert
<1>3. new.older \subseteq Live(new) \X Live(new)
  BY <1>1, <1>2 DEF Ordered
<1>4. \A t, u \in others : <<t, u>> \in new.older <=> <<t, u>> \in st.older
  BY <1>2
<1>5. \A t \in others : <<t, s>> \in new.older
  BY <1>2
<1>6. \A t \in Live(new) : <<s, t>> \notin new.older
  BY <1>2
<1> HIDE DEF new
<1>7. \A t, u \in Live(new) :
        /\ t # u => (<<t, u>> \in new.older <=> <<u, t>> \notin new.older)
        /\ <<t, t>> \notin new.older
  BY <1>1, <1>4, <1>5, <1>6 DEF Ordered
<1>8. \A t, u, v \in Live(new) :
        <<t, u>> \in new.older /\ <<u, v>> \in new.older => <<t, v>> \in new.older
  BY <1>1, <1>4, <1>5, <1>6 DEF Ordered
<1> QED BY <1>3, <1>7, <1>8 DEF Ordered, new

LEMMA SetOrdered ==
    ASSUME NEW Values, NEW st \in Stores(Values), Ordered(st), NEW s \in Sessions,
           NEW a, a # NoAttempt
    PROVE  Ordered(Set(st, s, a))
<1>1. CleanupExpired(st, a.createdAt) \in Stores(Values)
  BY CleanupShrinks DEF Shrinks
<1>2. Ordered(CleanupExpired(st, a.createdAt))
  BY KeepOnlyOrdered DEF CleanupExpired
<1> QED BY <1>1, <1>2, InsertOrdered, KeepOnlyOrdered DEF Set, EvictOldest

----------------------------------------------------------------------------

\* What the eviction loop deletes was inserted before everything it leaves (state.ts: it
\* deletes the first key of the Map until the size is the cap).
THEOREM OldestGoFirst ==
    ASSUME NEW st, Ordered(st), IsFiniteSet(Live(st)),
           NEW s \in Live(st), s \notin Live(EvictOldest(st)),
           NEW t \in Live(EvictOldest(st))
    PROVE  <<s, t>> \in st.older
<1> DEFINE After(u) == {v \in Live(st) : <<u, v>> \in st.older}
<1>1. /\ ~(Cardinality(After(s)) < MaxAttempts) /\ Cardinality(After(t)) < MaxAttempts
      /\ t \in Live(st) /\ s # t
  BY DEF EvictOldest, KeepOnly, Live
<1>2. SUFFICES ASSUME <<s, t>> \notin st.older PROVE FALSE
  OBVIOUS
<1>3. <<t, s>> \in st.older
  BY <1>1, <1>2 DEF Ordered
<1>4. After(s) \subseteq After(t) /\ After(t) \subseteq Live(st)
  BY <1>1, <1>3 DEF Ordered
<1>5. /\ IsFiniteSet(After(t)) /\ Cardinality(After(t)) \in Nat
      /\ Cardinality(After(s)) \in Nat /\ Cardinality(After(s)) <= Cardinality(After(t))
  <2> HIDE DEF After
  <2>1. IsFiniteSet(After(t))
    BY <1>4, FS_Subset
  <2>2. IsFiniteSet(After(s)) /\ Cardinality(After(s)) <= Cardinality(After(t))
    BY <1>4, <2>1, FS_Subset
  <2> QED BY <2>1, <2>2, FS_CardinalityType
<1> HIDE DEF After
<1> QED BY <1>1, <1>5, StoreAssumption

\* A store within its cap.
Capped(st) == IsFiniteSet(Live(st)) /\ Cardinality(Live(st)) <= MaxAttempts

\* The sessions that were set after u.
After(st, u) == {v \in Live(st) : <<u, v>> \in st.older}

LEMMA AfterFinite ==
    ASSUME NEW st, IsFiniteSet(Live(st)), NEW u
    PROVE  IsFiniteSet(After(st, u)) /\ Cardinality(After(st, u)) \in Nat
<1>1. After(st, u) \in SUBSET Live(st)
  BY DEF After
<1>2. IsFiniteSet(After(st, u))
  BY <1>1, FS_Subset
<1> QED BY <1>2, FS_CardinalityType

LEMMA EvictLive ==
    ASSUME NEW st
    PROVE  Live(EvictOldest(st)) = {s \in Live(st) : Cardinality(After(st, s)) < MaxAttempts}
BY DEF EvictOldest, KeepOnly, Live, After

\* The eviction loop leaves no more than the cap: the entries it leaves have different
\* numbers of entries after them, all below the cap.
LEMMA EvictCaps ==
    ASSUME NEW st, Ordered(st), IsFiniteSet(Live(st))
    PROVE  Capped(EvictOldest(st))
<1> DEFINE K == Live(EvictOldest(st))
           rank == [s \in K |-> Cardinality(After(st, s))]
<1>1. K = {s \in Live(st) : Cardinality(After(st, s)) < MaxAttempts}
  BY EvictLive
<1>2. rank \in [K -> 0 .. MaxAttempts - 1]
  BY <1>1, AfterFinite, StoreAssumption
<1>3. ASSUME NEW s \in Live(st), NEW t \in Live(st), <<s, t>> \in st.older
      PROVE  Cardinality(After(st, s)) # Cardinality(After(st, t))
  <2>1. After(st, t) \in SUBSET After(st, s)
    BY <1>3 DEF Ordered, After
  <2>2. t \in After(st, s) /\ t \notin After(st, t)
    BY <1>3 DEF Ordered, After
  <2> QED BY <2>1, <2>2, AfterFinite, FS_Subset
<1>4. ASSUME NEW s \in K, NEW t \in K, s # t PROVE rank[s] # rank[t]
  <2>1. s \in Live(st) /\ t \in Live(st)
    BY <1>1
  <2>2. <<s, t>> \in st.older \/ <<t, s>> \in st.older
    BY <1>4, <2>1 DEF Ordered
  <2>3. Cardinality(After(st, s)) # Cardinality(After(st, t))
    BY <1>3, <2>1, <2>2
  <2> QED BY <2>3
<1>5. rank \in Injection(K, 0 .. MaxAttempts - 1)
  <2> HIDE DEF rank
  <2> QED BY <1>2, <1>4 DEF Injection, IsInjective
<1>6. IsFiniteSet(0 .. MaxAttempts - 1) /\ Cardinality(0 .. MaxAttempts - 1) = MaxAttempts
  BY FS_Interval, StoreAssumption
<1> HIDE DEF rank
<1>7. IsFiniteSet(K) /\ Cardinality(K) <= MaxAttempts
  <2> HIDE DEF K
  <2> QED BY <1>5, <1>6, FS_Injection
<1> QED BY <1>7 DEF Capped

\* When the loop deletes the first key of a Map one above the cap, it leaves it full.
LEMMA EvictFills ==
    ASSUME NEW st, Ordered(st), IsFiniteSet(Live(st)), Cardinality(Live(st)) <= MaxAttempts + 1,
           NEW s \in Live(st), s \notin Live(EvictOldest(st))
    PROVE  Cardinality(Live(EvictOldest(st))) >= MaxAttempts
<1> DEFINE rest == Live(st) \ {s}
<1>1. /\ IsFiniteSet(rest) /\ Cardinality(rest) \in Nat
      /\ Cardinality(rest) <= MaxAttempts
  <2>1. IsFiniteSet(rest) /\ Cardinality(rest) = Cardinality(Live(st)) - 1
    BY FS_RemoveElement
  <2>2. Cardinality(Live(st)) \in Nat
    BY FS_CardinalityType
  <2> QED BY <2>1, <2>2, FS_CardinalityType, StoreAssumption
<1>2. Cardinality(After(st, s)) >= MaxAttempts
  BY EvictLive, AfterFinite, StoreAssumption
<1>3. After(st, s) \in SUBSET rest
  BY DEF After, Ordered
<1>4. After(st, s) = rest /\ Cardinality(rest) = MaxAttempts
  <2> HIDE DEF rest
  <2>1. Cardinality(After(st, s)) <= Cardinality(rest) /\ Cardinality(After(st, s)) \in Nat
    BY <1>1, <1>3, FS_Subset, AfterFinite
  <2>2. Cardinality(After(st, s)) = Cardinality(rest) /\ Cardinality(rest) = MaxAttempts
    BY <1>1, <1>2, <2>1, StoreAssumption
  <2> QED BY <1>1, <1>3, <2>2, FS_Subset
<1>5. ASSUME NEW t \in rest PROVE Cardinality(After(st, t)) < MaxAttempts
  <2>1. After(st, t) \in SUBSET (rest \ {t})
    BY <1>4, <1>5 DEF After, Ordered
  <2>2. IsFiniteSet(rest \ {t}) /\ Cardinality(rest \ {t}) = Cardinality(rest) - 1
    BY <1>1, <1>5, FS_RemoveElement
  <2>3. Cardinality(After(st, t)) <= Cardinality(rest \ {t}) /\ Cardinality(After(st, t)) \in Nat
    BY <2>1, <2>2, FS_Subset, AfterFinite
  <2> QED BY <1>4, <2>2, <2>3, StoreAssumption
<1>6. rest \in SUBSET Live(EvictOldest(st))
  BY <1>5, EvictLive
<1>7. IsFiniteSet(Live(EvictOldest(st)))
  BY EvictCaps DEF Capped
<1> HIDE DEF rest
<1> QED BY <1>4, <1>6, <1>7, FS_Subset, FS_CardinalityType, StoreAssumption

\* A store between two calls: typed, ordered and within its cap.
Managed(Values, st) == st \in Stores(Values) /\ Ordered(st) /\ Capped(st)

LEMMA EmptyManaged ==
    ASSUME NEW Values PROVE Managed(Values, EmptyStore)
<1>1. Live(EmptyStore) = {} /\ EmptyStore \in Stores(Values)
  BY DEF EmptyStore, Live, Stores
<1>2. Capped(EmptyStore)
  BY <1>1, FS_EmptySet, StoreAssumption DEF Capped
<1> QED BY <1>1, <1>2, EmptyOrdered DEF Managed

LEMMA KeepOnlyManaged ==
    ASSUME NEW Values, NEW st, Managed(Values, st), NEW K
    PROVE  Managed(Values, KeepOnly(st, K))
<1>1. Live(KeepOnly(st, K)) \in SUBSET Live(st)
  BY DEF Live, KeepOnly
<1>2. /\ IsFiniteSet(Live(KeepOnly(st, K)))
      /\ Cardinality(Live(KeepOnly(st, K))) <= Cardinality(Live(st))
  BY <1>1, FS_Subset DEF Managed, Capped
<1>3. Capped(KeepOnly(st, K))
  BY <1>2, FS_CardinalityType, StoreAssumption DEF Managed, Capped
<1> QED BY <1>3, KeepOnlyShrinks, KeepOnlyOrdered DEF Managed, Shrinks

LEMMA DeleteManaged ==
    ASSUME NEW Values, NEW st, Managed(Values, st), NEW s \in Sessions
    PROVE  /\ Managed(Values, Delete(st, s))
           /\ \A t \in Sessions \ {s} : Delete(st, s).map[t] = st.map[t]
<1>1. \A t \in Sessions \ {s} : Delete(st, s).map[t] = st.map[t]
  BY DEF Delete, KeepOnly
<1> QED BY <1>1, KeepOnlyManaged DEF Delete

\* cleanupExpired removes nothing that has time to live.
LEMMA CleanupManaged ==
    ASSUME NEW Values, NEW st, Managed(Values, st), NEW time
    PROVE  /\ Managed(Values, CleanupExpired(st, time))
           /\ \A t \in Sessions : CleanupExpired(st, time).map[t] # st.map[t] =>
                /\ CleanupExpired(st, time).map[t] = NoAttempt
                /\ Expired(st.map[t], time)
<1>1. \A t \in Sessions : CleanupExpired(st, time).map[t] # st.map[t] =>
        CleanupExpired(st, time).map[t] = NoAttempt /\ Expired(st.map[t], time)
  BY DEF CleanupExpired, KeepOnly, Live
<1> QED BY <1>1, KeepOnlyManaged DEF CleanupExpired

\* set removes another session's attempt only when it expired, or to make room in a
\* store that is full.
LEMMA SetManaged ==
    ASSUME NEW Values, NEW st, Managed(Values, st), NEW s \in Sessions,
           NEW a \in Values, a # NoAttempt
    PROVE  /\ Managed(Values, Set(st, s, a))
           /\ Set(st, s, a).map[s] = a
           /\ \A t \in Sessions \ {s} : Set(st, s, a).map[t] # st.map[t] =>
                /\ Set(st, s, a).map[t] = NoAttempt
                /\ \/ Expired(st.map[t], a.createdAt)
                   \/ Cardinality(Live(Set(st, s, a))) >= MaxAttempts
<1> DEFINE clean == CleanupExpired(st, a.createdAt)
           new == Insert(clean, s, a)
<1>1. Managed(Values, clean)
  BY CleanupManaged
<1>2. /\ new \in Stores(Values) /\ Ordered(new)
      /\ new.map = [clean.map EXCEPT ![s] = a]
  BY <1>1, InsertStore, InsertOrdered DEF Managed
<1>3. Live(new) = Live(clean) \cup {s}
  BY <1>1, <1>2 DEF Live, Managed, Stores
<1>4. IsFiniteSet(Live(new)) /\ Cardinality(Live(new)) <= MaxAttempts + 1
  <2>1. IsFiniteSet(Live(clean)) /\ Cardinality(Live(clean)) \in Nat
        /\ Cardinality(Live(clean)) <= MaxAttempts
    BY <1>1, FS_CardinalityType DEF Managed, Capped
  <2>2. /\ IsFiniteSet(Live(clean) \cup {s})
        /\ Cardinality(Live(clean) \cup {s}) \in {Cardinality(Live(clean)), Cardinality(Live(clean)) + 1}
    BY <2>1, FS_AddElement, Zenon
  <2> QED BY <1>3, <2>1, <2>2, FS_CardinalityType, StoreAssumption
<1>5. Set(st, s, a) = EvictOldest(new)
  BY DEF Set
<1> HIDE DEF new
<1>6. Managed(Values, Set(st, s, a))
  <2>1. Set(st, s, a) \in Stores(Values)
    BY SetStore DEF Managed
  <2>2. Ordered(EvictOldest(new))
    BY <1>2, KeepOnlyOrdered DEF EvictOldest
  <2> QED BY <1>2, <1>4, <1>5, <2>1, <2>2, EvictCaps DEF Managed
<1>7. ASSUME NEW t \in Sessions \ {s}, Set(st, s, a).map[t] # st.map[t]
      PROVE  /\ Set(st, s, a).map[t] = NoAttempt
             /\ \/ Expired(st.map[t], a.createdAt)
                \/ Cardinality(Live(Set(st, s, a))) >= MaxAttempts
  <2>1. Set(st, s, a).map[t] = NoAttempt
    BY <1>7, SetStore DEF Managed
  <2>2. CASE clean.map[t] # st.map[t]
    BY <2>1, <2>2, CleanupManaged
  <2>3. CASE clean.map[t] = st.map[t]
    <3>1. t \in Live(new) /\ t \notin Live(EvictOldest(new))
      BY <1>1, <1>2, <1>5, <1>7, <2>1, <2>3 DEF Live, Managed, Stores
    <3>2. Cardinality(Live(EvictOldest(new))) >= MaxAttempts
      BY <1>2, <1>4, <3>1, EvictFills
    <3> QED BY <1>5, <2>1, <3>2
  <2> QED BY <2>2, <2>3
<1> QED BY <1>6, <1>7, SetStore DEF Managed

LEMMA MutateManaged ==
    ASSUME NEW Values, NoAttempt \notin Values, NEW st, Managed(Values, st),
           NEW s \in Sessions, st.map[s] # NoAttempt, NEW a \in Values
    PROVE  /\ Managed(Values, Mutate(st, s, a))
           /\ \A t \in Sessions \ {s} : Mutate(st, s, a).map[t] = st.map[t]
           /\ Live(Mutate(st, s, a)) = Live(st)
<1>1. /\ Mutate(st, s, a) \in Stores(Values)
      /\ Mutate(st, s, a).map = [st.map EXCEPT ![s] = a]
      /\ Mutate(st, s, a).older = st.older
  BY MutateStore DEF Managed, Mutate, Stores
<1>2. Live(Mutate(st, s, a)) = Live(st)
  BY <1>1 DEF Live, Managed, Stores
<1>3. Ordered(Mutate(st, s, a)) /\ Capped(Mutate(st, s, a))
  BY <1>1, <1>2 DEF Ordered, Capped, Managed
<1> QED BY <1>1, <1>2, <1>3 DEF Managed, Stores
=============================================================================
