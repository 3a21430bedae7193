--------------------------- MODULE Sessions_proofs ---------------------------
(***************************************************************************)
(* What sessions share, for any number of them.  The order of the attempt  *)
(* store is the insertion order of a Map under every sequence of calls and *)
(* every clock, for any cap and time to live, and holds what the Map does. *)
(* Sessions that pin and unpin at the same time lose nothing of the pin    *)
(* file, whatever the Pi sessions do besides and wherever another session  *)
(* dies.  On the branch of a Pi session the newest summary and the live    *)
(* messages are every message and share none, the tail of a compaction is  *)
(* whole, and recall handles last, for any messages, compactions and       *)
(* excursions in the tree.  The ledger of a compaction fits its byte limit *)
(* and gives up for that what is least important, and no more; the chain   *)
(* of them carries what one ledger of the whole session would hold.        *)
(***************************************************************************)
EXTENDS AttemptStoreOps, PiSession, LedgerChain, AttemptStore_proofs, FiniteSetTheorems, Listing_proofs

----------------------------------------------------------------------------
(* The order of the attempt store. *)

Dated == [createdAt : Nat]

OrderInv == attempts \in Stores(Dated) /\ Ordered(attempts)

LEMMA OrderStep == OrderInv /\ [OpsNext]_opsVars => OrderInv'
<1> SUFFICES ASSUME OrderInv, [OpsNext]_opsVars PROVE OrderInv'
  OBVIOUS
<1> USE DEF OrderInv
<1>1. ASSUME NEW s \in Sessions, CallSet(s) PROVE OrderInv'
  <2>1. PICK time \in Nat : attempts' = Set(attempts, s, [createdAt |-> time])
    BY <1>1 DEF CallSet
  <2>2. [createdAt |-> time] \in Dated /\ [createdAt |-> time] # NoAttempt
    BY OpsAssumption DEF Dated
  <2> QED BY <2>1, <2>2, SetStore, SetOrdered
<1>2. ASSUME NEW s \in Sessions, CallDelete(s) PROVE OrderInv'
  BY <1>2, DeleteShrinks, KeepOnlyOrdered DEF CallDelete, Delete, Shrinks
<1>3. CASE CallCleanup
  BY <1>3, CleanupShrinks, KeepOnlyOrdered DEF CallCleanup, CleanupExpired, Shrinks
<1>4. CASE CallClear
  <2>1. EmptyStore \in Stores(Dated)
    BY DEF EmptyStore, Stores
  <2> QED BY <1>4, <2>1, EmptyOrdered DEF CallClear
<1>5. CASE ClockMoves \/ UNCHANGED opsVars
  BY <1>5 DEF ClockMoves, opsVars
<1> QED BY <1>1, <1>2, <1>3, <1>4, <1>5 DEF OpsNext

\* The insertion order stays a strict total order on the live sessions whatever is set
\* again, deleted, expired or evicted, and wherever the clock goes (state.ts: the Map).
THEOREM InsertionOrder == OpsSpec => []OrderTotal
<1>1. OpsInit => OrderInv
  <2>1. EmptyStore \in Stores(Dated)
    BY DEF EmptyStore, Stores
  <2> QED BY <2>1, EmptyOrdered DEF OpsInit, OrderInv
<1>2. OrderInv => OrderTotal
  BY DEF OrderInv, Ordered, OrderTotal
<1> QED BY <1>1, <1>2, OrderStep, PTL DEF OpsSpec

----------------------------------------------------------------------------
(* The attempt store and the Map. *)

\* The sequence of entries es is the store st: its sessions, their times and their order.
IsMap(st, es) ==
    /\ es \in Seq(Entry)
    /\ \A i \in 1 .. Len(es) :
        /\ es[i].sessionID \in Live(st)
        /\ st.map[es[i].sessionID].createdAt = es[i].createdAt
    /\ \A s \in Live(st) : \E i \in 1 .. Len(es) : es[i].sessionID = s
    /\ \A i, j \in 1 .. Len(es) : i < j <=> <<es[i].sessionID, es[j].sessionID>> \in st.older

\* Removing sessions from both.
LEMMA KeepIsMap ==
    ASSUME NEW st, NEW es, IsMap(st, es), NEW K \in SUBSET Sessions, NEW S,
           \A i \in 1 .. Len(es) : es[i] \in S <=> es[i].sessionID \in K
    PROVE  IsMap(KeepOnly(st, K), Keep(es, S)) /\ Len(Keep(es, S)) <= Len(es)
<1> DEFINE new == KeepOnly(st, K)
           r == Keep(es, S)
<1>1. es \in Seq(Entry) /\ Len(es) \in Nat
  BY DEF IsMap
<1>2. r \in Seq(Entry) /\ \E place : IsPlaces(es, S, Len(es), r, place)
  BY <1>1, KeepPlaces
<1>3. PICK place : IsPlaces(es, S, Len(es), r, place)
  BY <1>2
<1>4. Live(new) = Live(st) \cap K /\ \A s \in K : new.map[s] = st.map[s]
  BY DEF Live, KeepOnly
<1>5. new.older = {p \in st.older : p[1] \in K /\ p[2] \in K}
  BY DEF KeepOnly
<1> HIDE DEF new, r
<1>6. ASSUME NEW i \in 1 .. Len(r)
      PROVE  place[i] \in 1 .. Len(es) /\ r[i] = es[place[i]] /\ r[i].sessionID \in K
  <2>1. place[i] \in 1 .. Len(es) /\ r[i] = es[place[i]] /\ r[i] \in S
    BY <1>3 DEF IsPlaces
  <2> QED BY <2>1
<1>7. \A i \in 1 .. Len(r) : r[i].sessionID \in Live(new)
                             /\ new.map[r[i].sessionID].createdAt = r[i].createdAt
  <2>1. \A k \in 1 .. Len(es) : es[k].sessionID \in Live(st)
                              /\ st.map[es[k].sessionID].createdAt = es[k].createdAt
    BY DEF IsMap
  <2> SUFFICES ASSUME NEW i \in 1 .. Len(r)
               PROVE  r[i].sessionID \in Live(new)
                      /\ new.map[r[i].sessionID].createdAt = r[i].createdAt
    OBVIOUS
  <2>2. place[i] \in 1 .. Len(es) /\ r[i] = es[place[i]] /\ r[i].sessionID \in K
    BY <1>6
  <2>3. es[place[i]].sessionID \in Live(st)
        /\ st.map[es[place[i]].sessionID].createdAt = es[place[i]].createdAt
    BY <2>1, <2>2
  <2> QED BY <1>4, <2>2, <2>3
<1>8. ASSUME NEW s \in Live(new)
      PROVE  \E i \in 1 .. Len(r) : r[i].sessionID = s
  <2>1. s \in Live(st) /\ s \in K
    BY <1>4
  <2>2. PICK k \in 1 .. Len(es) : es[k].sessionID = s
    BY <2>1 DEF IsMap
  <2>3. es[k] \in S
    BY <2>1, <2>2
  <2>4. PICK i \in 1 .. Len(r) : place[i] = k
    BY <1>3, <2>3 DEF IsPlaces
  <2> QED BY <1>6, <2>2, <2>4
<1>9. ASSUME NEW i \in 1 .. Len(r), NEW j \in 1 .. Len(r)
      PROVE  i < j <=> <<r[i].sessionID, r[j].sessionID>> \in new.older
  <2>1. i < j <=> place[i] < place[j]
    <3>1. \A a, b \in 1 .. Len(r) : a < b => place[a] < place[b]
      BY <1>3 DEF IsPlaces
    <3>2. place[i] \in Int /\ place[j] \in Int
      BY <1>6
    <3>3. CASE i < j
      BY <3>1, <3>3
    <3>4. CASE i = j
      BY <3>2, <3>4
    <3>5. CASE j < i
      BY <3>1, <3>2, <3>5
    <3> QED BY <3>3, <3>4, <3>5
  <2>2. place[i] < place[j] <=> <<es[place[i]].sessionID, es[place[j]].sessionID>> \in st.older
    BY <1>6 DEF IsMap
  <2>3. <<r[i].sessionID, r[j].sessionID>> \in st.older
          <=> <<r[i].sessionID, r[j].sessionID>> \in new.older
    BY <1>5, <1>6
  <2> QED BY <1>6, <2>1, <2>2, <2>3
<1>10. IsMap(new, r)
  BY <1>2, <1>7, <1>8, <1>9 DEF IsMap
<1>11. Len(r) <= Len(es)
  BY <1>3 DEF IsPlaces
<1> QED BY <1>10, <1>11 DEF new, r

\* Setting a session moves it to the end of both.
LEMMA InsertIsMap ==
    ASSUME NEW st \in Stores(Dated), NEW es, IsMap(st, es), NEW s \in Sessions, NEW time \in Nat,
           NEW S, \A i \in 1 .. Len(es) : es[i] \in S <=> es[i].sessionID # s
    PROVE  IsMap(Insert(st, s, [createdAt |-> time]),
                 Append(Keep(es, S), [sessionID |-> s, createdAt |-> time]))
<1> DEFINE K == Sessions \ {s}
           e == [sessionID |-> s, createdAt |-> time]
           rest == Keep(es, S)
           old == KeepOnly(st, K)
           new == Insert(st, s, [createdAt |-> time])
           l == Len(rest)
           r == Append(rest, e)
<1>1. IsMap(old, rest)
  <2>1. \A i \in 1 .. Len(es) : es[i].sessionID \in Sessions
    BY DEF IsMap, Live
  <2>2. \A i \in 1 .. Len(es) : es[i] \in S <=> es[i].sessionID \in K
    BY <2>1
  <2> HIDE DEF K
  <2>3. K \in SUBSET Sessions
    BY DEF K
  <2> QED BY <2>2, <2>3, KeepIsMap
<1>2. Live(old) = Live(st) \ {s} /\ \A t \in K : old.map[t] = st.map[t]
  BY DEF Live, KeepOnly
<1>3. old.older = {p \in st.older : p[1] \in K /\ p[2] \in K}
  BY DEF KeepOnly
<1>4. Live(new) = Live(old) \cup {s} /\ new.map[s].createdAt = time
  <2>1. [createdAt |-> time] # NoAttempt
    BY OpsAssumption
  <2>2. new.map = [st.map EXCEPT ![s] = [createdAt |-> time]]
    BY DEF Insert
  <2>3. DOMAIN st.map = Sessions
    BY DEF Stores
  <2>4. new.map[s] = [createdAt |-> time] /\ \A t \in K : new.map[t] = st.map[t]
    BY <2>2, <2>3
  <2>5. Live(new) = {t \in Sessions : new.map[t] # NoAttempt}
    BY DEF Live
  <2>6. Live(st) = {t \in Sessions : st.map[t] # NoAttempt}
    BY DEF Live
  <2> HIDE DEF new, old
  <2>7. Live(new) = Live(old) \cup {s}
    BY <1>2, <2>1, <2>4, <2>5, <2>6
  <2> QED BY <2>4, <2>7
<1>5. \A t \in Live(old) : new.map[t] = old.map[t] /\ t # s
  BY <1>2 DEF Insert, Stores, Live
<1>6. \A t, u \in Live(old) : <<t, u>> \in new.older <=> <<t, u>> \in old.older
  BY <1>2, <1>3 DEF Insert, Live
<1>7. /\ \A t \in Live(old) : <<t, s>> \in new.older
      /\ \A t \in Sessions : <<s, t>> \notin new.older
  BY <1>2 DEF Insert
<1> HIDE DEF rest, old, new
<1>8. /\ r \in Seq(Entry) /\ l \in Nat /\ Len(r) = l + 1
      /\ r[l + 1] = e /\ \A i \in 1 .. l : r[i] = rest[i]
  <2>1. rest \in Seq(Entry) /\ e \in Entry
    BY <1>1 DEF IsMap, Entry
  <2> QED BY <2>1
<1> HIDE DEF r, l
<1>9. \A i \in 1 .. l + 1 : i = l + 1 \/ i \in 1 .. l
  BY <1>8
<1>10. \A i \in 1 .. l : rest[i].sessionID \in Live(old)
                         /\ old.map[rest[i].sessionID].createdAt = rest[i].createdAt
  BY <1>1 DEF IsMap, l
<1>11. \A i \in 1 .. l + 1 : r[i].sessionID \in Live(new)
                             /\ new.map[r[i].sessionID].createdAt = r[i].createdAt
  BY <1>4, <1>5, <1>8, <1>9, <1>10
<1>12. ASSUME NEW t \in Live(new)
       PROVE  \E i \in 1 .. l + 1 : r[i].sessionID = t
  <2>1. CASE t = s
    BY <1>8, <2>1
  <2>2. CASE t \in Live(old)
    <3>1. PICK i \in 1 .. l : rest[i].sessionID = t
      BY <1>1, <2>2 DEF IsMap, l
    <3> QED BY <1>8, <3>1
  <2> QED BY <1>4, <2>1, <2>2
<1>13. ASSUME NEW i \in 1 .. l + 1, NEW j \in 1 .. l + 1
       PROVE  i < j <=> <<r[i].sessionID, r[j].sessionID>> \in new.older
  <2>1. CASE i \in 1 .. l /\ j \in 1 .. l
    <3>1. i < j <=> <<rest[i].sessionID, rest[j].sessionID>> \in old.older
      BY <1>1, <2>1 DEF IsMap, l
    <3> QED BY <1>6, <1>8, <1>10, <2>1, <3>1
  <2>2. CASE i \in 1 .. l /\ j = l + 1
    BY <1>7, <1>8, <1>10, <2>2
  <2>3. CASE i = l + 1
    <3>1. r[j].sessionID \in Sessions
      BY <1>11 DEF Live
    <3> QED BY <1>7, <1>8, <2>3, <3>1
  <2> QED BY <1>9, <2>1, <2>2, <2>3
<1>14. IsMap(new, r)
  BY <1>8, <1>11, <1>12, <1>13 DEF IsMap
<1> QED BY <1>14 DEF new, r, rest

LEMMA EmptyIsMap ==
    EmptyStore \in Stores(Dated) /\ IsMap(EmptyStore, <<>>) /\ Len(<<>>) <= MaxAttempts
  BY StoreAssumption DEF IsMap, EmptyStore, Stores, Live

\* The loop of set leaves the same sessions of both.
LEMMA EvictIsMap ==
    ASSUME NEW st \in Stores(Dated), NEW es, IsMap(st, es)
    PROVE  IsMap(EvictOldest(st), MapEvict(es)) /\ Len(MapEvict(es)) <= MaxAttempts
<1> DEFINE n == Len(es)
           old == IF n <= MaxAttempts THEN 0 ELSE n - MaxAttempts
           r == MapEvict(es)
           new == EvictOldest(st)
           id(i) == es[i].sessionID
<1>1. es \in Seq(Entry) /\ n \in Nat /\ MaxAttempts \in Nat /\ old \in 0 .. n
  BY StoreAssumption DEF IsMap
<1>2. /\ r \in Seq(Entry) /\ Len(r) = n - old /\ n - old <= MaxAttempts
      /\ \A i \in 1 .. n - old : r[i] = es[i + old]
  <2>1. CASE n <= MaxAttempts
    BY <1>1, <2>1 DEF MapEvict
  <2>2. CASE ~(n <= MaxAttempts)
    <3>1. r = SubSeq(es, old + 1, n)
      BY <1>1, <2>2 DEF MapEvict
    <3> QED BY <1>1, <2>2, <3>1
  <2> QED BY <2>1, <2>2
<1>3. \A i \in 1 .. n : id(i) \in Live(st) /\ st.map[id(i)].createdAt = es[i].createdAt
  BY DEF IsMap
<1>4. \A i, j \in 1 .. n : i < j <=> <<id(i), id(j)>> \in st.older
  BY DEF IsMap
<1>5. ASSUME NEW i \in 1 .. n
      PROVE  Cardinality(After(st, id(i))) = n - i
  <2> DEFINE A == i + 1 .. n
             f == [j \in A |-> id(j)]
  <2>1. IsFiniteSet(A) /\ Cardinality(A) = n - i
    BY <1>1, FS_Interval
  <2>2. f \in [A -> After(st, id(i))]
    BY <1>1, <1>3, <1>4 DEF After
  <2>3. \A j, k \in A : j # k => f[j] # f[k]
    <3> SUFFICES ASSUME NEW j \in A, NEW k \in A, j < k, id(j) = id(k) PROVE FALSE
      BY <1>1
    <3>1. j \in 1 .. n /\ k \in 1 .. n
      BY <1>1
    <3>2. (j < k) <=> (k < k)
      BY <1>4, <3>1
    <3> QED BY <1>1, <3>2
  <2>4. \A s \in After(st, id(i)) : \E j \in A : f[j] = s
    <3> SUFFICES ASSUME NEW s \in After(st, id(i)) PROVE \E j \in A : f[j] = s
      OBVIOUS
    <3>1. s \in Live(st) /\ <<id(i), s>> \in st.older
      BY DEF After
    <3>2. PICK j \in 1 .. n : id(j) = s
      BY <3>1 DEF IsMap
    <3>3. i < j
      BY <1>4, <3>1, <3>2
    <3> QED BY <1>1, <3>2, <3>3
  <2> HIDE DEF A, f
  <2>5. f \in Bijection(A, After(st, id(i)))
    <3>1. f \in Injection(A, After(st, id(i)))
      BY <2>2, <2>3 DEF Injection, IsInjective
    <3>2. f \in Surjection(A, After(st, id(i)))
      BY <2>2, <2>4 DEF Surjection
    <3> QED BY <3>1, <3>2 DEF Bijection
  <2>6. ExistsBijection(A, After(st, id(i)))
    BY <2>5 DEF ExistsBijection
  <2> QED BY <2>1, <2>6, FS_Bijection
<1>6. \A i \in 1 .. n : id(i) \in Live(new) <=> i > old
  <2>1. \A i \in 1 .. n : n - i < MaxAttempts <=> i > old
    BY <1>1
  <2> QED BY <1>3, <1>5, <2>1, EvictLive
<1>7. \A s \in Live(new) : s \in Live(st) /\ new.map[s] = st.map[s]
  BY DEF EvictOldest, KeepOnly, Live
<1>8. \A s, t \in Live(new) : <<s, t>> \in new.older <=> <<s, t>> \in st.older
  BY DEF EvictOldest, KeepOnly, Live
<1> HIDE DEF r, new, n, old
<1>9. \A i \in 1 .. n - old : i + old \in 1 .. n /\ i + old > old
  BY <1>1
<1>10. \A i \in 1 .. n - old : r[i].sessionID = id(i + old) /\ r[i].sessionID \in Live(new)
                               /\ new.map[r[i].sessionID].createdAt = r[i].createdAt
  BY <1>2, <1>3, <1>6, <1>7, <1>9
<1>11. ASSUME NEW s \in Live(new)
       PROVE  \E i \in 1 .. n - old : r[i].sessionID = s
  <2>1. PICK k \in 1 .. n : id(k) = s
    BY <1>7 DEF IsMap, n
  <2>2. k > old
    BY <1>6, <2>1
  <2>3. k - old \in 1 .. n - old /\ (k - old) + old = k
    BY <1>1, <2>2
  <2> QED BY <1>10, <2>1, <2>3
<1>12. ASSUME NEW i \in 1 .. n - old, NEW j \in 1 .. n - old
       PROVE  i < j <=> <<r[i].sessionID, r[j].sessionID>> \in new.older
  <2>1. i < j <=> i + old < j + old
    BY <1>1
  <2>2. i + old < j + old <=> <<id(i + old), id(j + old)>> \in st.older
    BY <1>4, <1>9
  <2> QED BY <1>8, <1>10, <2>1, <2>2
<1>13. IsMap(new, r)
  BY <1>2, <1>10, <1>11, <1>12 DEF IsMap
<1> QED BY <1>2, <1>13 DEF new, r

\* What the invariant says.
MapInv ==
    /\ clock \in Nat
    /\ attempts \in Stores(Dated)
    /\ IsMap(attempts, entries)
    /\ Len(entries) <= MaxAttempts

LEMMA MapStep == MapInv /\ [OpsNext]_opsVars => MapInv'
<1> SUFFICES ASSUME MapInv, [OpsNext]_opsVars PROVE MapInv'
  OBVIOUS
<1> USE DEF MapInv
<1>0. /\ entries \in Seq(Entry) /\ \A i \in 1 .. Len(entries) : entries[i] \in Entry
      /\ Len(entries) \in Nat /\ MaxAttempts \in Nat
  BY StoreAssumption DEF IsMap
<1>1. ASSUME NEW time \in Nat
      PROVE  /\ IsMap(CleanupExpired(attempts, time), MapCleanup(entries, time))
             /\ Len(MapCleanup(entries, time)) <= MaxAttempts
             /\ CleanupExpired(attempts, time) \in Stores(Dated)
             /\ MapCleanup(entries, time) \in Seq(Entry)
  <2> DEFINE K == {s \in Live(attempts) : ~Expired(attempts.map[s], time)}
             S == {e \in Entry : time - e.createdAt < TTL}
  <2>1. ASSUME NEW i \in 1 .. Len(entries)
        PROVE  entries[i] \in S <=> entries[i].sessionID \in K
    <3>1. /\ entries[i] \in Entry /\ entries[i].sessionID \in Live(attempts)
          /\ attempts.map[entries[i].sessionID].createdAt = entries[i].createdAt
      BY <1>0 DEF IsMap
    <3>2. entries[i].createdAt \in Nat /\ TTL \in Nat
      BY <3>1, StoreAssumption DEF Entry
    <3> QED BY <3>1, <3>2 DEF Expired
  <2>2. K \in SUBSET Sessions
    BY DEF Live
  <2>3. MapCleanup(entries, time) = Keep(entries, S) /\ CleanupExpired(attempts, time) = KeepOnly(attempts, K)
    BY DEF MapCleanup, CleanupExpired
  <2> HIDE DEF K, S
  <2>4. IsMap(KeepOnly(attempts, K), Keep(entries, S)) /\ Len(Keep(entries, S)) <= Len(entries)
    BY <2>1, <2>2, KeepIsMap
  <2>5. Keep(entries, S) \in Seq(Entry)
    BY <2>4 DEF IsMap
  <2>6. Len(Keep(entries, S)) \in Nat
    BY <2>5
  <2>7. CleanupExpired(attempts, time) \in Stores(Dated)
    BY CleanupShrinks DEF Shrinks
  <2> QED BY <1>0, <2>3, <2>4, <2>5, <2>6, <2>7
<1>2. ASSUME NEW s \in Sessions, CallSet(s) PROVE MapInv'
  <2>1. PICK time \in Nat : /\ attempts' = Set(attempts, s, [createdAt |-> time])
                            /\ entries' = MapSet(entries, s, time)
    BY <1>2 DEF CallSet
  <2> DEFINE a == [createdAt |-> time]
             st == CleanupExpired(attempts, time)
             es == MapCleanup(entries, time)
             S == {e \in Entry : e.sessionID # s}
             new == Append(Keep(es, S), [sessionID |-> s, createdAt |-> time])
  <2>2. IsMap(st, es) /\ st \in Stores(Dated) /\ es \in Seq(Entry)
    BY <1>1
  <2>3. attempts' = EvictOldest(Insert(st, s, a)) /\ entries' = MapEvict(new)
    BY <2>1 DEF Set, MapSet, MapDelete
  <2>4. \A i \in 1 .. Len(es) : es[i] \in S <=> es[i].sessionID # s
    <3>1. \A i \in 1 .. Len(es) : es[i] \in Entry
      BY <2>2
    <3> QED BY <3>1
  <2> HIDE DEF S, st, es
  <2>5. IsMap(Insert(st, s, a), new)
    BY <2>2, <2>4, InsertIsMap
  <2>6. Insert(st, s, a) \in Stores(Dated)
    <3>1. a \in Dated
      BY DEF Dated
    <3> QED BY <2>2, <3>1, InsertStore
  <2> HIDE DEF new, a
  <2>7. IsMap(attempts', entries') /\ Len(entries') <= MaxAttempts
    BY <2>3, <2>5, <2>6, EvictIsMap
  <2>8. attempts' \in Stores(Dated)
    <3>1. a \in Dated
      BY DEF Dated, a
    <3> QED BY <2>1, <3>1, SetStore DEF a
  <2>9. clock' = clock
    BY <1>2 DEF CallSet
  <2> QED BY <2>7, <2>8, <2>9
<1>3. ASSUME NEW s \in Sessions, CallDelete(s) PROVE MapInv'
  <2> DEFINE K == Sessions \ {s}
             S == {e \in Entry : e.sessionID # s}
  <2>1. \A i \in 1 .. Len(entries) : entries[i] \in S <=> entries[i].sessionID \in K
    BY <1>0 DEF Entry
  <2>2. attempts' = KeepOnly(attempts, K) /\ entries' = Keep(entries, S)
    BY <1>3 DEF CallDelete, Delete, MapDelete
  <2>3. K \in SUBSET Sessions
    OBVIOUS
  <2> HIDE DEF K, S
  <2>4. IsMap(attempts', entries') /\ Len(entries') <= Len(entries)
    BY <2>1, <2>2, <2>3, KeepIsMap
  <2>5. attempts' \in Stores(Dated)
    BY <1>3, DeleteShrinks DEF CallDelete, Shrinks
  <2>6. Len(entries') \in Nat
    BY <2>4 DEF IsMap
  <2>7. clock' = clock
    BY <1>3 DEF CallDelete
  <2> QED BY <1>0, <2>4, <2>5, <2>6, <2>7
<1>4. CASE CallCleanup
  BY <1>1, <1>4 DEF CallCleanup
<1>5. CASE CallClear
  BY <1>5, EmptyIsMap DEF CallClear
<1>6. CASE ClockMoves \/ UNCHANGED opsVars
  BY <1>6 DEF ClockMoves, opsVars
<1> QED BY <1>2, <1>3, <1>4, <1>5, <1>6 DEF OpsNext

\* The store holds what the Map holds, in the Map's order, and never more than the cap,
\* whatever is set again, deleted, expired or evicted (state.ts: the iteration order of the
\* Map decides what goes, and no clock or time to live changes that).
THEOREM StoreIsMap == OpsSpec => []StoreIsTheMap
<1>1. OpsInit => MapInv
  BY EmptyIsMap DEF OpsInit, MapInv
<1>2. MapInv => StoreIsTheMap
  <2> SUFFICES ASSUME MapInv PROVE StoreIsTheMap
    OBVIOUS
  <2>1. IsMap(attempts, entries) /\ DOMAIN entries = 1 .. Len(entries)
    BY DEF MapInv, IsMap
  <2>2. Live(attempts) = {entries[i].sessionID : i \in DOMAIN entries}
    BY <2>1 DEF IsMap
  <2> QED BY <2>1, <2>2 DEF MapInv, IsMap, StoreIsTheMap
<1> QED BY <1>1, <1>2, MapStep, PTL DEF OpsSpec

----------------------------------------------------------------------------
(* The pin file. *)

\* A session in the middle of its update of the pin file, dead or alive.
Updating(s) == updater[s].at \in {"read", "write", "dead"}

Updates ==
    /\ DOMAIN updater = PinSessions
    /\ \A s \in PinSessions : DOMAIN updater[s] = {"at", "op", "pinnedAt", "value"}

PinInv ==
    /\ Updates
    /\ \A s \in PinSessions : Updating(s) => pinLock = s
    /\ \A s \in PinSessions : updater[s].at = "write" => updater[s].value = Updated(s, pins)
    /\ PinsKept

----------------------------------------------------------------------------

LEMMA PinInitial == PiInit => PinInv
  BY DEF PiInit, PinInv, Updates, Updating, Updated, PinsKept, NoUpdate

\* Nothing but a command on the pin file changes it.
LEMMA PinStutter == PinInv /\ UNCHANGED pinvars => PinInv'
  BY DEF PinInv, Updates, Updating, Updated, PinsKept, pinvars

LEMMA PinLocked ==
  ASSUME NEW s \in PinSessions, PinInv, LockPins(s) PROVE PinInv'
<1> USE DEF LockPins, PinInv
<1>1. Updates'
  BY DEF Updates, NoUpdate
<1>2. \A t \in PinSessions : ~Updating(t)
  BY PiAssumption DEF PinLockFree, PinSessions, Me
<1>3. \A t \in PinSessions : Updating(t)' => t = s
  BY <1>2 DEF Updating, Updates
<1>4. updater'[s].at = "read"
  BY DEF Updates, NoUpdate
<1>5. \A t \in PinSessions : updater'[t].at # "write"
  BY <1>3, <1>4 DEF Updating
<1> QED
  BY <1>1, <1>3, <1>5 DEF PinsKept

LEMMA PinRead ==
  ASSUME NEW s \in PinSessions, PinInv, ReadPins(s) PROVE PinInv'
<1> USE DEF ReadPins, PinInv
<1>1. Updates'
  BY DEF Updates
<1>2. \A t \in PinSessions \ {s} : updater'[t] = updater[t]
  BY DEF Updates
<1>3. /\ updater'[s].at = "write"
      /\ updater'[s].op = updater[s].op
      /\ updater'[s].value = Updated(s, pins)
  BY DEF Updates, Updated
<1>4. \A t \in PinSessions : Updating(t)' => Updating(t)
  BY <1>2 DEF Updating
<1>5. \A t \in PinSessions : updater'[t].at = "write" => updater'[t].value = Updated(t, pins)'
  BY <1>2, <1>3 DEF Updated, Updates
<1> QED
  BY <1>1, <1>4, <1>5 DEF PinsKept

\* Only the holder writes, and it read the file that is still there.
LEMMA PinWritten ==
  ASSUME NEW s \in PinSessions, PinInv, WritePins(s) PROVE PinInv'
<1> USE DEF WritePins, PinInv
<1>1. Updates'
  BY DEF Updates, NoUpdate
<1>2. \A t \in PinSessions \ {s} : ~Updating(t)
  BY DEF Updating
<1>3. \A t \in PinSessions : ~Updating(t)'
  BY <1>2 DEF Updating, Updates, NoUpdate
<1>4. \A t \in PinSessions : updater'[t].at # "write"
  BY <1>3 DEF Updating
<1>5. PinsKept'
  BY DEF PinsKept, Updated
<1> QED
  BY <1>1, <1>3, <1>4, <1>5

LEMMA PinDies ==
  ASSUME NEW s \in PinSessions, PinInv, PinnerDies(s) PROVE PinInv'
<1> USE DEF PinnerDies, PinInv
<1>1. Updates'
  BY DEF Updates
<1>2. \A t \in PinSessions \ {s} : updater'[t] = updater[t]
  BY DEF Updates
<1>3. updater'[s].at = "dead"
  BY DEF Updates
<1>4. \A t \in PinSessions : Updating(t)' => Updating(t)
  BY <1>2 DEF Updating
<1>5. \A t \in PinSessions : updater'[t].at = "write" => updater'[t].value = Updated(t, pins)'
  BY <1>2, <1>3 DEF Updated, Updates
<1> QED
  BY <1>1, <1>4, <1>5 DEF PinsKept

LEMMA PinStep == PinInv /\ [PiNext]_pivars => PinInv'
<1> SUFFICES ASSUME PinInv, [PiNext]_pivars PROVE PinInv'
  OBVIOUS
<1>1. CASE SessionStart \/ Speak \/ GoBack \/ Discover
  BY <1>1, PinStutter DEF SessionStart, Speak, GoBack, Discover
<1>2. CASE BeginCompact \/ BeginTree
  BY <1>2, PinStutter DEF BeginCompact, BeginTree
<1>3. CASE ModelReturns \/ HookReturns \/ PiCompacts
  BY <1>3, PinStutter DEF ModelReturns, HookReturns, PiCompacts
<1>4. CASE \E s \in PinSessions : LockPins(s) \/ ReadPins(s) \/ WritePins(s) \/ PinnerDies(s)
  BY <1>4, PinLocked, PinRead, PinWritten, PinDies
<1>5. CASE UNCHANGED pivars
  BY <1>5, PinStutter DEF pivars, pinvars
<1> QED
  BY <1>1, <1>2, <1>3, <1>4, <1>5 DEF PiNext

\* What a session pinned or unpinned is what the shared pin file holds, with any number of
\* sessions at it at once and dead ones among them: the lock directory makes every
\* read-modify-write whole, and is never taken from its holder (cat-core.ts:334-401).
THEOREM PinsAreKept == PiInit /\ [][PiNext]_pivars => []PinsKept
<1>1. PinInv => PinsKept
  BY DEF PinInv
<1> QED
  BY PinInitial, PinStep, <1>1, PTL
----------------------------------------------------------------------------
(* The branch of a Pi session. *)

PiEntries ==
    [id : Nat, kind : Talk \cup {"compaction", "branch"}, kept : Nat, covers : SUBSET Nat,
     by : {"none", "pi", "off", "offline", "hybrid"}]

IsCompaction(e) == e.kind = "compaction"
Speaks(e) == e.kind \in {"user", "answer", "branch"}

\* The ids up to the boundary of the compaction at c are summarised, the others live.
Boundary(b, c) == IF b[c].kept = 0 THEN b[c].id ELSE b[c].kept

\* As far as c no compaction of the plugin follows one of Pi's own.
ChainedTo(b, c) ==
    \A i, j \in 1..c : i < j /\ IsCompaction(b[i]) /\ IsCompaction(b[j]) /\ b[j].by # "pi" => b[i].by # "pi"

\* The compaction at c names an entry before it, or none, and covers what was said before
\* its boundary and nothing after it.
KeepsAnEntry(b, c) ==
    /\ b[c].kept < b[c].id
    /\ b[c].kept # 0 => \E i \in 1..(c - 1) : b[i].id = b[c].kept /\ ~IsCompaction(b[i])
CoversUpTo(b, c) ==
    ChainedTo(b, c) =>
        /\ \A i \in 1..c : Speaks(b[i]) /\ b[i].id < Boundary(b, c) => b[i].id \in b[c].covers
        /\ \A x \in b[c].covers : x < Boundary(b, c)

\* A tail the plugin kept begins with a turn and has tail_turns of them.
TailAt(b, c) ==
    b[c].by \in {"offline", "hybrid"} /\ b[c].kept # 0 =>
        \E i \in 1..(c - 1) :
            /\ b[i].id = b[c].kept /\ IsTurn(b[i])
            /\ Cardinality({j \in i..(c - 1) : IsTurn(b[j])}) = TailTurns

CompactionSound(b, c) == KeepsAnEntry(b, c) /\ CoversUpTo(b, c) /\ TailAt(b, c)

BranchSound(b) ==
    /\ \A i, j \in 1..Len(b) : i < j => b[i].id < b[j].id
    /\ \A i \in 1..Len(b) : b[i].id # 0
    /\ \A c \in 1..Len(b) : IsCompaction(b[c]) => CompactionSound(b, c)

\* What the plugin summarises and keeps: the live messages before the first entry it keeps,
\* which is live; with a tail, all the turns it has.
CutSound(gone, kept) ==
    /\ gone \subseteq Nat
    /\ \A i \in LiveEntries : kept = 0 \/ branch[i].id < kept => branch[i].id \in gone
    /\ \A x \in gone : \E i \in LiveEntries : x = branch[i].id /\ (kept = 0 \/ x < kept)
    /\ kept # 0 => \E i \in LiveEntries : branch[i].id = kept
TailSound(kept) ==
    kept # 0 => \E i \in LiveTurns : branch[i].id = kept /\ Cardinality(TurnsFrom(i)) = TailTurns

\* A hook that is awaited cuts the branch as it is.
HookSound ==
    /\ hook \in [at : {"none", "model", "embed", "native"}, messages : SUBSET Nat, kept : Nat,
                 to : Nat, pinned : BOOLEAN]
    /\ hook.at # "none" => updater[Me].at = "none" /\ hook.to < Len(branch)
    /\ hook.at \in {"model", "embed"} /\ hook.to = 0 =>
         CutSound(hook.messages, hook.kept) /\ (mode # "off" => TailSound(hook.kept))

\* The id of a handle is that of a message, and below the root its marker that of the
\* lineage, or it is gone for good.
HandleSound(b, h) ==
    /\ b # <<>> /\ h.id <= lastId
    /\ \A i \in 1..Len(b) : b[i].id = h.id => b[i].kind \in Talk /\ (i > 1 => h.marker = b[2].id)

BranchInv ==
    /\ branch \in Seq(PiEntries) /\ lastId \in Nat
    /\ \A i \in 1..Len(branch) : branch[i].id <= lastId
    /\ BranchSound(branch)
    /\ handles \in SUBSET [id : Nat, marker : Nat]
    /\ \A h \in handles : HandleSound(branch, h)

PiInv ==
    /\ Updates
    /\ mode \in {"off", "offline", "hybrid"}
    /\ BranchInv
    /\ HookSound

----------------------------------------------------------------------------
(* Branches that grow and are cut. *)

LEMMA Grows ==
  ASSUME NEW S, NEW b \in Seq(S), NEW e \in S
  PROVE  /\ Append(b, e) \in Seq(S) /\ Len(Append(b, e)) = Len(b) + 1
         /\ Append(b, e)[Len(b) + 1] = e
         /\ \A i \in 1..Len(b) : Append(b, e)[i] = b[i]
OBVIOUS

LEMMA IsCut ==
  ASSUME NEW S, NEW b \in Seq(S), NEW n \in 1..Len(b)
  PROVE  /\ SubSeq(b, 1, n) \in Seq(S) /\ Len(SubSeq(b, 1, n)) = n
         /\ \A i \in 1..n : SubSeq(b, 1, n)[i] = b[i]
OBVIOUS

\* Two branches share their first entries.
Shares(b, d, n) == n \in 0..Len(b) /\ n \in 0..Len(d) /\ \A i \in 1..n : d[i] = b[i]

\* What is said of a compaction depends on the entries up to it.
LEMMA SoundCarries ==
  ASSUME NEW b \in Seq(PiEntries), NEW d \in Seq(PiEntries), NEW n \in Nat, Shares(b, d, n),
         NEW c \in 1..n, CompactionSound(b, c)
  PROVE  CompactionSound(d, c)
<1> USE DEF Shares
<1>0. \A i \in 1..c : i \in 1..n /\ d[i] = b[i]
  OBVIOUS
<1>1. KeepsAnEntry(d, c)
  <2>1. d[c] = b[c] /\ \A i \in 1..(c - 1) : d[i] = b[i]
    BY <1>0
  <2>2. KeepsAnEntry(b, c)
    BY DEF CompactionSound
  <2> QED BY ONLY <2>1, <2>2 DEF KeepsAnEntry
<1>2. CoversUpTo(d, c)
  <2>1. Boundary(d, c) = Boundary(b, c)
    BY <1>0 DEF Boundary
  <2>2. ChainedTo(d, c) => ChainedTo(b, c)
    BY <1>0 DEF ChainedTo
  <2> QED
    BY <1>0, <2>1, <2>2 DEF CompactionSound, CoversUpTo
<1>3. TailAt(d, c)
  <2>1. \A i \in 1..(c - 1) : {j \in i..(c - 1) : IsTurn(d[j])} = {j \in i..(c - 1) : IsTurn(b[j])}
    BY <1>0
  <2>2. d[c] = b[c] /\ \A i \in 1..(c - 1) : d[i] = b[i]
    BY <1>0
  <2>3. TailAt(b, c)
    BY DEF CompactionSound
  <2> HIDE DEF Shares
  <2> QED
    BY <2>1, <2>2, <2>3 DEF TailAt
<1> QED
  BY <1>1, <1>2, <1>3 DEF CompactionSound

\* A branch that is cut, and may have one more entry, stays sound when that entry is new
\* and sound.
LEMMA SoundGrows ==
  ASSUME NEW b \in Seq(PiEntries), BranchSound(b), NEW d \in Seq(PiEntries), NEW n \in Nat,
         Shares(b, d, n), Len(d) \in {n, n + 1},
         Len(d) = n + 1 =>
            /\ \A i \in 1..n : b[i].id < d[n + 1].id
            /\ d[n + 1].id # 0
            /\ IsCompaction(d[n + 1]) => CompactionSound(d, n + 1)
  PROVE  BranchSound(d)
<1> USE DEF Shares
<1>1. \A i \in 1..n : i \in 1..Len(b) /\ d[i] = b[i]
  OBVIOUS
<1>2. \A i \in 1..Len(d) : i \in 1..n \/ (i = n + 1 /\ Len(d) = n + 1)
  OBVIOUS
<1>3. \A i, j \in 1..Len(d) : i < j => d[i].id < d[j].id
  BY <1>1, <1>2 DEF BranchSound
<1>4. \A i \in 1..Len(d) : d[i].id # 0
  BY <1>1, <1>2 DEF BranchSound
<1>5. ASSUME NEW c \in 1..Len(d), IsCompaction(d[c]) PROVE CompactionSound(d, c)
  <2>1. CASE c \in 1..n
    BY <1>1, <1>5, <2>1, SoundCarries DEF BranchSound
  <2>2. CASE c = n + 1 /\ Len(d) = n + 1
    BY <1>5, <2>2
  <2> QED BY <1>2, <2>1, <2>2
<1> QED
  BY <1>3, <1>4, <1>5 DEF BranchSound

----------------------------------------------------------------------------
(* The live branch. *)

\* A finite set of numbers has a largest one: among the sets of what is above a member,
\* a smallest one is empty.
LEMMA NewestIs ==
  ASSUME NEW S \in SUBSET Nat, IsFiniteSet(S), 0 \notin S
  PROVE  IF S = {} THEN Newest(S) = 0 ELSE Newest(S) \in S /\ \A j \in S : j <= Newest(S)
<1>0. CASE S = {}
  BY <1>0 DEF Newest
<1>1. CASE S # {}
  <2> DEFINE Above(x) == {y \in S : y > x}
             family == {Above(x) : x \in S}
  <2>1. family \subseteq FiniteSubsetsOf(S) /\ family # {}
    <3>1. \A x : Above(x) \in SUBSET S
      OBVIOUS
    <3> HIDE DEF Above
    <3>2. \A x : IsFiniteSet(Above(x))
      BY <3>1, FS_Subset
    <3> QED  BY <1>1, <3>1, <3>2 DEF FiniteSubsetsOf
  <2>2. PICK T \in family : \A U \in family : ~(<<U, T>> \in StrictSubsetOrdering(S))
    <3>1. IsWellFoundedOn(StrictSubsetOrdering(S), FiniteSubsetsOf(S))
      BY FS_StrictSubsetOrderingWellFounded
    <3> HIDE DEF family
    <3> QED  BY <2>1, <3>1, WFMin
  <2>3. PICK x \in S : T = Above(x)
    OBVIOUS
  <2>4. ASSUME NEW y \in Above(x)
        PROVE  FALSE
    <3>0. y \in S /\ y \in Nat /\ x \in Nat /\ y > x /\ y \notin Above(y)
      OBVIOUS
    <3>1. Above(y) \in family
      BY <3>0
    <3>2. \A z \in Above(y) : z \in Above(x)
      BY <3>0
    <3>3. Above(y) \in SUBSET S /\ Above(x) \in SUBSET S
      OBVIOUS
    <3>4. Above(y) # Above(x)
      BY <3>0
    <3> HIDE DEF Above, family
    <3>5. <<Above(y), Above(x)>> \in StrictSubsetOrdering(S)
      BY <3>2, <3>3, <3>4 DEF StrictSubsetOrdering
    <3> QED  BY <2>2, <2>3, <3>1, <3>5
  <2>5. \A y \in S : x >= y
    BY <2>4
  <2> QED  BY <1>1, <2>5 DEF Newest
<1> QED BY <1>0, <1>1

\* The boundary of the newest compaction: what is before it is summarised.
NewestAt == Newest(Compactions)
LiveFrom == IF NewestAt = 0 THEN 0 ELSE Boundary(branch, NewestAt)

LEMMA NewestCompaction ==
  ASSUME branch \in Seq(PiEntries)
  PROVE  /\ NewestAt \in 0..Len(branch)
         /\ \A i \in 1..Len(branch) : IsCompaction(branch[i]) => i <= NewestAt
         /\ NewestAt # 0 => IsCompaction(branch[NewestAt])
<1>1. Compactions \in SUBSET (1..Len(branch)) /\ Compactions \in SUBSET Nat /\ 0 \notin Compactions
  BY DEF Compactions
<1>2. IsFiniteSet(Compactions)
  <2>1. IsFiniteSet(1..Len(branch))
    BY FS_Interval
  <2> QED
    BY <1>1, <2>1, FS_Subset
<1>3. IF Compactions = {} THEN Newest(Compactions) = 0
      ELSE Newest(Compactions) \in Compactions /\ \A j \in Compactions : j <= Newest(Compactions)
  BY <1>1, <1>2, NewestIs
<1>4. \A i \in 1..Len(branch) : i \in Compactions <=> IsCompaction(branch[i])
  BY DEF Compactions, IsCompaction
<1>5. Len(branch) \in Nat
  OBVIOUS
<1>6. CASE Compactions = {}
  BY <1>3, <1>4, <1>5, <1>6 DEF NewestAt
<1>7. CASE Compactions # {}
  <2>1. NewestAt \in Compactions /\ \A j \in Compactions : j <= NewestAt
    BY <1>3, <1>7 DEF NewestAt
  <2>2. NewestAt \in 1..Len(branch)
    BY <1>1, <2>1
  <2> HIDE DEF NewestAt
  <2> QED
    BY <1>4, <1>5, <2>1, <2>2
<1> QED
  BY <1>6, <1>7

LEMMA EntriesAre ==
  ASSUME branch \in Seq(PiEntries)
  PROVE  /\ Len(branch) \in Nat
         /\ \A i \in 1..Len(branch) : branch[i] \in PiEntries
         /\ \A e : e \in ToSet(branch) <=> \E i \in 1..Len(branch) : e = branch[i]
         /\ \A x : x \in Ids(branch) <=> \E i \in 1..Len(branch) : x = branch[i].id
<1>1. DOMAIN branch = 1..Len(branch)
  OBVIOUS
<1>2. \A e : e \in ToSet(branch) <=> \E i \in 1..Len(branch) : e = branch[i]
  BY <1>1 DEF ToSet
<1> QED
  BY <1>2 DEF Ids

\* The messages that are live are those from the boundary of the newest compaction on.
LEMMA LiveIs ==
  ASSUME branch \in Seq(PiEntries), BranchSound(branch)
  PROVE  /\ LiveFrom \in Nat
         /\ NewestAt # 0 => LiveFrom <= branch[NewestAt].id
         /\ \A i : i \in LiveEntries <=>
              i \in 1..Len(branch) /\ ~IsCompaction(branch[i]) /\ branch[i].id >= LiveFrom
<1> DEFINE c == NewestAt
           n == Len(branch)
<1>0. n \in Nat /\ \A i \in 1..n : branch[i] \in PiEntries /\ branch[i].id \in Nat \ {0} /\ branch[i].kept \in Nat
  BY EntriesAre DEF PiEntries, BranchSound
<1>1. c \in 0..n /\ (\A i \in 1..n : IsCompaction(branch[i]) => i <= c) /\ (c # 0 => IsCompaction(branch[c]))
  BY NewestCompaction
<1>2. \A i, j \in 1..n : i < j => branch[i].id < branch[j].id
  BY DEF BranchSound
<1>3. LiveStart = IF c = 0 THEN 1 ELSE IF branch[c].kept \notin Ids(branch) THEN c + 1
                  ELSE IndexOf(branch[c].kept)
  BY DEF LiveStart, NewestAt
<1>4. \A i : i \in LiveEntries <=> i \in LiveStart..n /\ ~IsCompaction(branch[i])
  BY DEF LiveEntries, IsCompaction
<1> HIDE DEF n
<1>5. CASE c = 0
  <2>1. LiveStart = 1 /\ LiveFrom = 0
    BY <1>3, <1>5 DEF LiveFrom
  <2>2. \A i \in 1..n : branch[i].id >= LiveFrom
    BY <1>0, <2>1
  <2>3. \A i : i \in LiveEntries <=> i \in 1..n /\ ~IsCompaction(branch[i]) /\ branch[i].id >= LiveFrom
    BY <1>4, <2>1, <2>2
  <2> QED
    BY <1>5, <2>1, <2>3 DEF n
<1>6. CASE c # 0
  <2>0. c \in 1..n /\ IsCompaction(branch[c]) /\ LiveFrom = Boundary(branch, c) /\ KeepsAnEntry(branch, c)
    BY <1>0, <1>1, <1>6 DEF LiveFrom, BranchSound, CompactionSound, n
  <2> HIDE DEF c
  <2>1. CASE branch[c].kept = 0
    <3>1. LiveFrom = branch[c].id
      BY <2>0, <2>1 DEF Boundary
    <3>2. branch[c].kept \notin Ids(branch)
      BY <1>0, <2>1, EntriesAre DEF n
    <3>3. LiveStart = c + 1
      BY <1>3, <1>6, <3>2
    <3>4. \A i \in 1..n : i >= c + 1 <=> branch[i].id > branch[c].id
      BY <1>0, <1>2, <2>0
    <3>5. \A i \in 1..n : branch[i].id = branch[c].id => i = c
      BY <1>0, <1>2, <2>0
    <3>6. \A i \in 1..n : ~IsCompaction(branch[i]) => (i \in LiveStart..n <=> branch[i].id >= LiveFrom)
      BY <1>0, <2>0, <3>1, <3>3, <3>4, <3>5
    <3>7. LiveStart..n \subseteq 1..n
      BY <1>0, <2>0, <3>3
    <3>8. \A i : i \in LiveEntries <=> i \in 1..n /\ ~IsCompaction(branch[i]) /\ branch[i].id >= LiveFrom
      BY <1>4, <3>6, <3>7
    <3> QED
      BY <1>0, <2>0, <3>1, <3>8 DEF n, c
  <2>2. CASE branch[c].kept # 0
    <3>1. LiveFrom = branch[c].kept /\ LiveFrom < branch[c].id
      BY <2>0, <2>2 DEF Boundary, KeepsAnEntry
    <3>2. PICK k \in 1..(c - 1) : branch[k].id = branch[c].kept
      BY <2>0, <2>2 DEF KeepsAnEntry
    <3>3. k \in 1..n /\ branch[c].kept \in Ids(branch)
      BY <1>0, <2>0, <3>2, EntriesAre DEF n
    <3>4. \A i \in 1..n : branch[i].id = branch[c].kept => i = k
      <4> SUFFICES ASSUME NEW i \in 1..n, branch[i].id = branch[k].id, i # k PROVE FALSE
        BY <3>2
      <4>0. i \in 1..n /\ k \in 1..n /\ branch[i].id \in Nat /\ branch[k].id \in Nat
        BY <1>0, <3>3
      <4>1. i < k \/ k < i
        BY <1>0, <4>0
      <4>2. branch[i].id < branch[k].id \/ branch[k].id < branch[i].id
        BY ONLY <1>2, <4>0, <4>1
      <4> QED  BY ONLY <4>0, <4>2, branch[i].id = branch[k].id
    <3>5. LiveStart = k
      BY <1>3, <1>6, <3>2, <3>3, <3>4 DEF IndexOf, n
    <3>6. \A i \in 1..n : i >= k <=> branch[i].id >= LiveFrom
      BY <1>0, <1>2, <3>1, <3>2, <3>3
    <3> QED
      BY <1>0, <1>4, <2>0, <3>1, <3>3, <3>5, <3>6 DEF n, c
  <2> QED BY <2>1, <2>2
<1> QED BY <1>5, <1>6

\* The plugin chains the newest compaction, unless Pi compacted in between.
LEMMA PriorIs ==
  ASSUME branch \in Seq(PiEntries), BranchSound(branch)
  PROVE  /\ PriorCovers \in SUBSET Nat
         /\ (\A i \in 1..Len(branch) : IsCompaction(branch[i]) => branch[i].by # "pi")
              => PriorCovers = IF NewestAt = 0 THEN {} ELSE branch[NewestAt].covers
<1> DEFINE S == {i \in Compactions : branch[i].by # "pi"}
<1>1. S \in SUBSET (1..Len(branch)) /\ S \in SUBSET Nat /\ 0 \notin S
  BY DEF Compactions
<1>2. IsFiniteSet(S)
  <2>1. IsFiniteSet(1..Len(branch))
    BY FS_Interval
  <2> QED
    BY <1>1, <2>1, FS_Subset
<1>3. IF S = {} THEN Newest(S) = 0 ELSE Newest(S) \in S /\ \A j \in S : j <= Newest(S)
  <2> HIDE DEF S
  <2> QED BY <1>1, <1>2, NewestIs
<1>4. PriorCovers = IF Newest(S) = 0 THEN {} ELSE branch[Newest(S)].covers
  BY DEF PriorCovers
<1>5. PriorCovers \in SUBSET Nat
  <2>1. \A i \in 1..Len(branch) : branch[i].covers \in SUBSET Nat
    BY EntriesAre DEF PiEntries
  <2> HIDE DEF S
  <2> QED BY <1>1, <1>3, <1>4, <2>1
<1>6. ASSUME \A i \in 1..Len(branch) : IsCompaction(branch[i]) => branch[i].by # "pi"
      PROVE  PriorCovers = IF NewestAt = 0 THEN {} ELSE branch[NewestAt].covers
  <2>1. S = Compactions
    BY <1>6 DEF Compactions, IsCompaction
  <2> HIDE DEF S
  <2> QED BY <1>4, <2>1 DEF NewestAt
<1> QED BY <1>5, <1>6

----------------------------------------------------------------------------
(* A compaction. *)

\* With a cut of the live branch, over the summary before it, a compaction is sound.
LEMMA CompactionIsSound ==
  ASSUME branch \in Seq(PiEntries), BranchSound(branch),
         NEW e \in PiEntries, IsCompaction(e), e.id # 0,
         \A i \in 1..Len(branch) : branch[i].id < e.id,
         NEW gone, CutSound(gone, e.kept),
         e.by \in {"offline", "hybrid"} => TailSound(e.kept),
         NEW prior,
         (e.by = "pi" \/ \A i \in 1..Len(branch) : IsCompaction(branch[i]) => branch[i].by # "pi")
            => prior = IF NewestAt = 0 THEN {} ELSE branch[NewestAt].covers,
         e.covers \subseteq prior \cup gone,
         prior \subseteq e.covers,
         \A i \in 1..Len(branch) : Speaks(branch[i]) /\ branch[i].id \in gone => branch[i].id \in e.covers
  PROVE  CompactionSound(Append(branch, e), Len(branch) + 1)
<1> DEFINE n == Len(branch)
           d == Append(branch, e)
           c == NewestAt
           upTo == IF e.kept = 0 THEN e.id ELSE e.kept
<1>0. n \in Nat /\ \A i \in 1..n : branch[i] \in PiEntries /\ branch[i].id \in Nat \ {0} /\ branch[i].kept \in Nat
  BY EntriesAre DEF PiEntries, BranchSound
<1>1. d[n + 1] = e /\ \A i \in 1..n : d[i] = branch[i]
  BY Grows
<1>2. /\ LiveFrom \in Nat
      /\ c # 0 => LiveFrom <= branch[c].id
      /\ \A i : i \in LiveEntries <=> i \in 1..n /\ ~IsCompaction(branch[i]) /\ branch[i].id >= LiveFrom
  BY LiveIs
<1>3. c \in 0..n /\ (\A i \in 1..n : IsCompaction(branch[i]) => i <= c) /\ (c # 0 => IsCompaction(branch[c]))
  BY NewestCompaction
<1>4. \A i, j \in 1..n : i < j => branch[i].id < branch[j].id
  BY DEF BranchSound
<1>5. e.id \in Nat /\ e.kept \in Nat /\ upTo \in Nat /\ upTo = Boundary(d, n + 1)
  BY <1>1 DEF PiEntries, Boundary
<1>6. LiveFrom <= upTo /\ upTo <= e.id
  <2>1. LiveFrom <= e.id
    BY <1>0, <1>2, <1>3, <1>5 DEF LiveFrom
  <2>2. CASE e.kept # 0
    <3>1. PICK i \in LiveEntries : branch[i].id = e.kept
      BY <2>2 DEF CutSound
    <3> QED BY <1>0, <1>2, <1>5, <2>2, <3>1
  <2> QED BY <1>5, <2>1, <2>2
<1> HIDE DEF n, d, c
<1>7. KeepsAnEntry(d, n + 1)
  <2>1. CASE e.kept # 0
    <3>1. PICK i \in LiveEntries : branch[i].id = e.kept
      BY <2>1 DEF CutSound
    <3>2. i \in 1..n /\ ~IsCompaction(branch[i]) /\ branch[i].id < e.id /\ d[i] = branch[i]
      BY <1>1, <1>2, <3>1 DEF n
    <3> QED BY <1>0, <1>1, <3>1, <3>2 DEF KeepsAnEntry
  <2>2. CASE e.kept = 0
    BY <1>1, <1>5, <2>2 DEF KeepsAnEntry
  <2> QED BY <2>1, <2>2
<1>8. CoversUpTo(d, n + 1)
  <2> SUFFICES ASSUME ChainedTo(d, n + 1)
               PROVE  /\ \A i \in 1..(n + 1) : Speaks(d[i]) /\ d[i].id < upTo => d[i].id \in e.covers
                      /\ \A x \in e.covers : x < upTo
    BY <1>1, <1>5 DEF CoversUpTo
  <2>1. prior = IF c = 0 THEN {} ELSE branch[c].covers
    <3>1. \A i \in 1..n : i \in 1..(n + 1) /\ n + 1 \in 1..(n + 1) /\ i < n + 1
      BY <1>0
    <3>2. e.by # "pi" => \A i \in 1..n : IsCompaction(branch[i]) => branch[i].by # "pi"
      BY <1>1, <3>1 DEF ChainedTo
    <3> QED BY <3>2 DEF n, c
  <2>2. c # 0 => c \in 1..n /\ CoversUpTo(branch, c) /\ ChainedTo(branch, c) /\ LiveFrom = Boundary(branch, c)
    <3> SUFFICES ASSUME c # 0 PROVE c \in 1..n /\ CoversUpTo(branch, c) /\ ChainedTo(branch, c)
                                    /\ LiveFrom = Boundary(branch, c)
      OBVIOUS
    <3>1. c \in 1..n
      BY <1>0, <1>3
    <3>2. \A i \in 1..c : i \in 1..(n + 1) /\ d[i] = branch[i]
      BY <1>0, <1>1, <3>1
    <3>3. ChainedTo(branch, c)
      BY <3>2 DEF ChainedTo
    <3> QED
      BY <1>3, <3>1, <3>3 DEF BranchSound, CompactionSound, LiveFrom, n, c
  <2>3. ASSUME NEW i \in 1..(n + 1), Speaks(d[i]), d[i].id < upTo
        PROVE  d[i].id \in e.covers
    <3>1. i # n + 1
      BY <1>1, <2>3 DEF Speaks, IsCompaction
    <3>2. i \in 1..n /\ d[i] = branch[i] /\ ~IsCompaction(branch[i]) /\ branch[i].id \in Nat
      BY <1>0, <1>1, <2>3, <3>1 DEF Speaks, IsCompaction
    <3>3. CASE branch[i].id >= LiveFrom
      <4>1. i \in LiveEntries
        BY <1>2, <3>2, <3>3 DEF n
      <4>2. e.kept = 0 \/ branch[i].id < e.kept
        BY <2>3, <3>2
      <4>3. branch[i].id \in gone
        BY <4>1, <4>2 DEF CutSound
      <4> QED BY <2>3, <3>2, <4>3 DEF n
    <3>4. CASE ~(branch[i].id >= LiveFrom)
      <4>1. c # 0
        BY <3>2, <3>4 DEF LiveFrom, c
      <4>2. c \in 1..n /\ branch[i].id < branch[c].id
        BY <1>0, <1>2, <2>2, <3>2, <3>4, <4>1
      <4>3. i \in 1..c
        BY <1>0, <1>4, <3>2, <4>2 DEF n
      <4>4. branch[i].id \in branch[c].covers
        BY <1>2, <2>2, <2>3, <3>2, <3>4, <4>1, <4>3 DEF CoversUpTo
      <4> QED BY <2>1, <3>2, <4>1, <4>4
    <3> QED BY <3>3, <3>4
  <2>4. ASSUME NEW x \in e.covers PROVE x < upTo
    <3>0. x \in Nat
      BY DEF PiEntries
    <3>1. CASE x \in gone
      <4>1. PICK i \in LiveEntries : x = branch[i].id /\ (e.kept = 0 \/ x < e.kept)
        BY <3>1 DEF CutSound
      <4>2. branch[i].id < e.id
        BY <1>2 DEF n
      <4> QED BY <4>1, <4>2
    <3>2. CASE x \in prior
      <4>1. c # 0 /\ x < LiveFrom
        BY <2>1, <2>2, <3>2 DEF CoversUpTo
      <4> HIDE DEF upTo
      <4> QED BY <1>2, <1>5, <1>6, <3>0, <4>1
    <3> QED BY <3>1, <3>2
  <2> QED BY <2>3, <2>4
<1>9. TailAt(d, n + 1)
  <2> SUFFICES ASSUME e.by \in {"offline", "hybrid"}, e.kept # 0
               PROVE  \E i \in 1..n : d[i].id = e.kept /\ IsTurn(d[i])
                        /\ Cardinality({j \in i..n : IsTurn(d[j])}) = TailTurns
    <3>1. (n + 1) - 1 = n
      BY <1>0
    <3> QED
      BY <1>1, <3>1 DEF TailAt
  <2>1. PICK i \in LiveTurns : branch[i].id = e.kept /\ Cardinality(TurnsFrom(i)) = TailTurns
    BY DEF TailSound
  <2>2. i \in LiveEntries /\ IsTurn(branch[i])
    BY DEF LiveTurns
  <2>3. i \in 1..n /\ branch[i].id >= LiveFrom
    BY <1>2, <2>2 DEF n
  <2>4. \A j : j \in TurnsFrom(i) <=> j \in i..n /\ IsTurn(d[j])
    <3>1. \A j \in i..n : j \in 1..n /\ d[j] = branch[j] /\ branch[j].id >= LiveFrom
      BY <1>0, <1>1, <1>2, <1>4, <2>3 DEF n
    <3>2. \A j \in 1..n : IsTurn(branch[j]) => ~IsCompaction(branch[j])
      BY DEF IsTurn, IsCompaction
    <3>3. \A j : j \in TurnsFrom(i) <=> j \in LiveEntries /\ IsTurn(branch[j]) /\ j >= i
      BY DEF TurnsFrom, LiveTurns
    <3> QED BY <1>0, <1>2, <2>3, <3>1, <3>2, <3>3 DEF n
  <2>5. TurnsFrom(i) = {j \in i..n : IsTurn(d[j])}
    BY <2>4
  <2> QED BY <1>1, <2>1, <2>2, <2>3, <2>5
<1> QED
  BY <1>7, <1>8, <1>9 DEF CompactionSound, n, d

\* Pi cuts before a live entry.
LEMMA PiCutsSound ==
  ASSUME branch \in Seq(PiEntries), BranchSound(branch), NEW cut \in PiCuts
  PROVE  cut.kept \in Nat /\ CutSound(cut.messages, cut.kept)
<1>1. PICK i \in LiveEntries : cut = CutBefore(i)
  BY DEF PiCuts
<1>2. \A j : j \in LiveEntries => j \in 1..Len(branch) /\ branch[j].id \in Nat \ {0}
  BY LiveIs, EntriesAre DEF PiEntries, BranchSound
<1>3. \A j \in LiveEntries : j < i <=> branch[j].id < branch[i].id
  BY <1>2 DEF BranchSound
<1>4. cut.kept = branch[i].id /\ cut.messages = {branch[j].id : j \in {k \in LiveEntries : k < i}}
  BY <1>1 DEF CutBefore, IdsAt, Before
<1> QED
  BY <1>2, <1>3, <1>4 DEF CutSound

\* The plugin cuts before the turn that starts the tail, or after everything.
LEMMA CutOfSound ==
  ASSUME branch \in Seq(PiEntries), BranchSound(branch)
  PROVE  CutOf.kept \in Nat /\ CutSound(CutOf.messages, CutOf.kept) /\ TailSound(CutOf.kept)
<1>1. CASE CutAt = {}
  <2>1. CutOf.kept = 0 /\ CutOf.messages = {branch[i].id : i \in LiveEntries}
    BY <1>1 DEF CutOf, IdsAt
  <2>2. \A j : j \in LiveEntries => branch[j].id \in Nat
    BY LiveIs, EntriesAre DEF PiEntries
  <2> QED BY <2>1, <2>2 DEF CutSound, TailSound
<1>2. CASE CutAt # {}
  <2>1. PICK i \in CutAt : CutOf = CutBefore(i)
    BY <1>2 DEF CutOf
  <2>2. i \in LiveTurns /\ i \in LiveEntries /\ Before(i) # {} /\ Cardinality(TurnsFrom(i)) = TailTurns
    BY DEF CutAt, LiveTurns
  <2>3. CutOf \in PiCuts
    BY <2>1, <2>2 DEF PiCuts
  <2>4. CutOf.kept = branch[i].id
    BY <2>1 DEF CutBefore
  <2> QED BY <2>2, <2>3, <2>4, PiCutsSound DEF TailSound
<1> QED BY <1>1, <1>2

\* What was said is in the records, whatever is pinned.
LEMMA SaidIsRecorded ==
  ASSUME branch \in Seq(PiEntries), BranchSound(branch), NEW gone, NEW pinned,
         NEW i \in 1..Len(branch), Speaks(branch[i]), branch[i].id \in gone
  PROVE  branch[i].id \in Records(gone, pinned)
<1>1. ASSUME branch[i].id \in Attachments PROVE FALSE
  <2>1. PICK e \in ToSet(branch) : e.kind \in {"cat", "pinned"} /\ branch[i].id = e.id
    BY <1>1 DEF Attachments
  <2>2. PICK j \in 1..Len(branch) : e = branch[j]
    BY EntriesAre
  <2>3. branch[i].id \in Nat /\ branch[j].id \in Nat /\ i \in Nat /\ j \in Nat
    <3>1. branch[i] \in PiEntries /\ branch[j] \in PiEntries /\ Len(branch) \in Nat
      BY EntriesAre
    <3>2. \A x \in PiEntries : x.id \in Nat
      BY ONLY DEF PiEntries
    <3> QED  BY <3>1, <3>2
  <2>4. i = j
    BY <2>1, <2>2, <2>3 DEF BranchSound
  <2> QED BY <2>1, <2>2, <2>4 DEF Speaks
<1> QED BY <1>1 DEF Records

----------------------------------------------------------------------------
(* The steps. *)

LEMMA BranchGrows ==
  ASSUME BranchInv, NEW b \in Seq(PiEntries), Shares(branch, b, Len(b)),
         NEW e \in PiEntries, e.id = lastId + 1,
         IsCompaction(e) => CompactionSound(Append(b, e), Len(b) + 1),
         branch' = Append(b, e), lastId' = lastId + 1, handles' = handles
  PROVE  BranchInv'
<1> DEFINE n == Len(b)
<1> USE DEF BranchInv
<1>1. n \in Nat /\ n <= Len(branch) /\ \A i \in 1..n : i \in 1..Len(branch) /\ b[i] = branch[i]
  BY DEF Shares
<1>2. /\ branch' \in Seq(PiEntries) /\ Len(branch') = n + 1 /\ branch'[n + 1] = e
      /\ \A i \in 1..n : branch'[i] = branch[i]
  BY <1>1, Grows
<1>3. \A i \in 1..(n + 1) : i \in 1..n \/ i = n + 1
  BY <1>1
<1>4. \A i \in 1..n : branch[i].id \in Nat /\ branch[i].id <= lastId
  BY <1>1, EntriesAre DEF PiEntries
<1> HIDE DEF n
<1>5. BranchSound(branch')
  <2>1. Shares(branch, branch', n)
    BY <1>1, <1>2 DEF Shares
  <2>2. /\ \A i \in 1..n : branch[i].id < e.id
        /\ e.id # 0
    BY <1>4
  <2>3. IsCompaction(branch'[n + 1]) => CompactionSound(branch', n + 1)
    BY <1>2 DEF n
  <2> QED BY <1>1, <1>2, <2>1, <2>2, <2>3, SoundGrows
<1>6. ASSUME NEW h \in handles PROVE HandleSound(branch, h)'
  <2>1. HandleSound(branch, h) /\ h.id \in Nat
    OBVIOUS
  <2>2. branch' # <<>> /\ h.id <= lastId'
    <3>1. h.id <= lastId'
      BY <2>1 DEF HandleSound
    <3>2. Len(branch') # 0
      BY <1>1, <1>2
    <3> QED BY <3>1, <3>2
  <2>3. ASSUME NEW i \in 1..Len(branch'), branch'[i].id = h.id
        PROVE  branch'[i].kind \in Talk /\ (i > 1 => h.marker = branch'[2].id)
    <3>1. i \in 1..n
      BY <1>2, <1>3, <2>1, <2>3 DEF HandleSound
    <3>2. i > 1 => 2 \in 1..n
      BY <1>1, <3>1
    <3> QED BY <1>1, <1>2, <2>1, <2>3, <3>1, <3>2 DEF HandleSound
  <2> QED BY <2>2, <2>3 DEF HandleSound
<1>7. \A i \in 1..Len(branch') : branch'[i].id <= lastId'
  <2>1. branch'[n + 1].id <= lastId'
    BY <1>2
  <2>2. ASSUME NEW i \in 1..n PROVE branch'[i].id <= lastId'
    <3>1. branch'[i] = branch[i] /\ branch[i].id \in Nat /\ branch[i].id <= lastId /\ lastId \in Nat
      BY <1>2, <1>4
    <3> QED BY <3>1
  <2> QED BY <1>2, <1>3, <2>1, <2>2
<1> QED
  BY <1>2, <1>5, <1>6, <1>7

LEMMA BranchIsCut ==
  ASSUME BranchInv, NEW n \in 1..Len(branch), branch' = SubSeq(branch, 1, n),
         UNCHANGED <<lastId, handles>>
  PROVE  BranchInv'
<1> USE DEF BranchInv
<1>1. /\ branch' \in Seq(PiEntries) /\ Len(branch') = n
      /\ \A i \in 1..n : i \in 1..Len(branch) /\ branch'[i] = branch[i]
  BY IsCut
<1>2. BranchSound(branch')
  <2>1. Shares(branch, branch', n) /\ n \in Nat /\ n # n + 1
    BY <1>1 DEF Shares
  <2> QED BY <1>1, <2>1, SoundGrows
<1>3. ASSUME NEW h \in handles PROVE HandleSound(branch, h)'
  <2>1. HandleSound(branch, h)
    OBVIOUS
  <2>2. branch' # <<>>
    <3>1. Len(branch') > 0
      BY <1>1
    <3> QED BY <3>1
  <2>3. \A i \in 1..n : i > 1 => 2 \in 1..n
    OBVIOUS
  <2> QED BY <1>1, <2>1, <2>2, <2>3 DEF HandleSound
<1> QED
  BY <1>1, <1>2, <1>3

\* The live branch is a function of the branch.
LEMMA CutsStay ==
  ASSUME UNCHANGED branch
  PROVE  /\ \A m, k : CutSound(m, k)' <=> CutSound(m, k)
         /\ \A k : TailSound(k)' <=> TailSound(k)
<1>1. Newest(Compactions)' = Newest(Compactions)
  BY DEF Newest, Compactions
<1>2. LiveStart' = LiveStart
  BY <1>1 DEF LiveStart, Ids, IndexOf
<1>3. LiveEntries' = LiveEntries
  BY <1>2 DEF LiveEntries
<1>4. LiveTurns' = LiveTurns /\ \A i : TurnsFrom(i)' = TurnsFrom(i)
  BY <1>3 DEF LiveTurns, TurnsFrom
<1> QED BY <1>3, <1>4 DEF CutSound, TailSound

LEMMA HookStays ==
  ASSUME HookSound, UNCHANGED <<branch, mode, hook>>,
         hook.at # "none" => updater'[Me].at = "none"
  PROVE  HookSound'
BY CutsStay DEF HookSound

LEMMA HookIsNone ==
  ASSUME hook' \in [at : {"none"}, messages : SUBSET Nat, kept : Nat, to : Nat, pinned : BOOLEAN]
  PROVE  HookSound'
BY DEF HookSound

LEMMA NoHookIs == NoHook \in [at : {"none"}, messages : SUBSET Nat, kept : Nat, to : Nat, pinned : BOOLEAN]
BY DEF NoHook

LEMMA Says ==
  ASSUME PiInv, NEW kind \in Talk, Append1(PiEntry(kind, 0, {}, "none")), UNCHANGED handles
  PROVE  BranchInv'
<1> USE DEF PiInv, BranchInv
<1>1. PiEntry(kind, 0, {}, "none") \in PiEntries /\ PiEntry(kind, 0, {}, "none").id = lastId + 1
  BY DEF PiEntry, PiEntries
<1>2. ~IsCompaction(PiEntry(kind, 0, {}, "none"))
  BY DEF PiEntry, IsCompaction, Talk
<1>3. Shares(branch, branch, Len(branch))
  BY DEF Shares
<1> QED
  BY <1>1, <1>2, <1>3, BranchGrows DEF Append1

\* A summary of what is left behind in the tree.
LEMMA Summarises ==
  ASSUME PiInv, NEW n \in 1..Len(branch), NEW covers \in SUBSET Nat,
         NEW by \in {"none", "pi", "off", "offline", "hybrid"},
         branch' = Append(SubSeq(branch, 1, n), PiEntry("branch", 0, covers, by)),
         lastId' = lastId + 1, UNCHANGED handles
  PROVE  BranchInv'
<1> DEFINE e == PiEntry("branch", 0, covers, by)
           b == SubSeq(branch, 1, n)
<1> USE DEF PiInv
<1>0. BranchInv
  OBVIOUS
<1>1. e \in PiEntries /\ e.id = lastId + 1 /\ ~IsCompaction(e)
  BY DEF BranchInv, PiEntry, PiEntries, IsCompaction
<1>2. b \in Seq(PiEntries) /\ Shares(branch, b, Len(b))
  BY IsCut DEF BranchInv, Shares
<1> HIDE DEF e, b
<1> QED
  BY <1>0, <1>1, <1>2, BranchGrows DEF e, b

\* A compaction, by the plugin or by Pi.
LEMMA CompactionSounds ==
  ASSUME PiInv, NEW gone, NEW kept \in Nat, CutSound(gone, kept),
         NEW covers \in SUBSET Nat, NEW prior, NEW by \in {"pi", "off", "offline", "hybrid"},
         by \in {"offline", "hybrid"} => TailSound(kept),
         (by = "pi" \/ \A i \in 1..Len(branch) : IsCompaction(branch[i]) => branch[i].by # "pi")
            => prior = IF NewestAt = 0 THEN {} ELSE branch[NewestAt].covers,
         covers \subseteq prior \cup gone, prior \subseteq covers,
         \A i \in 1..Len(branch) : Speaks(branch[i]) /\ branch[i].id \in gone => branch[i].id \in covers,
         Append1(PiEntry("compaction", kept, covers, by)), UNCHANGED handles
  PROVE  BranchInv'
<1> DEFINE e == PiEntry("compaction", kept, covers, by)
<1>0. BranchInv /\ branch \in Seq(PiEntries) /\ BranchSound(branch) /\ lastId \in Nat
      /\ branch' = Append(branch, e) /\ lastId' = lastId + 1
  BY DEF PiInv, BranchInv, Append1
<1>1. /\ e \in PiEntries /\ e.id = lastId + 1 /\ e.id # 0 /\ IsCompaction(e)
      /\ e.kept = kept /\ e.covers = covers /\ e.by = by
  BY <1>0 DEF PiEntry, PiEntries, IsCompaction
<1>2. Shares(branch, branch, Len(branch))
  BY <1>0 DEF Shares
<1>3. \A i \in 1..Len(branch) : branch[i].id < e.id
  <2>1. \A i \in 1..Len(branch) : branch[i].id \in Nat /\ branch[i].id <= lastId
    BY <1>0, EntriesAre DEF PiEntries, BranchInv
  <2> QED BY <1>0, <1>1, <2>1
<1> HIDE DEF e
<1>4. CompactionSound(Append(branch, e), Len(branch) + 1)
  BY <1>0, <1>1, <1>3, CompactionIsSound
<1> QED
  BY <1>0, <1>1, <1>2, <1>4, BranchGrows

LEMMA StepReturns ==
  ASSUME PiInv, HookReturns PROVE PiInv'
<1> USE DEF HookReturns, PiInv
<1> DEFINE covers == SummaryCovers(hook.messages, hook.pinned)
<1>1. /\ branch \in Seq(PiEntries) /\ BranchSound(branch)
      /\ hook.messages \in SUBSET Nat /\ hook.kept \in Nat /\ hook.to \in Nat /\ hook.to < Len(branch)
  BY DEF HookSound, BranchInv
<1>2. PriorCovers \in SUBSET Nat /\ Records(hook.messages, hook.pinned) \subseteq hook.messages
  BY <1>1, PriorIs DEF Records
<1>3. covers = PriorCovers \cup Records(hook.messages, hook.pinned)
  BY DEF SummaryCovers
<1> HIDE DEF covers
<1>4. covers \in SUBSET Nat /\ covers \subseteq PriorCovers \cup hook.messages /\ PriorCovers \subseteq covers
  BY <1>1, <1>2, <1>3
<1>5. BranchInv'
  <2>1. CASE hook.to = 0
    <3>1. CutSound(hook.messages, hook.kept) /\ (mode # "off" => TailSound(hook.kept))
      BY <2>1 DEF HookSound
    <3>2. \A i \in 1..Len(branch) : Speaks(branch[i]) /\ branch[i].id \in hook.messages => branch[i].id \in covers
      BY <1>1, <1>3, SaidIsRecorded
    <3>3. Append1(PiEntry("compaction", hook.kept, covers, mode))
      BY <2>1 DEF covers
    <3>4. mode # "pi" /\ mode \in {"pi", "off", "offline", "hybrid"}
      OBVIOUS
    <3>5. (mode = "pi" \/ \A i \in 1..Len(branch) : IsCompaction(branch[i]) => branch[i].by # "pi")
            => PriorCovers = IF NewestAt = 0 THEN {} ELSE branch[NewestAt].covers
      BY <1>1, <3>4, PriorIs
    <3>6. mode \in {"offline", "hybrid"} => TailSound(hook.kept)
      BY <3>1
    <3>7. PiInv /\ UNCHANGED handles
      OBVIOUS
    <3> HIDE DEF PiInv, HookReturns
    <3> QED
      BY ONLY <1>1, <1>4, <3>1, <3>2, <3>3, <3>4, <3>5, <3>6, <3>7, CompactionSounds, ZenonT(60)
  <2>2. CASE hook.to # 0
    <3>1. hook.to \in 1..Len(branch)
      BY <1>1, <2>2
    <3>2. branch' = Append(SubSeq(branch, 1, hook.to), PiEntry("branch", 0, covers, mode)) /\ lastId' = lastId + 1
      BY <2>2 DEF covers
    <3> QED
      BY <1>4, <3>1, <3>2, Summarises
  <2> QED BY <2>1, <2>2
<1>6. HookSound'
  BY NoHookIs, HookIsNone
<1> QED
  BY <1>5, <1>6 DEF pinvars, Updates

LEMMA StepPiCompacts ==
  ASSUME PiInv, PiCompacts PROVE PiInv'
<1> USE DEF PiCompacts, PiInv
<1>1. /\ branch \in Seq(PiEntries) /\ BranchSound(branch)
      /\ hook.messages \in SUBSET Nat /\ hook.to \in Nat /\ hook.to < Len(branch)
  BY DEF HookSound, BranchInv
<1>2. ASSUME hook.to = 0 PROVE BranchInv'
  <2>1. PICK cut \in PiCuts : Append1(PiEntry("compaction", cut.kept,
          cut.messages \cup (IF NewestAt = 0 THEN {} ELSE branch[NewestAt].covers), "pi"))
    BY <1>2 DEF NewestAt
  <2> DEFINE prior == IF NewestAt = 0 THEN {} ELSE branch[NewestAt].covers
  <2>2. cut.kept \in Nat /\ CutSound(cut.messages, cut.kept) /\ cut.messages \in SUBSET Nat
    BY <1>1, PiCutsSound DEF CutSound
  <2>3. prior \in SUBSET Nat
    <3>1. \A i \in 1..Len(branch) : branch[i].covers \in SUBSET Nat
      BY <1>1, EntriesAre DEF PiEntries
    <3>2. NewestAt # 0 => NewestAt \in 1..Len(branch)
      BY <1>1, NewestCompaction
    <3> QED BY <3>1, <3>2
  <2>4. prior = IF NewestAt = 0 THEN {} ELSE branch[NewestAt].covers
    OBVIOUS
  <2>5. Append1(PiEntry("compaction", cut.kept, cut.messages \cup prior, "pi"))
    BY <2>1
  <2> HIDE DEF prior
  <2>6. cut.messages \cup prior \in SUBSET Nat
    BY <2>2, <2>3
  <2> QED
    <3>1. PiInv /\ UNCHANGED handles
      OBVIOUS
    <3>2. \A i \in 1..Len(branch) : branch[i].id \in cut.messages => branch[i].id \in cut.messages \cup prior
      OBVIOUS
    <3> HIDE DEF PiInv, PiCompacts
    <3> QED
      BY ONLY <1>1, <2>2, <2>4, <2>5, <2>6, <3>1, <3>2, CompactionSounds, ZenonT(60)
<1>3. ASSUME hook.to # 0 PROVE BranchInv'
  <2>1. hook.to \in 1..Len(branch)
    BY <1>1, <1>3
  <2> QED
    BY <1>1, <1>3, <2>1, Summarises
<1>4. HookSound'
  BY NoHookIs, HookIsNone
<1> QED
  BY <1>2, <1>3, <1>4 DEF pinvars, Updates

LEMMA StepBegins ==
  ASSUME PiInv, BeginCompact PROVE PiInv'
<1> USE DEF BeginCompact, PiInv
<1>1. branch \in Seq(PiEntries) /\ BranchSound(branch) /\ BranchInv'
  BY DEF BranchInv, HandleSound
<1>2. PICK cut \in IF mode = "off" THEN PiCuts ELSE {CutOf} :
        hook' = [at |-> IF mode # "off" /\ Cardinality(LiveEntries) <= 2 THEN "native"
                        ELSE IF mode = "offline" THEN "embed" ELSE "model",
                 messages |-> cut.messages, kept |-> cut.kept, to |-> 0, pinned |-> MyPin]
  OBVIOUS
<1>3. cut.kept \in Nat /\ CutSound(cut.messages, cut.kept) /\ (mode # "off" => TailSound(cut.kept))
  BY <1>1, PiCutsSound, CutOfSound
<1>4. MyPin \in BOOLEAN
  BY DEF MyPin
<1>5. hook' \in [at : {"none", "model", "embed", "native"}, messages : SUBSET Nat, kept : Nat,
                 to : Nat, pinned : BOOLEAN]
  BY <1>2, <1>3, <1>4 DEF CutSound
<1>6. hook'.messages = cut.messages /\ hook'.kept = cut.kept /\ hook'.to = 0
  BY <1>2
<1>7. 0 < Len(branch)
  <2>1. LiveEntries # {}
    BY FS_EmptySet
  <2> QED BY <1>1, <2>1, LiveIs, EntriesAre
<1>8. HookSound'
  <2>1. updater'[Me].at = "none"
    BY DEF PiIdle, pinvars
  <2>2. CutSound(cut.messages, cut.kept)' /\ (mode # "off" => TailSound(cut.kept)')
    BY <1>3, CutsStay
  <2>3. hook'.to < Len(branch')
    BY <1>6, <1>7
  <2> QED BY <1>5, <1>6, <2>1, <2>2, <2>3 DEF HookSound
<1> QED
  BY <1>1, <1>8 DEF pinvars, Updates

LEMMA StepBeginsTree ==
  ASSUME PiInv, BeginTree PROVE PiInv'
<1> USE DEF BeginTree, PiInv
<1>1. branch \in Seq(PiEntries) /\ BranchInv'
  BY DEF BranchInv, HandleSound
<1>2. PICK i \in 1..(Len(branch) - 1) :
         hook' = [NoHook EXCEPT !.at = IF mode = "offline" THEN "embed" ELSE "model", !.to = i,
                    !.messages = Ids(SubSeq(branch, i + 1, Len(branch))), !.pinned = MyPin]
  OBVIOUS
<1>3. Ids(SubSeq(branch, i + 1, Len(branch))) \in SUBSET Nat
  <2> DEFINE b == SubSeq(branch, i + 1, Len(branch))
  <2>1. b \in Seq(PiEntries)
    BY <1>1
  <2> HIDE DEF b
  <2>2. DOMAIN b = 1..Len(b) /\ \A k \in 1..Len(b) : b[k] \in PiEntries
    BY <2>1
  <2>3. \A k \in DOMAIN b : b[k].id \in Nat
    BY <2>2 DEF PiEntries
  <2> QED BY <2>3 DEF Ids, ToSet, b
<1>4. MyPin \in BOOLEAN
  BY DEF MyPin
<1>5. hook' \in [at : {"none", "model", "embed", "native"}, messages : SUBSET Nat, kept : Nat,
                 to : Nat, pinned : BOOLEAN]
  <2>1. hook' = [at |-> IF mode = "offline" THEN "embed" ELSE "model",
                 messages |-> Ids(SubSeq(branch, i + 1, Len(branch))), kept |-> 0, to |-> i, pinned |-> MyPin]
    BY <1>2 DEF NoHook
  <2>2. i \in Nat
    BY <1>1
  <2> QED BY <1>3, <1>4, <2>1, <2>2
<1>6. hook'.to # 0 /\ hook'.to < Len(branch)
  BY <1>1, <1>2 DEF NoHook
<1>7. HookSound'
  BY <1>5, <1>6 DEF HookSound, PiIdle, pinvars
<1> QED
  BY <1>1, <1>7 DEF pinvars, Updates

LEMMA StepModel ==
  ASSUME PiInv, ModelReturns PROVE PiInv'
<1> USE DEF ModelReturns, PiInv
<1>1. BranchInv'
  BY DEF BranchInv, HandleSound
<1>2. CASE hook' = NoHook
  BY <1>1, <1>2, NoHookIs, HookIsNone DEF pinvars, Updates
<1>3. CASE hook' \in {[hook EXCEPT !.at = "embed"], [hook EXCEPT !.at = "native"]}
  <2>1. /\ hook' \in [at : {"none", "model", "embed", "native"}, messages : SUBSET Nat, kept : Nat,
                      to : Nat, pinned : BOOLEAN]
        /\ hook'.messages = hook.messages /\ hook'.kept = hook.kept /\ hook'.to = hook.to
    BY <1>3 DEF HookSound
  <2>2. HookSound'
    BY <2>1, CutsStay DEF HookSound, pinvars
  <2> QED
    BY <1>1, <2>2 DEF pinvars, Updates
<1> QED BY <1>2, <1>3

LEMMA StepDiscovers ==
  ASSUME PiInv, Discover PROVE PiInv'
<1> USE DEF Discover, PiInv
<1>1. branch \in Seq(PiEntries) /\ BranchSound(branch) /\ lastId \in Nat
  BY DEF BranchInv
<1>2. PICK k \in 1..Len(branch) : branch[k].kind \in Talk /\ handles' = {[id |-> branch[k].id, marker |-> Marker]}
  BY <1>1, EntriesAre DEF RecallEntries, PiHandle
<1>3. Len(branch) \in Nat \ {0} /\ \A i \in 1..Len(branch) : branch[i].id \in Nat
  <2>1. Len(branch) \in Nat /\ \A i \in 1..Len(branch) : branch[i] \in PiEntries
    BY <1>1, EntriesAre
  <2>2. \A x \in PiEntries : x.id \in Nat
    BY ONLY DEF PiEntries
  <2>3. Len(branch) # 0
    BY <1>2, <2>1
  <2> QED  BY ONLY <2>1, <2>2, <2>3
<1>4. Marker \in Nat /\ (Len(branch) > 1 => Marker = branch[2].id)
  BY <1>3 DEF Marker
<1>5. HandleSound(branch, [id |-> branch[k].id, marker |-> Marker])
  <2>1. ASSUME NEW i \in 1..Len(branch), branch[i].id = branch[k].id PROVE i = k
    <3>1. i \in Nat /\ k \in Nat /\ branch[i].id \in Nat
      BY <1>3
    <3>2. /\ i < k => branch[i].id < branch[k].id
          /\ k < i => branch[k].id < branch[i].id
      BY <1>1 DEF BranchSound
    <3> QED BY <2>1, <3>1, <3>2
  <2>2. branch[k].id <= lastId
    BY DEF BranchInv
  <2>3. branch # <<>>
    BY <1>3
  <2>4. \A i \in 1..Len(branch) : i > 1 => Len(branch) > 1
    BY <1>3
  <2> QED BY <1>2, <1>4, <2>1, <2>2, <2>3, <2>4 DEF HandleSound
<1>6. BranchInv'
  <2>1. PICK h \in [id : Nat, marker : Nat] : handles' = {h} /\ HandleSound(branch, h)
    <3>1. [id |-> branch[k].id, marker |-> Marker] \in [id : Nat, marker : Nat]
      BY <1>3, <1>4
    <3> QED BY <1>2, <1>5, <3>1
  <2>2. HandleSound(branch, h)'
    BY <2>1 DEF HandleSound
  <2> QED BY <2>1, <2>2 DEF BranchInv
<1>7. HookSound'
  BY HookStays DEF pinvars, PiIdle
<1> QED
  BY <1>6, <1>7 DEF pinvars, Updates

LEMMA StepTalks ==
  ASSUME PiInv, SessionStart \/ Speak \/ GoBack PROVE PiInv'
<1> USE DEF PiInv
<1>1. hook.at = "none" /\ hook' = hook /\ UNCHANGED pinvars
  BY DEF SessionStart, Speak, GoBack, PiIdle
<1>2. HookSound'
  BY <1>1 DEF HookSound
<1>3. CASE SessionStart
  <2>1. BranchInv' /\ mode' \in {"off", "offline", "hybrid"}
    BY <1>3, PiAssumption DEF SessionStart, BranchInv, HandleSound
  <2> QED BY <1>1, <1>2, <2>1 DEF pinvars, Updates
<1>4. CASE Speak
  <2>1. Said \subseteq Talk
    BY PiAssumption DEF Talk
  <2>2. BranchInv' /\ mode' = mode
    BY <1>4, <2>1, Says DEF Speak
  <2> QED BY <1>1, <1>2, <2>2 DEF pinvars, Updates
<1>5. CASE GoBack
  <2>1. PICK n \in 1..(Len(branch) - 1) : branch' = SubSeq(branch, 1, n)
    BY <1>5 DEF GoBack
  <2>2. n \in 1..Len(branch)
    BY EntriesAre DEF BranchInv
  <2>3. BranchInv' /\ mode' = mode
    BY <1>5, <2>1, <2>2, BranchIsCut DEF GoBack
  <2> QED BY <1>1, <1>2, <2>3 DEF pinvars, Updates
<1> QED BY <1>3, <1>4, <1>5

LEMMA StepPins ==
  ASSUME PiInv, NEW s \in PinSessions,
         LockPins(s) \/ ReadPins(s) \/ WritePins(s) \/ PinnerDies(s)
  PROVE  PiInv'
<1> USE DEF PiInv
<1>0. Me \in PinSessions /\ mode' = mode /\ hook' = hook
  BY DEF PinSessions, LockPins, ReadPins, WritePins, PinnerDies
<1>1. CASE LockPins(s)
  <2> USE <1>1 DEF LockPins
  <2>1. Updates'
    BY DEF Updates, NoUpdate
  <2>2. HookSound'
    BY <1>0, HookStays DEF Updates, HookSound
  <2> QED BY <2>1, <2>2 DEF BranchInv, HandleSound
<1>2. CASE ReadPins(s)
  <2> USE <1>2 DEF ReadPins
  <2>1. Updates'
    BY DEF Updates
  <2>2. HookSound'
    BY <1>0, HookStays DEF Updates, HookSound
  <2> QED BY <2>1, <2>2 DEF BranchInv, HandleSound
<1>3. CASE WritePins(s)
  <2> USE <1>3 DEF WritePins
  <2>1. Updates'
    BY DEF Updates, NoUpdate
  <2>2. CASE s = Me /\ updater[s].op = "save"
    <3>1. BranchInv'
      BY <2>2, Says DEF Talk
    <3>2. HookSound'
      BY <1>0, <2>2 DEF HookSound
    <3> QED BY <1>0, <2>1, <3>1, <3>2
  <2>3. CASE ~(s = Me /\ updater[s].op = "save")
    <3>1. UNCHANGED <<branch, lastId>>
      BY <2>3
    <3>2. updater[Me].at = "none" => updater'[Me].at = "none"
      BY <1>0 DEF Updates, NoUpdate
    <3>3. HookSound'
      BY <1>0, <3>1, <3>2, HookStays DEF HookSound
    <3> QED BY <2>1, <3>1, <3>3 DEF BranchInv, HandleSound
  <2> QED BY <2>2, <2>3
<1>4. CASE PinnerDies(s)
  <2> USE <1>4 DEF PinnerDies
  <2>1. Updates'
    BY DEF Updates
  <2>2. HookSound'
    BY <1>0, HookStays DEF Updates, HookSound
  <2> QED BY <2>1, <2>2 DEF BranchInv, HandleSound
<1> QED BY <1>1, <1>2, <1>3, <1>4

LEMMA PiStep == PiInv /\ [PiNext]_pivars => PiInv'
<1> SUFFICES ASSUME PiInv, [PiNext]_pivars PROVE PiInv'
  OBVIOUS
<1>1. CASE SessionStart \/ Speak \/ GoBack \/ Discover
  BY <1>1, StepTalks, StepDiscovers
<1>2. CASE BeginCompact \/ BeginTree \/ ModelReturns \/ HookReturns \/ PiCompacts
  BY <1>2, StepBegins, StepBeginsTree, StepModel, StepReturns, StepPiCompacts
<1>3. CASE \E s \in PinSessions : LockPins(s) \/ ReadPins(s) \/ WritePins(s) \/ PinnerDies(s)
  BY <1>3, StepPins
<1>4. CASE UNCHANGED pivars
  <2>1. HookSound'
    BY <1>4, HookStays DEF PiInv, HookSound, pivars
  <2> QED
    BY <1>4, <2>1 DEF pivars, PiInv, BranchInv, HandleSound, Updates
<1> QED
  BY <1>1, <1>2, <1>3, <1>4 DEF PiNext

LEMMA PiInitial == PiInit => PiInv
<1> SUFFICES ASSUME PiInit PROVE PiInv
  OBVIOUS
<1> USE DEF PiInit
<1>1. BranchInv
  BY DEF BranchInv, BranchSound
<1>2. HookSound
  BY DEF HookSound, NoHook
<1> QED
  BY <1>1, <1>2 DEF PiInv, Updates, NoUpdate

----------------------------------------------------------------------------
(* What follows. *)

LEMMA PiSummaries == PiInv => SummaryAndTail
<1> SUFFICES ASSUME branch \in Seq(PiEntries), BranchSound(branch), Chained PROVE SummaryAndTail
  BY DEF PiInv, BranchInv, SummaryAndTail
<1> DEFINE c == NewestAt
           covered == IF c = 0 THEN {} ELSE branch[c].covers
           spoken == {e.id : e \in {x \in ToSet(branch) : x.kind \in {"user", "answer", "branch"}}}
<1>0. \A i \in 1..Len(branch) : i \in Nat /\ branch[i].id \in Nat
  BY EntriesAre DEF PiEntries
<1>1. /\ LiveFrom \in Nat
      /\ c # 0 => LiveFrom <= branch[c].id
      /\ \A i : i \in LiveEntries <=> i \in 1..Len(branch) /\ ~IsCompaction(branch[i]) /\ branch[i].id >= LiveFrom
  BY LiveIs
<1>2. c \in 0..Len(branch) /\ (c # 0 => IsCompaction(branch[c]))
  BY NewestCompaction
<1> HIDE DEF c
<1>3. c # 0 => /\ c \in 1..Len(branch) /\ LiveFrom = Boundary(branch, c)
               /\ \A i \in 1..c : Speaks(branch[i]) /\ branch[i].id < LiveFrom => branch[i].id \in branch[c].covers
               /\ \A x \in branch[c].covers : x < LiveFrom
  <2> SUFFICES ASSUME c # 0
               PROVE  /\ c \in 1..Len(branch) /\ LiveFrom = Boundary(branch, c)
                      /\ \A i \in 1..c : Speaks(branch[i]) /\ branch[i].id < LiveFrom => branch[i].id \in branch[c].covers
                      /\ \A x \in branch[c].covers : x < LiveFrom
    OBVIOUS
  <2>1. c \in 1..Len(branch) /\ LiveFrom = Boundary(branch, c)
    BY <1>2 DEF LiveFrom, c
  <2>2. \A i \in 1..c : i \in 1..Len(branch)
    BY <2>1
  <2>3. ChainedTo(branch, c)
    BY <2>2 DEF Chained, Compactions, ChainedTo, IsCompaction
  <2>4. CoversUpTo(branch, c)
    BY <1>2, <2>1 DEF BranchSound, CompactionSound
  <2> QED BY <2>1, <2>3, <2>4 DEF CoversUpTo
<1>4. ASSUME NEW x \in spoken PROVE x \in covered \cup IdsAt(LiveEntries)
  <2>1. PICK i \in 1..Len(branch) : x = branch[i].id /\ Speaks(branch[i])
    BY EntriesAre DEF Speaks
  <2>2. ~IsCompaction(branch[i])
    BY <2>1 DEF Speaks, IsCompaction
  <2>3. CASE branch[i].id >= LiveFrom
    BY <1>1, <2>1, <2>2, <2>3 DEF IdsAt
  <2>4. CASE branch[i].id < LiveFrom
    <3>1. c # 0
      BY <1>0, <2>4 DEF LiveFrom, c
    <3>2. c \in 1..Len(branch) /\ branch[i].id < branch[c].id
      BY <1>0, <1>1, <1>3, <2>4, <3>1
    <3>3. i \in 1..c
      BY <1>0, <3>2 DEF BranchSound
    <3> QED BY <1>3, <2>1, <2>4, <3>1, <3>3
  <2> QED BY <1>0, <1>1, <2>3, <2>4
<1>5. covered \cap IdsAt(LiveEntries) = {}
  <2> SUFFICES ASSUME NEW x \in covered, x \in IdsAt(LiveEntries) PROVE FALSE
    OBVIOUS
  <2>1. PICK i \in LiveEntries : x = branch[i].id
    BY DEF IdsAt
  <2>2. branch[i].id >= LiveFrom /\ branch[i].id \in Nat
    BY <1>0, <1>1
  <2>3. x < LiveFrom
    BY <1>3
  <2> QED BY <1>1, <2>1, <2>2, <2>3
<1> QED
  BY <1>4, <1>5 DEF SummaryAndTail, NewestAt, c

LEMMA PiTails == PiInv => TailKept
<1> SUFFICES ASSUME branch \in Seq(PiEntries), BranchSound(branch), Len(branch) > 0,
                    IsCompaction(branch[Len(branch)]), branch[Len(branch)].by \in {"offline", "hybrid"},
                    LiveEntries # {}
             PROVE  /\ Cardinality(LiveTurns) = TailTurns
                    /\ \A i \in LiveEntries : Before(i) = {} => IsTurn(branch[i])
  BY DEF PiInv, BranchInv, TailKept, IsCompaction
<1> DEFINE n == Len(branch)
<1>0. n \in Nat /\ n \in 1..n /\ \A i \in 1..n : i \in Nat /\ branch[i].id \in Nat
  BY EntriesAre DEF PiEntries
<1>1. n = NewestAt /\ LiveFrom = Boundary(branch, n)
  BY <1>0, NewestCompaction DEF LiveFrom
<1>2. \A i : i \in LiveEntries <=> i \in 1..n /\ ~IsCompaction(branch[i]) /\ branch[i].id >= LiveFrom
  BY LiveIs
<1>3. \A i, j \in 1..n : i < j => branch[i].id < branch[j].id
  BY DEF BranchSound
<1>4. IsCompaction(branch[n]) /\ TailAt(branch, n)
  BY <1>0 DEF BranchSound, CompactionSound
<1>5. branch[n].kept # 0
  <2> SUFFICES ASSUME branch[n].kept = 0 PROVE FALSE
    OBVIOUS
  <2>1. PICK i \in LiveEntries : TRUE
    OBVIOUS
  <2>2. i \in 1..n /\ i # n /\ branch[i].id >= branch[n].id
    BY <1>1, <1>2, <1>4, <2>1 DEF Boundary
  <2>3. i < n
    BY <1>0, <2>2
  <2> QED BY <1>0, <1>3, <2>2, <2>3
<1>6. PICK k \in 1..(n - 1) : /\ branch[k].id = branch[n].kept /\ IsTurn(branch[k])
                              /\ Cardinality({j \in k..(n - 1) : IsTurn(branch[j])}) = TailTurns
  BY <1>4, <1>5 DEF TailAt
<1> HIDE DEF n
<1>7. k \in 1..n /\ LiveFrom = branch[k].id
  BY <1>0, <1>1, <1>5, <1>6 DEF Boundary
<1>8. \A i \in 1..n : branch[i].id >= LiveFrom <=> i >= k
  BY <1>0, <1>3, <1>7
<1>9. \A i \in 1..n : IsTurn(branch[i]) => ~IsCompaction(branch[i])
  BY DEF IsTurn, IsCompaction
<1>10. LiveTurns = {j \in k..(n - 1) : IsTurn(branch[j])}
  <2>1. \A j : j \in LiveTurns <=> j \in 1..n /\ j >= k /\ IsTurn(branch[j])
    BY <1>2, <1>8, <1>9 DEF LiveTurns
  <2>2. \A j \in 1..n : IsTurn(branch[j]) => j # n
    BY <1>4, <1>9
  <2>3. \A j : j \in k..(n - 1) <=> j \in 1..n /\ j >= k /\ j # n
    BY <1>0, <1>7
  <2> QED BY <2>1, <2>2, <2>3
<1>11. ASSUME NEW i \in LiveEntries, Before(i) = {} PROVE IsTurn(branch[i])
  <2>1. k \in LiveEntries
    BY <1>2, <1>6, <1>7, <1>8, <1>9
  <2>2. ~(k < i)
    BY <1>11, <2>1 DEF Before
  <2>3. i = k
    BY <1>0, <1>2, <1>7, <1>8, <2>2
  <2> QED BY <1>6, <2>3
<1> QED
  BY <1>6, <1>10, <1>11

LEMMA PiRecalls == PiInv => RecallStable
<1> SUFFICES ASSUME PiInv, NEW h \in handles, NEW max_bytes \in RecallLimits,
                    h.id \in Ids(Tail(branch)), IndexComplete
             PROVE  PiRecallStatus(h, max_bytes)
                      = IF ItemBytes[h.id] > max_bytes THEN "oversized" ELSE "ok"
  BY DEF RecallStable
<1>0. /\ branch \in Seq(PiEntries) /\ HandleSound(branch, h)
      /\ h \in [id : Nat, marker : Nat]
  BY DEF PiInv, BranchInv
<1>1. Len(branch) \in Nat /\ branch # <<>>
  BY <1>0 DEF HandleSound
<1>2. Tail(branch) \in Seq(PiEntries) /\ Len(Tail(branch)) = Len(branch) - 1
      /\ \A i \in 1..(Len(branch) - 1) : Tail(branch)[i] = branch[i + 1]
  BY <1>0, <1>1
<1>3. PICK k \in 1..(Len(branch) - 1) : h.id = Tail(branch)[k].id
  <2>1. DOMAIN Tail(branch) = 1..(Len(branch) - 1)
    BY <1>2
  <2> QED BY <2>1 DEF Ids, ToSet
<1>4. k + 1 \in 1..Len(branch) /\ k + 1 > 1 /\ h.id = branch[k + 1].id
  BY <1>1, <1>2, <1>3
<1>5. branch[k + 1].kind \in Talk /\ h.marker = branch[2].id
  BY <1>0, <1>4 DEF HandleSound
<1>6. PiHandle(branch[k + 1]) = h
  BY <1>0, <1>1, <1>4, <1>5 DEF Marker, PiHandle
<1>7. branch[k + 1] \in RecallEntries
  BY <1>0, <1>4, <1>5, EntriesAre DEF RecallEntries
<1> QED BY <1>6, <1>7 DEF PiRecallStatus

\* For any kinds of messages, any sequence of compactions and excursions in the tree, and
\* any size of tail: what the context and the newest summary hold between them is every
\* message of the branch, none of them twice (pi-vcc-cut.ts:20-40, pi-adapter.ts:186-199).
THEOREM BranchIsCovered == PiInit /\ [][PiNext]_pivars => []SummaryAndTail
BY PiInitial, PiStep, PiSummaries, PTL

\* A compaction of the VCC modes leaves a tail of exactly tail_turns turns that begins with
\* a turn, or no tail at all (pi-vcc-cut.ts:58-74).
THEOREM TailIsKept == PiInit /\ [][PiNext]_pivars => []TailKept
BY PiInitial, PiStep, PiTails, PTL

\* A handle of an entry below the root is answered whenever the entry is on the active branch
\* and the index of the branch is complete, for any history of the tree and any ids that are
\* refused: with its item, or with the refusal of an item larger than max_bytes, for any sizes
\* and limits (README.md:35-36, vcc-pi-recall.ts:52-66,108-145).
THEOREM RecallIsStable == PiInit /\ [][PiNext]_pivars => []RecallStable
BY PiInitial, PiStep, PiRecalls, PTL

----------------------------------------------------------------------------
(* The recovery ledger: what fitLedger leaves. *)

\* A value for each section.
IsData(d) ==
    /\ d = [k \in Sections |-> d[k]]
    /\ \A k \in Sections : IsSeq(d[k])


LEMMA OrderIs ==
    /\ Len(RemovalOrder) = 9
    /\ \A n \in 1 .. 9 : RemovalOrder[n] \in Sections
    /\ \A k \in Sections : \E n \in 1 .. 9 : k = RemovalOrder[n]
    /\ \A m, n \in 1 .. 9 : RemovalOrder[m] = RemovalOrder[n] => m = n
  <1>1. Len(RemovalOrder) = 9 /\ DOMAIN RemovalOrder = 1 .. 9
    BY DEF RemovalOrder
  <1>2. \A m, n \in 1 .. 9 : RemovalOrder[m] = RemovalOrder[n] => m = n
    BY DEF RemovalOrder
  <1> QED  BY <1>1, <1>2 DEF Sections, ToSet

LEMMA ProductUp ==
    ASSUME NEW a \in Nat, NEW b \in Nat, NEW c \in Nat, a <= b
    PROVE  a * c <= b * c /\ a * c \in Nat
  <1>1. (b - a) \in Nat /\ b = a + (b - a)
    OBVIOUS
  <1>2. \A x, y \in Nat : x * y \in Nat
    OBVIOUS
  <1>3. (a + (b - a)) * c = a * c + (b - a) * c
    OBVIOUS
  <1> QED  BY <1>1, <1>2, <1>3

Cost(d, n) == Len(d[RemovalOrder[n]]) * Sizes[RemovalOrder[n]]
Sums(d, f) ==
    /\ f \in [0 .. 9 -> Nat]
    /\ Bytes(d) = f[9]
    /\ f[0] = BlockBytes
    /\ \A n \in 1 .. 9 : f[n] = f[n - 1] + Cost(d, n)

LEMMA CostIs ==
    ASSUME NEW d, IsData(d), NEW n \in 1 .. 9
    PROVE  Cost(d, n) \in Nat
  <1>1. RemovalOrder[n] \in Sections
    BY OrderIs
  <1>2. Len(d[RemovalOrder[n]]) \in Nat /\ Sizes[RemovalOrder[n]] \in Nat
    BY <1>1, LedgerAssumption DEF IsData, IsSeq
  <1> QED  BY <1>2, ProductUp DEF Cost

LEMMA BytesRecursion ==
    ASSUME NEW d, IsData(d)
    PROVE  \E f : Sums(d, f)
  <1> DEFINE N == 9
             T == Nat
             step == [n \in 1 .. N |-> [r \in T |-> r + Cost(d, n)]]
             next(n, r) == IF n = 0 THEN BlockBytes ELSE r + Cost(d, n)
             F == CHOOSE h : h = [n \in 0 .. N |-> next(n, h[n - 1])]
  <1>1. N \in Nat /\ BlockBytes \in T
    BY LedgerAssumption
  <1>2. IsSteps(T, N, step)
    <2>1. \A n \in 1 .. N : [r \in T |-> r + Cost(d, n)] \in [T -> T]
      BY CostIs
    <2> QED  BY <2>1 DEF IsSteps
  <1>3. \A n \in 1 .. N, r \in T : step[n][r] = next(n, r)
    OBVIOUS
  <1>4. PICK f : f \in Runs(T, BlockBytes, N, step)
    <2> HIDE DEF step, T, N
    <2> QED  BY <1>1, <1>2, StepsExist
  <1>5. F = [n \in 0 .. N |-> next(n, F[n - 1])]
    <2>1. f = [n \in 0 .. N |-> f[n]] /\ f[0] = BlockBytes
          /\ \A n \in 1 .. N : f[n - 1] \in T /\ f[n] = step[n][f[n - 1]]
      BY <1>1, <1>4 DEF Runs
    <2>2. \A n \in 0 .. N : f[n] = next(n, f[n - 1])
      <3>1. \A n \in 0 .. N : n = 0 \/ n \in 1 .. N
        OBVIOUS
      <3>2. next(0, f[0 - 1]) = BlockBytes
        OBVIOUS
      <3> HIDE DEF next, step, T, N
      <3> QED  BY <1>3, <2>1, <3>1, <3>2
    <2>3. f = [n \in 0 .. N |-> next(n, f[n - 1])]
      <3> HIDE DEF next, N
      <3> QED  BY <2>1, <2>2
    <2> HIDE DEF next, N
    <2> QED  BY <2>3
  <1>6. Bytes(d) = F[9]
    BY OrderIs DEF Bytes, Cost
  <1> HIDE DEF F
  <1>7. F[0] = BlockBytes /\ \A n \in 1 .. N : F[n] = F[n - 1] + Cost(d, n)
    <2>1. \A n \in 0 .. N : F[n] = next(n, F[n - 1])
      <3> HIDE DEF next, N
      <3> QED  BY <1>5
    <2> QED  BY <2>1
  <1>8. \A n \in 0 .. N : F[n] \in T
    <2>1. \A n \in 1 .. N : F[n - 1] \in T => F[n] = step[n][F[n - 1]]
      BY <1>7
    <2> HIDE DEF step, T, N
    <2> QED  BY <1>1, <1>2, <1>7, <2>1, StepsType
  <1>9. F \in [0 .. 9 -> Nat]
    BY <1>5, <1>8
  <1> QED  BY <1>6, <1>7, <1>9 DEF Sums

\* Two ledgers that differ in one section differ by its cost.
LEMMA BytesDiffer ==
    ASSUME NEW d, IsData(d), NEW e, IsData(e), NEW n \in 1 .. 9,
           \A m \in 1 .. 9 : m # n => Cost(e, m) = Cost(d, m)
    PROVE  Bytes(d) \in Nat /\ Bytes(e) \in Nat /\ Bytes(e) - Cost(e, n) = Bytes(d) - Cost(d, n)
  <1>1. PICK f : Sums(d, f)
    BY BytesRecursion
  <1>2. PICK g : Sums(e, g)
    BY BytesRecursion
  <1>3. Cost(d, n) \in Nat /\ Cost(e, n) \in Nat
    BY CostIs
  <1> DEFINE S == {m \in 0 .. 9 : /\ m < n => g[m] = f[m]
                                  /\ m >= n => g[m] - Cost(e, n) = f[m] - Cost(d, n)}
  <1>4. 0 \in S
    BY <1>1, <1>2 DEF Sums
  <1>5. ASSUME NEW m \in 0 .. 9, m < 9, m \in S
        PROVE  m + 1 \in S
    <2>1. m + 1 \in 1 .. 9 /\ (m + 1) - 1 = m /\ m + 1 \in 0 .. 9
      BY <1>5
    <2>2. /\ f[m] \in Nat /\ g[m] \in Nat /\ f[m + 1] = f[m] + Cost(d, m + 1)
          /\ g[m + 1] = g[m] + Cost(e, m + 1)
      BY <1>1, <1>2, <2>1 DEF Sums
    <2>3. Cost(d, m + 1) \in Nat /\ Cost(e, m + 1) \in Nat
      BY <2>1, CostIs
    <2>4. m + 1 # n => Cost(d, m + 1) = Cost(e, m + 1)
      BY <2>1
    <2>5. CASE m + 1 < n
      BY <1>5, <2>1, <2>2, <2>3, <2>4, <2>5
    <2>6. CASE m + 1 = n
      BY <1>3, <1>5, <2>1, <2>2, <2>3, <2>6
    <2>7. CASE m + 1 > n
      BY <1>3, <1>5, <2>1, <2>2, <2>3, <2>4, <2>7
    <2> QED  BY <2>1, <2>5, <2>6, <2>7
  <1>6. 9 \in S
    <2>1. 0 .. 9 \subseteq S
      <3> HIDE DEF S
      <3> QED  BY <1>4, <1>5, InductiveUpTo
    <2> QED  BY <2>1
  <1> QED  BY <1>1, <1>2, <1>6 DEF Sums

\* An empty ledger is its block.
LEMMA BytesEmpty ==
    ASSUME NEW d, IsData(d), \A n \in 1 .. 9 : d[RemovalOrder[n]] = <<>>
    PROVE  Bytes(d) = BlockBytes
  <1>1. PICK f : Sums(d, f)
    BY BytesRecursion
  <1>2. \A n \in 1 .. 9 : Cost(d, n) = 0
    <2> TAKE n \in 1 .. 9
    <2>1. Sizes[RemovalOrder[n]] \in Nat
      BY OrderIs, LedgerAssumption
    <2>2. Len(d[RemovalOrder[n]]) = 0
      OBVIOUS
    <2> QED  BY <2>1, <2>2 DEF Cost
  <1> QED  BY <1>1, <1>2, LedgerAssumption DEF Sums

LEMMA BytesByLen ==
    ASSUME NEW d, IsData(d), NEW e, IsData(e),
           \A m \in 1 .. 9 : Len(e[RemovalOrder[m]]) = Len(d[RemovalOrder[m]])
    PROVE  Bytes(d) \in Nat /\ Bytes(e) = Bytes(d)
  <1>1. \A m \in 1 .. 9 : Cost(e, m) = Cost(d, m) /\ Cost(d, m) \in Nat
    BY CostIs DEF Cost
  <1>2. 1 \in 1 .. 9
    OBVIOUS
  <1>3. Bytes(d) \in Nat /\ Bytes(e) \in Nat /\ Bytes(e) - Cost(e, 1) = Bytes(d) - Cost(d, 1)
    BY <1>1, <1>2, BytesDiffer
  <1>4. Cost(e, 1) = Cost(d, 1) /\ Cost(d, 1) \in Nat
    BY <1>1, <1>2
  <1> QED  BY <1>3, <1>4

\* What a section may keep of its values.
Part(k, s, t) == IF k = "next_actions" THEN IsPrefix(s, t) ELSE IsSuffix(s, t)

LEMMA PrefixIs ==
    ASSUME NEW X, NEW s \in Seq(X), NEW t \in Seq(X), Len(s) <= Len(t),
           \A i \in 1 .. Len(s) : s[i] = t[i]
    PROVE  IsPrefix(s, t)
  BY DEF IsPrefix

LEMMA SuffixIs ==
    ASSUME NEW X, NEW s \in Seq(X), NEW t \in Seq(X), Len(s) <= Len(t),
           \A i \in 1 .. Len(s) : s[i] = t[Len(t) - Len(s) + i]
    PROVE  IsSuffix(s, t)
  <1>1. /\ Reverse(s) \in Seq(X) /\ Len(Reverse(s)) = Len(s)
        /\ \A i \in 1 .. Len(s) : Reverse(s)[i] = s[Len(s) - i + 1]
    BY DEF Reverse
  <1>2. /\ Reverse(t) \in Seq(X) /\ Len(Reverse(t)) = Len(t)
        /\ \A i \in 1 .. Len(t) : Reverse(t)[i] = t[Len(t) - i + 1]
    BY DEF Reverse
  <1>3. ASSUME NEW i \in 1 .. Len(s)
        PROVE  Reverse(s)[i] = Reverse(t)[i]
    <2>1. Len(s) - i + 1 \in 1 .. Len(s) /\ i \in 1 .. Len(t)
      OBVIOUS
    <2>2. Len(t) - Len(s) + (Len(s) - i + 1) = Len(t) - i + 1
      OBVIOUS
    <2>3. s[Len(s) - i + 1] = t[Len(t) - i + 1]
      BY <2>1, <2>2
    <2> QED  BY <1>1, <1>2, <2>1, <2>3
  <1> HIDE DEF Reverse
  <1>4. IsPrefix(Reverse(s), Reverse(t))
    BY <1>1, <1>2, <1>3, PrefixIs
  <1> QED  BY <1>4 DEF IsSuffix

LEMMA MinIs ==
    ASSUME NEW a \in Nat, NEW b \in Nat
    PROVE  Min({a, b}) = IF a <= b THEN a ELSE b
  BY DEF Min

LEMMA LastOfIs ==
    ASSUME NEW X, NEW s \in Seq(X), NEW l \in Nat
    PROVE  /\ LastOf(s, l) \in Seq(X)
           /\ Len(LastOf(s, l)) = IF l <= Len(s) THEN l ELSE Len(s)
           /\ IsSuffix(LastOf(s, l), s)
  <1>1. Len(s) \in Nat
    OBVIOUS
  <1> DEFINE m == IF l <= Len(s) THEN l ELSE Len(s)
             r == SubSeq(s, Len(s) - m + 1, Len(s))
  <1>2. m \in Nat /\ m <= Len(s)
    BY <1>1
  <1>3. LastOf(s, l) = r
    BY <1>1, MinIs DEF LastOf
  <1> HIDE DEF m
  <1>4. r \in Seq(X) /\ Len(r) = m /\ \A i \in 1 .. m : r[i] = s[Len(s) - m + i]
    BY <1>1, <1>2
  <1> HIDE DEF r
  <1>5. IsSuffix(r, s)
    BY <1>2, <1>4, SuffixIs
  <1> QED  BY <1>3, <1>4, <1>5 DEF m

LEMMA FirstOfIs ==
    ASSUME NEW X, NEW s \in Seq(X), NEW l \in Nat
    PROVE  /\ FirstOf(s, l) \in Seq(X)
           /\ Len(FirstOf(s, l)) = IF l <= Len(s) THEN l ELSE Len(s)
           /\ IsPrefix(FirstOf(s, l), s)
  <1>1. Len(s) \in Nat
    OBVIOUS
  <1> DEFINE m == IF l <= Len(s) THEN l ELSE Len(s)
             r == SubSeq(s, 1, m)
  <1>2. m \in Nat /\ m <= Len(s)
    BY <1>1
  <1>3. FirstOf(s, l) = r
    BY <1>1, MinIs DEF FirstOf
  <1> HIDE DEF m
  <1>4. r \in Seq(X) /\ Len(r) = m /\ \A i \in 1 .. m : r[i] = s[i]
    BY <1>1, <1>2
  <1> HIDE DEF r
  <1>5. IsPrefix(r, s)
    BY <1>2, <1>4, PrefixIs
  <1> QED  BY <1>3, <1>4, <1>5 DEF m

LEMMA DataExcept ==
    ASSUME NEW d, IsData(d), NEW k \in Sections, NEW s, IsSeq(s)
    PROVE  /\ IsData([d EXCEPT ![k] = s])
           /\ [d EXCEPT ![k] = s][k] = s
           /\ \A j \in Sections : j # k => [d EXCEPT ![k] = s][j] = d[j]
  <1> DEFINE e == [d EXCEPT ![k] = s]
  <1>1. DOMAIN d = Sections /\ d = [j \in Sections |-> d[j]]
    BY DEF IsData
  <1>2. e = [j \in Sections |-> e[j]] /\ e[k] = s /\ \A j \in Sections : j # k => e[j] = d[j]
    BY <1>1
  <1> HIDE DEF e
  <1>3. IsData(e)
    BY <1>2 DEF IsData
  <1> QED  BY <1>2, <1>3 DEF e

LEMMA TrimIs ==
    ASSUME NEW d, IsData(d), NEW k \in Sections, NEW n \in 0 .. Len(d[k])
    PROVE  /\ IsData(Trim(d, k, n))
           /\ Len(Trim(d, k, n)[k]) = Len(d[k]) - n
           /\ Part(k, Trim(d, k, n)[k], d[k])
           /\ \A j \in Sections : j # k => Trim(d, k, n)[j] = d[j]
  <1> DEFINE X == ToSet(d[k])
             r == IF k = "next_actions" THEN FirstOf(d[k], Len(d[k]) - n) ELSE LastOf(d[k], Len(d[k]) - n)
  <1>1. d[k] \in Seq(X) /\ Len(d[k]) \in Nat /\ Len(d[k]) - n \in Nat
    BY DEF IsData, IsSeq
  <1>2. r \in Seq(X) /\ Len(r) = Len(d[k]) - n /\ Part(k, r, d[k])
    <2> HIDE DEF X
    <2>1. CASE k = "next_actions"
      BY <1>1, <2>1, FirstOfIs DEF Part
    <2>2. CASE k # "next_actions"
      BY <1>1, <2>2, LastOfIs DEF Part
    <2> QED  BY <2>1, <2>2
  <1>3. Trim(d, k, n) = [d EXCEPT ![k] = r]
    BY DEF Trim, IsData
  <1> HIDE DEF r, X
  <1>4. IsSeq(r)
    BY <1>2, SeqIs
  <1> DEFINE e == [d EXCEPT ![k] = r]
  <1>5. IsData(e) /\ e[k] = r /\ \A j \in Sections : j # k => e[j] = d[j]
    BY <1>4, DataExcept
  <1> HIDE DEF e
  <1>6. Trim(d, k, n) = e
    BY <1>3 DEF e
  <1> QED  BY <1>2, <1>5, <1>6

\* A range of the search: cutting its upper end fits, cutting less than its lower end does not.
Ranges(d, k) ==
    {r \in [low : 1 .. Len(d[k]), high : 1 .. Len(d[k])] :
        /\ r.low <= r.high
        /\ Bytes(Trim(d, k, r.high)) <= budget
        /\ Bytes(Trim(d, k, r.low - 1)) > budget}

LEMMA HalveIs ==
    ASSUME NEW d, IsData(d), NEW k \in Sections, NEW r \in Ranges(d, k), budget \in Nat
    PROVE  /\ Halve(d, k, r) \in Ranges(d, k)
           /\ r.low < r.high => Halve(d, k, r).high - Halve(d, k, r).low < r.high - r.low
           /\ r.low >= r.high => Halve(d, k, r) = r
  <1> DEFINE L == Len(d[k])
             middle == (r.low + r.high) \div 2
  <1>1. /\ L \in Nat /\ r.low \in 1 .. L /\ r.high \in 1 .. L /\ r.low <= r.high
        /\ r = [low |-> r.low, high |-> r.high]
    BY DEF Ranges, IsData, IsSeq
  <1>2. CASE r.low >= r.high
    BY <1>1, <1>2 DEF Halve
  <1>3. CASE r.low < r.high
    <2>1. middle \in 1 .. L /\ r.low <= middle /\ middle < r.high
      BY <1>1, <1>3
    <2>2. middle \in 0 .. L
      BY <2>1
    <2>3. Bytes(Trim(d, k, middle)) \in Nat
      <3>1. IsData(Trim(d, k, middle))
        BY <2>2, TrimIs
      <3> QED  BY <3>1, BytesByLen
    <2>4. Halve(d, k, r) = IF Bytes(Trim(d, k, middle)) <= budget THEN [r EXCEPT !.high = middle]
                           ELSE [r EXCEPT !.low = middle + 1]
      BY <1>3, <1>1 DEF Halve
    <2> HIDE DEF middle
    <2>5. CASE Bytes(Trim(d, k, middle)) <= budget
      <3>1. Halve(d, k, r) = [low |-> r.low, high |-> middle]
        BY <1>1, <2>4, <2>5
      <3>2. Halve(d, k, r) \in Ranges(d, k)
        BY <1>1, <2>1, <2>5, <3>1 DEF Ranges
      <3> QED  BY <1>1, <1>3, <2>1, <3>1, <3>2
    <2>6. CASE ~(Bytes(Trim(d, k, middle)) <= budget)
      <3>1. Halve(d, k, r) = [low |-> middle + 1, high |-> r.high]
        BY <1>1, <2>4, <2>6
      <3>2. Bytes(Trim(d, k, (middle + 1) - 1)) > budget
        <4>1. (middle + 1) - 1 = middle
          BY <2>1
        <4> QED  BY <2>3, <2>6, <4>1
      <3>3. [low |-> middle + 1, high |-> r.high] \in [low : 1 .. L, high : 1 .. L]
        BY <1>1, <2>1
      <3>4. middle + 1 <= r.high
        BY <1>1, <2>1
      <3>5. Halve(d, k, r) \in Ranges(d, k)
        <4> DEFINE q == [low |-> middle + 1, high |-> r.high]
        <4>1. q.low = middle + 1 /\ q.high = r.high
          OBVIOUS
        <4>2. Bytes(Trim(d, k, r.high)) <= budget
          BY DEF Ranges
        <4> HIDE DEF q
        <4>3. q \in [low : 1 .. L, high : 1 .. L]
          BY <3>3 DEF q
        <4>4. q \in Ranges(d, k)
          BY <3>2, <3>4, <4>1, <4>2, <4>3 DEF Ranges
        <4> QED  BY <3>1, <4>4 DEF q
      <3> QED  BY <1>1, <1>3, <2>1, <3>1, <3>5
    <2> QED  BY <2>5, <2>6
  <1> QED  BY <1>1, <1>2, <1>3

\* The search finds a number of values that makes the ledger fit, and one less does not.
LEMMA LeastTrimIs ==
    ASSUME NEW d, IsData(d), NEW k \in Sections, budget \in Nat, Len(d[k]) > 0,
           Bytes(Trim(d, k, Len(d[k]))) <= budget, Bytes(Trim(d, k, 0)) > budget
    PROVE  /\ LeastTrim(d, k) \in 1 .. Len(d[k])
           /\ Bytes(Trim(d, k, LeastTrim(d, k))) <= budget
           /\ Bytes(Trim(d, k, LeastTrim(d, k) - 1)) > budget
  <1> DEFINE N == Len(d[k])
             T == Ranges(d, k)
             base == [low |-> 1, high |-> N]
             step == [n \in 1 .. N |-> [r \in T |-> Halve(d, k, r)]]
             next(n, r) == IF n = 0 THEN base ELSE Halve(d, k, r)
             F == CHOOSE h : h = [n \in 0 .. N |-> next(n, h[n - 1])]
  <1>1. N \in Nat /\ N > 0
    BY DEF IsData, IsSeq
  <1>2. base \in T
    <2>1. base \in [low : 1 .. N, high : 1 .. N] /\ base.low - 1 = 0 /\ base.low <= base.high
      BY <1>1
    <2> QED  BY <2>1 DEF Ranges
  <1>3. IsSteps(T, N, step)
    <2>1. [r \in T |-> Halve(d, k, r)] \in [T -> T]
      BY HalveIs
    <2> QED  BY <2>1 DEF IsSteps
  <1>4. \A n \in 1 .. N, r \in T : step[n][r] = next(n, r)
    OBVIOUS
  <1>5. PICK f : f \in Runs(T, base, N, step)
    <2> HIDE DEF step, T, N, base
    <2> QED  BY <1>1, <1>2, <1>3, StepsExist
  <1>6. F = [n \in 0 .. N |-> next(n, F[n - 1])]
    <2>1. f = [n \in 0 .. N |-> f[n]] /\ f[0] = base
          /\ \A n \in 1 .. N : f[n - 1] \in T /\ f[n] = step[n][f[n - 1]]
      <3> HIDE DEF step, T, base
      <3>1. f \in [0 .. N -> T] /\ f[0] = base /\ \A n \in 1 .. N : f[n] = step[n][f[n - 1]]
        BY <1>5 DEF Runs
      <3>2. \A n \in 1 .. N : n - 1 \in 0 .. N
        BY <1>1
      <3> HIDE DEF N
      <3> QED  BY <3>1, <3>2
    <2>2. \A n \in 0 .. N : f[n] = next(n, f[n - 1])
      <3>1. \A n \in 0 .. N : n = 0 \/ n \in 1 .. N
        BY <1>1
      <3>2. \A r : next(0, r) = base
        OBVIOUS
      <3> HIDE DEF next, step, T, N, base
      <3> QED  BY <1>4, <2>1, <3>1, <3>2
    <2>3. f = [n \in 0 .. N |-> next(n, f[n - 1])]
      <3> HIDE DEF next, N
      <3> QED  BY <2>1, <2>2
    <2> HIDE DEF next, N
    <2> QED  BY <2>3
  <1>7. LeastTrim(d, k) = F[N].low
    BY DEF LeastTrim
  <1> HIDE DEF F
  <1>8. F[0] = base /\ \A n \in 1 .. N : F[n] = Halve(d, k, F[n - 1])
    <2>1. \A n \in 0 .. N : F[n] = next(n, F[n - 1])
      <3> HIDE DEF next, N
      <3> QED  BY <1>6
    <2>2. 0 \in 0 .. N /\ \A n \in 1 .. N : n \in 0 .. N /\ n # 0
      BY <1>1
    <2> QED  BY <2>1, <2>2
  <1>9. \A n \in 0 .. N : F[n] \in T
    <2>1. \A n \in 1 .. N : F[n - 1] \in T => F[n] = step[n][F[n - 1]]
      BY <1>8
    <2>2. F[0] \in T
      BY <1>2, <1>8
    <2> HIDE DEF step, T, N, base
    <2> QED  BY <1>1, <1>3, <2>1, <2>2, StepsType
  <1> DEFINE S == {n \in 0 .. N : F[n].low < F[n].high => F[n].high - F[n].low <= N - 1 - n}
  <1>10. 0 \in S
    BY <1>1, <1>8
  <1>11. ASSUME NEW n \in 0 .. N, n < N, n \in S
         PROVE  n + 1 \in S
    <2>1. n + 1 \in 1 .. N /\ (n + 1) - 1 = n /\ n + 1 \in 0 .. N /\ n \in Nat
      BY <1>1, <1>11
    <2> DEFINE r == F[n]
               q == F[n + 1]
    <2>2. r \in T /\ q \in T /\ q = Halve(d, k, r)
      BY <1>8, <1>9, <2>1
    <2> HIDE DEF r, q
    <2>3. r.low \in Nat /\ r.high \in Nat /\ q.low \in Nat /\ q.high \in Nat
      BY <2>2 DEF Ranges
    <2>4. /\ r.low < r.high => q.high - q.low < r.high - r.low
          /\ r.low >= r.high => q = r
      BY <2>2, HalveIs
    <2>5. r.low < r.high => r.high - r.low <= N - 1 - n
      BY <1>11 DEF r
    <2>6. q.low < q.high => q.high - q.low <= N - 1 - (n + 1)
      <3> HIDE DEF N
      <3> QED  BY <1>1, <2>1, <2>3, <2>4, <2>5
    <2> QED  BY <2>1, <2>6 DEF q
  <1>12. N \in S
    <2>1. 0 .. N \subseteq S
      <3> HIDE DEF S, N
      <3> QED  BY <1>1, <1>10, <1>11, InductiveUpTo
    <2> QED  BY <1>1, <2>1
  <1> DEFINE r == F[N]
  <1>13. r \in T /\ (r.low < r.high => r.high - r.low <= N - 1 - N)
    BY <1>1, <1>9, <1>12
  <1> HIDE DEF r
  <1>14. r.low \in 1 .. N /\ r.high \in 1 .. N /\ r.low <= r.high
         /\ Bytes(Trim(d, k, r.high)) <= budget /\ Bytes(Trim(d, k, r.low - 1)) > budget
    BY <1>13 DEF Ranges
  <1>15. r.low = r.high
    BY <1>1, <1>13, <1>14
  <1> QED  BY <1>7, <1>14, <1>15 DEF r

\* The ledger with one more value in section k.
OneMore(d, k) == [d EXCEPT ![k] = Append(@, 0)]
\* Whether section n lost a value.
LosesAt(full, d, n) == Len(d[RemovalOrder[n]]) < Len(full[RemovalOrder[n]])
\* After the first n sections: what fitLedger made of the ledger full.
FitsUpTo(full, d, n) ==
    /\ IsData(d)
    /\ \A k \in Sections : Part(k, d[k], full[k]) /\ Len(d[k]) <= Len(full[k])
    /\ \A m \in n + 1 .. 9 : d[RemovalOrder[m]] = full[RemovalOrder[m]]
    /\ Bytes(d) > budget => \A m \in 1 .. n : d[RemovalOrder[m]] = <<>>
    /\ \A c \in 1 .. 9 :
         LosesAt(full, d, c) /\ (\A m \in c + 1 .. 9 : ~LosesAt(full, d, m)) =>
            /\ \A m \in 1 .. c - 1 : d[RemovalOrder[m]] = <<>>
            /\ Bytes(OneMore(d, RemovalOrder[c])) > budget

LEMMA PartOfItself ==
    ASSUME NEW s, IsSeq(s), NEW k
    PROVE  Part(k, s, s) /\ Part(k, <<>>, s)
  <1>1. s \in Seq(ToSet(s)) /\ <<>> \in Seq(ToSet(s)) /\ Len(s) \in Nat /\ Len(<<>>) = 0
    BY DEF IsSeq
  <1> DEFINE none == <<>>
  <1>0. /\ none \in Seq(ToSet(s)) /\ Len(none) <= Len(s)
        /\ \A i \in 1 .. Len(none) : none[i] = s[i]
        /\ \A i \in 1 .. Len(none) : none[i] = s[Len(s) - Len(none) + i]
    BY <1>1
  <1> HIDE DEF none
  <1>2. IsPrefix(s, s) /\ IsPrefix(none, s)
    <2>1. IsPrefix(s, s)
      BY <1>1, PrefixIs
    <2>2. IsPrefix(none, s)
      BY <1>0, <1>1, PrefixIs
    <2> QED  BY <2>1, <2>2
  <1>3. IsSuffix(s, s)
    <2>1. \A i \in 1 .. Len(s) : s[i] = s[Len(s) - Len(s) + i]
      BY <1>1
    <2> QED  BY <1>1, <2>1, SuffixIs
  <1>4. IsSuffix(none, s)
    BY <1>0, <1>1, SuffixIs
  <1> QED  BY <1>2, <1>3, <1>4 DEF Part, none

\* The section after n when it is emptied or trimmed.
LEMMA CutSection ==
    ASSUME NEW full, IsData(full), budget \in Nat, NEW n \in 0 .. 8, NEW d, FitsUpTo(full, d, n),
           Bytes(d) > budget, NEW e, IsData(e), NEW k, k = RemovalOrder[n + 1],
           \A j \in Sections : j # k => e[j] = d[j],
           Part(k, e[k], full[k]), Len(e[k]) < Len(full[k]),
           Bytes(e) > budget => e[k] = <<>>,
           Bytes(OneMore(e, k)) > budget
    PROVE  FitsUpTo(full, e, n + 1)
  <1>1. n + 1 \in 1 .. 9 /\ k \in Sections /\ n \in Nat
    BY OrderIs
  <1>2. \A m \in 1 .. 9 : m # n + 1 => e[RemovalOrder[m]] = d[RemovalOrder[m]]
    BY <1>1, OrderIs
  <1>3. \A j \in Sections : Part(j, e[j], full[j]) /\ Len(e[j]) <= Len(full[j])
    <2> TAKE j \in Sections
    <2>1. CASE j = k
      <3>1. Len(e[k]) \in Nat /\ Len(full[k]) \in Nat
        BY <1>1 DEF IsData, IsSeq
      <3> QED  BY <2>1, <3>1
    <2>2. CASE j # k
      BY <2>2 DEF FitsUpTo
    <2> QED  BY <2>1, <2>2
  <1>4. \A m \in (n + 1) + 1 .. 9 : e[RemovalOrder[m]] = full[RemovalOrder[m]]
    <2> TAKE m \in (n + 1) + 1 .. 9
    <2>1. m \in n + 1 .. 9 /\ m \in 1 .. 9 /\ m # n + 1
      BY <1>1
    <2>2. d[RemovalOrder[m]] = full[RemovalOrder[m]]
      BY <2>1 DEF FitsUpTo
    <2>3. e[RemovalOrder[m]] = d[RemovalOrder[m]]
      BY <1>2, <2>1
    <2> QED  BY <2>2, <2>3
  <1>5. \A m \in 1 .. n : e[RemovalOrder[m]] = <<>>
    <2> TAKE m \in 1 .. n
    <2>1. m \in 1 .. 9 /\ m # n + 1
      BY <1>1
    <2> QED  BY <1>2, <2>1 DEF FitsUpTo
  <1>6. Bytes(e) > budget => \A m \in 1 .. n + 1 : e[RemovalOrder[m]] = <<>>
    <2>1. \A m \in 1 .. n + 1 : m \in 1 .. n \/ m = n + 1
      BY <1>1
    <2> QED  BY <1>5, <2>1
  <1>7. ASSUME NEW c \in 1 .. 9, LosesAt(full, e, c), \A m \in c + 1 .. 9 : ~LosesAt(full, e, m)
        PROVE  /\ \A m \in 1 .. c - 1 : e[RemovalOrder[m]] = <<>>
               /\ Bytes(OneMore(e, RemovalOrder[c])) > budget
    <2>1. c >= n + 1
      <3>1. LosesAt(full, e, n + 1)
        BY DEF LosesAt
      <3>2. ~(n + 1 \in c + 1 .. 9)
        BY <1>7, <3>1
      <3> QED  BY <1>1, <3>2
    <2>2. ~(c \in (n + 1) + 1 .. 9)
      <3> SUFFICES ASSUME c \in (n + 1) + 1 .. 9 PROVE FALSE
        OBVIOUS
      <3>1. e[RemovalOrder[c]] = full[RemovalOrder[c]]
        BY <1>4
      <3>2. Len(full[RemovalOrder[c]]) \in Nat
        <4>1. RemovalOrder[c] \in Sections
          BY OrderIs
        <4> QED  BY <4>1 DEF IsData, IsSeq
      <3> QED  BY <1>7, <3>1, <3>2 DEF LosesAt
    <2>3. c = n + 1 /\ c - 1 = n
      BY <1>1, <2>1, <2>2
    <2> QED  BY <1>5, <2>3
  <1> QED  BY <1>3, <1>4, <1>6, <1>7 DEF FitsUpTo

LEMMA FitStep ==
    ASSUME NEW full, IsData(full), budget \in Nat, NEW n \in 0 .. 8, NEW d, FitsUpTo(full, d, n)
    PROVE  FitsUpTo(full, FitSection(d, RemovalOrder[n + 1]), n + 1)
  <1> DEFINE k == RemovalOrder[n + 1]
             without == [d EXCEPT ![k] = <<>>]
  <1>1. n + 1 \in 1 .. 9 /\ k \in Sections /\ n + 1 \in n + 1 .. 9 /\ n \in Nat
    BY OrderIs
  <1>2. IsData(d) /\ d[k] = full[k] /\ IsSeq(full[k]) /\ Bytes(d) \in Nat
    <2>1. IsData(d)
      BY DEF FitsUpTo
    <2>2. d[k] = full[k]
      BY <1>1 DEF FitsUpTo
    <2>3. IsSeq(full[k])
      BY <1>1 DEF IsData
    <2>4. Bytes(d) \in Nat
      BY <2>1, BytesByLen
    <2> QED  BY <2>1, <2>2, <2>3, <2>4
  <1>3. IsSeq(<<>>)
    BY DEF IsSeq
  <1>4. IsData(without) /\ without[k] = <<>> /\ \A j \in Sections : j # k => without[j] = d[j]
    <2> HIDE DEF k
    <2> QED  BY <1>1, <1>2, <1>3, DataExcept
  <1> HIDE DEF k
  <1>5. CASE Bytes(d) <= budget \/ d[k] = <<>>
    <2>1. FitSection(d, k) = d
      BY <1>5 DEF FitSection
    <2>2. Bytes(d) > budget => \A m \in 1 .. n + 1 : d[RemovalOrder[m]] = <<>>
      <3>1. \A m \in 1 .. n + 1 : m \in 1 .. n \/ m = n + 1
        BY <1>1
      <3>2. Bytes(d) > budget => d[k] = <<>>
        BY <1>2, <1>5
      <3>3. Bytes(d) > budget => \A m \in 1 .. n : d[RemovalOrder[m]] = <<>>
        BY DEF FitsUpTo
      <3> QED  BY ONLY <3>1, <3>2, <3>3 DEF k
    <2>3. \A m \in (n + 1) + 1 .. 9 : m \in n + 1 .. 9
      BY <1>1
    <2> QED  BY <2>1, <2>2, <2>3 DEF FitsUpTo, k
  <1>6. CASE Bytes(d) > budget /\ d[k] # <<>>
    <2>1. Len(d[k]) \in Nat /\ Len(d[k]) > 0
      BY <1>2, <1>6 DEF IsSeq
    <2>2. \A j \in Sections : j = k \/ j # k
      OBVIOUS
    <2>3. CASE Bytes(without) > budget
      <3>1. FitSection(d, k) = without
        BY <1>2, <1>6, <2>3 DEF FitSection
      <3> HIDE DEF without
      <3> DEFINE more == [without EXCEPT ![k] = Append(@, 0)]
      <3>2. IsData(more) /\ more[k] = Append(<<>>, 0) /\ \A j \in Sections : j # k => more[j] = without[j]
        <4>1. IsSeq(Append(<<>>, 0))
          <5>1. Append(<<>>, 0) \in Seq(Nat)
            OBVIOUS
          <5> QED  BY <5>1, SeqIs
        <4>2. more = [without EXCEPT ![k] = Append(<<>>, 0)]
          BY <1>1, <1>4 DEF IsData
        <4> HIDE DEF more
        <4> DEFINE s == Append(<<>>, 0)
                   e == [without EXCEPT ![k] = s]
        <4> HIDE DEF s
        <4>3. IsData(e) /\ e[k] = s /\ \A j \in Sections : j # k => e[j] = without[j]
          BY <1>1, <1>4, <4>1, DataExcept DEF s
        <4> QED  BY <4>2, <4>3 DEF s
      <3> HIDE DEF more
      <3>3. Bytes(more) > budget
        <4>1. \A m \in 1 .. 9 : m # n + 1 => Cost(more, m) = Cost(without, m)
          BY <1>1, <3>2, OrderIs DEF Cost, k
        <4>2. Bytes(without) \in Nat /\ Bytes(more) \in Nat
              /\ Bytes(more) - Cost(more, n + 1) = Bytes(without) - Cost(without, n + 1)
          BY <1>1, <1>4, <3>2, <4>1, BytesDiffer
        <4>3. Cost(without, n + 1) = 0
          <5>1. Sizes[k] \in Nat /\ Len(without[k]) = 0
            BY <1>1, <1>4, LedgerAssumption
          <5> QED  BY <5>1 DEF Cost, k
        <4>4. Cost(more, n + 1) \in Nat
          BY <1>1, <3>2, CostIs
        <4> QED  BY <2>3, <4>2, <4>3, <4>4
      <3>4. Part(k, without[k], full[k]) /\ Len(without[k]) < Len(full[k])
        BY <1>2, <1>4, <2>1, PartOfItself
      <3>5. FitsUpTo(full, without, n + 1)
        <4>1. k = RemovalOrder[n + 1]
          BY DEF k
        <4>2. Bytes(OneMore(without, k)) > budget
          BY <3>3 DEF more, OneMore
        <4>3. Bytes(without) > budget => without[k] = <<>>
          BY <1>4
        <4>4. IsData(full) /\ budget \in Nat /\ n \in 0 .. 8 /\ FitsUpTo(full, d, n)
          OBVIOUS
        <4> HIDE DEF without, k
        <4> QED  BY ONLY <1>4, <1>6, <3>4, <4>1, <4>2, <4>3, <4>4, CutSection, ZenonT(60)
      <3> QED  BY <3>1, <3>5 DEF k
    <2>4. CASE ~(Bytes(without) > budget)
      <3> DEFINE L == Len(d[k])
                 t == LeastTrim(d, k)
                 e == Trim(d, k, t)
      <3>1. FitSection(d, k) = e
        BY <1>2, <1>6, <2>4 DEF FitSection
      <3>2. Bytes(Trim(d, k, L)) <= budget /\ Bytes(Trim(d, k, 0)) > budget
        <4>1. /\ IsData(Trim(d, k, L)) /\ Len(Trim(d, k, L)[k]) = L - L
              /\ \A j \in Sections : j # k => Trim(d, k, L)[j] = d[j]
          <5>1. L \in 0 .. L
            BY <2>1
          <5> QED  BY <1>1, <1>2, <5>1, TrimIs
        <4>2. /\ IsData(Trim(d, k, 0)) /\ Len(Trim(d, k, 0)[k]) = L - 0
              /\ \A j \in Sections : j # k => Trim(d, k, 0)[j] = d[j]
          <5>1. 0 \in 0 .. L
            BY <2>1
          <5> QED  BY <1>1, <1>2, <5>1, TrimIs
        <4>3. Bytes(Trim(d, k, L)) = Bytes(without) /\ Bytes(without) \in Nat
          <5>1. \A m \in 1 .. 9 : Len(Trim(d, k, L)[RemovalOrder[m]]) = Len(without[RemovalOrder[m]])
            <6> HIDE DEF without
            <6>1. Len(Trim(d, k, L)[k]) = 0 /\ Len(without[k]) = 0
              BY <1>4, <2>1, <4>1
            <6> QED  BY <1>4, <4>1, <6>1, OrderIs
          <5> HIDE DEF without
          <5> QED  BY <1>4, <4>1, <5>1, BytesByLen
        <4>4. Bytes(Trim(d, k, 0)) = Bytes(d)
          <5>1. \A m \in 1 .. 9 : Len(Trim(d, k, 0)[RemovalOrder[m]]) = Len(d[RemovalOrder[m]])
            <6>1. Len(Trim(d, k, 0)[k]) = L
              BY <2>1, <4>2
            <6> QED  BY <4>2, <6>1, OrderIs
          <5> QED  BY <1>2, <4>2, <5>1, BytesByLen
        <4> QED  BY <1>6, <2>4, <4>3, <4>4
      <3>3. t \in 1 .. L /\ Bytes(Trim(d, k, t)) <= budget /\ Bytes(Trim(d, k, t - 1)) > budget
        BY <1>1, <1>2, <2>1, <3>2, LeastTrimIs
      <3> HIDE DEF t
      <3>4. /\ IsData(e) /\ Len(e[k]) = L - t /\ Part(k, e[k], d[k])
            /\ \A j \in Sections : j # k => e[j] = d[j]
        <4>1. t \in 0 .. L
          BY <2>1, <3>3
        <4> QED  BY <1>1, <1>2, <4>1, TrimIs
      <3>5. /\ IsData(Trim(d, k, t - 1)) /\ Len(Trim(d, k, t - 1)[k]) = L - (t - 1)
            /\ \A j \in Sections : j # k => Trim(d, k, t - 1)[j] = d[j]
        <4>1. t - 1 \in 0 .. L
          BY <2>1, <3>3
        <4> QED  BY <1>1, <1>2, <4>1, TrimIs
      <3> DEFINE more == [e EXCEPT ![k] = Append(@, 0)]
                 s == Append(e[k], 0)
      <3>6. IsSeq(s) /\ Len(s) = L - t + 1
        <4>1. e[k] \in Seq(ToSet(e[k]) \cup {0})
          <5> HIDE DEF e
          <5> QED  BY <1>1, <3>4 DEF IsData, IsSeq
        <4> HIDE DEF e
        <4>2. s \in Seq(ToSet(e[k]) \cup {0}) /\ Len(s) = Len(e[k]) + 1
          BY <4>1
        <4> HIDE DEF s
        <4> QED  BY <3>4, <4>2, SeqIs
      <3>7. IsData(more) /\ more[k] = s /\ \A j \in Sections : j # k => more[j] = e[j]
        <4>1. more = [e EXCEPT ![k] = s]
          <5> HIDE DEF e
          <5> QED  BY <1>1, <3>4 DEF IsData
        <4> HIDE DEF s, e
        <4> DEFINE x == [e EXCEPT ![k] = s]
        <4>2. IsData(x) /\ x[k] = s /\ \A j \in Sections : j # k => x[j] = e[j]
          BY <1>1, <3>4, <3>6, DataExcept
        <4> HIDE DEF x, more
        <4> QED  BY <4>1, <4>2 DEF x
      <3> HIDE DEF s
      <3>8. Bytes(more) > budget
        <4>1. \A m \in 1 .. 9 : Len(more[RemovalOrder[m]]) = Len(Trim(d, k, t - 1)[RemovalOrder[m]])
          <5> HIDE DEF more, e
          <5>1. Len(more[k]) = Len(Trim(d, k, t - 1)[k])
            BY <2>1, <3>3, <3>5, <3>6, <3>7
          <5> QED  BY <3>4, <3>5, <3>7, <5>1, OrderIs
        <4> HIDE DEF more, e
        <4>2. Bytes(more) = Bytes(Trim(d, k, t - 1))
          BY <3>5, <3>7, <4>1, BytesByLen
        <4> QED  BY <3>3, <4>2
      <3>9. Bytes(e) \in Nat
        <4> HIDE DEF e
        <4> QED  BY <3>4, BytesByLen
      <3>10. Len(e[k]) < Len(full[k])
        <4> HIDE DEF e
        <4> QED  BY <1>2, <2>1, <3>3, <3>4
      <3>11. ~(Bytes(e) > budget)
        BY <3>3, <3>9
      <3> HIDE DEF e
      <3>12. FitsUpTo(full, e, n + 1)
        <4>1. k = RemovalOrder[n + 1]
          BY DEF k
        <4>2. Bytes(OneMore(e, k)) > budget
          BY <3>8 DEF more, OneMore
        <4>3. Bytes(e) > budget => e[k] = <<>>
          BY <3>11
        <4>4. Part(k, e[k], full[k]) /\ \A j \in Sections : j # k => e[j] = d[j]
          BY <1>2, <3>4
        <4>5. IsData(e)
          BY <3>4
        <4> HIDE DEF more, L, without
        <4> QED  BY <1>6, <3>10, <4>1, <4>2, <4>3, <4>4, <4>5, CutSection
      <3> QED  BY <3>1, <3>12 DEF k
    <2> QED  BY <2>3, <2>4
  <1>7. Bytes(d) <= budget \/ Bytes(d) > budget
    BY <1>2
  <1> QED  BY <1>5, <1>6, <1>7

LEMMA FitRecursion ==
    ASSUME NEW d
    PROVE  \E f : /\ f[0] = d /\ Fit(d) = f[9]
                  /\ \A n \in 1 .. 9 : f[n] = FitSection(f[n - 1], RemovalOrder[n])
  <1> DEFINE next(n, r) == IF n = 0 THEN d ELSE FitSection(r, RemovalOrder[n])
             F == CHOOSE h : h = [n \in 0 .. 9 |-> next(n, h[n - 1])]
             d1 == next(1, d) d2 == next(2, d1) d3 == next(3, d2) d4 == next(4, d3)
             d5 == next(5, d4) d6 == next(6, d5) d7 == next(7, d6) d8 == next(8, d7)
             d9 == next(9, d8)
             g == <<d1, d2, d3, d4, d5, d6, d7, d8, d9>>
             f == [n \in 0 .. 9 |-> IF n = 0 THEN d ELSE g[n]]
  <1>1. f = [n \in 0 .. 9 |-> next(n, f[n - 1])]
    <2>1. next(0, f[0 - 1]) = d
      OBVIOUS
    <2>2. /\ d1 = next(1, d) /\ d2 = next(2, d1) /\ d3 = next(3, d2) /\ d4 = next(4, d3)
          /\ d5 = next(5, d4) /\ d6 = next(6, d5) /\ d7 = next(7, d6) /\ d8 = next(8, d7)
          /\ d9 = next(9, d8)
      OBVIOUS
    <2> HIDE DEF next, d1, d2, d3, d4, d5, d6, d7, d8, d9
    <2>3. /\ f[0] = d /\ f[1] = d1 /\ f[2] = d2 /\ f[3] = d3 /\ f[4] = d4 /\ f[5] = d5
          /\ f[6] = d6 /\ f[7] = d7 /\ f[8] = d8 /\ f[9] = d9 /\ f = [n \in 0 .. 9 |-> f[n]]
      OBVIOUS
    <2> HIDE DEF f, g
    <2>4. \A n \in 0 .. 9 : f[n] = next(n, f[n - 1])
      BY <2>1, <2>2, <2>3
    <2> QED  BY <2>3, <2>4
  <1>2. F = [n \in 0 .. 9 |-> next(n, F[n - 1])]
    <2> HIDE DEF next, f
    <2> QED  BY <1>1
  <1>3. Fit(d) = F[9]
    BY OrderIs DEF Fit
  <1> HIDE DEF F
  <1>4. \A n \in 0 .. 9 : F[n] = next(n, F[n - 1])
    <2> HIDE DEF next
    <2> QED  BY <1>2
  <1>5. F[0] = d /\ \A n \in 1 .. 9 : F[n] = FitSection(F[n - 1], RemovalOrder[n])
    BY <1>4
  <1> QED  BY <1>3, <1>5

LEMMA FitIs ==
    ASSUME NEW full, IsData(full), budget \in Nat, BlockBytes <= budget
    PROVE  FitsUpTo(full, Fit(full), 9) /\ Bytes(Fit(full)) <= budget
  <1>1. PICK f : /\ f[0] = full /\ Fit(full) = f[9]
                 /\ \A n \in 1 .. 9 : f[n] = FitSection(f[n - 1], RemovalOrder[n])
    BY FitRecursion
  <1> DEFINE S == {n \in 0 .. 9 : FitsUpTo(full, f[n], n)}
  <1>2. 0 \in S
    <2>1. \A k \in Sections : Part(k, full[k], full[k]) /\ Len(full[k]) \in Nat
      BY PartOfItself DEF IsData, IsSeq
    <2>2. \A c \in 1 .. 9 : ~LosesAt(full, full, c)
      BY <2>1, OrderIs DEF LosesAt
    <2>3. FitsUpTo(full, full, 0)
      BY <2>1, <2>2 DEF FitsUpTo
    <2> QED  BY <1>1, <2>3
  <1>3. ASSUME NEW n \in 0 .. 9, n < 9, n \in S
        PROVE  n + 1 \in S
    <2>1. n \in 0 .. 8 /\ n + 1 \in 1 .. 9 /\ n + 1 \in 0 .. 9 /\ (n + 1) - 1 = n
      BY <1>3
    <2>2. FitsUpTo(full, f[n], n)
      BY <1>3
    <2>3. f[n + 1] = FitSection(f[n], RemovalOrder[n + 1])
      BY <1>1, <2>1
    <2>4. FitsUpTo(full, f[n + 1], n + 1)
      BY <2>1, <2>2, <2>3, FitStep
    <2> QED  BY <2>1, <2>4
  <1>4. 9 \in S
    <2>1. 0 .. 9 \subseteq S
      <3> HIDE DEF S
      <3> QED  BY <1>2, <1>3, InductiveUpTo
    <2> QED  BY <2>1
  <1> DEFINE d == Fit(full)
  <1>5. FitsUpTo(full, d, 9)
    BY <1>1, <1>4
  <1> HIDE DEF d
  <1>6. IsData(d) /\ Bytes(d) \in Nat
    BY <1>5, BytesByLen DEF FitsUpTo
  <1>7. Bytes(d) > budget => \A n \in 1 .. 9 : d[RemovalOrder[n]] = <<>>
    BY <1>5 DEF FitsUpTo
  <1>8. Bytes(d) <= budget
    <2>1. BlockBytes \in Nat
      BY LedgerAssumption
    <2> QED  BY <1>6, <1>7, <2>1, BytesEmpty
  <1> QED  BY <1>5, <1>8 DEF d


\* What LedgerFits says of a ledger and what fits of it.
Fitting(full, d) ==
    LET cut == {n \in DOMAIN RemovalOrder : Len(d[RemovalOrder[n]]) < Len(full[RemovalOrder[n]])}
        last == RemovalOrder[Max(cut)]
    IN /\ \A k \in Sections :
            IF k = "next_actions" THEN IsPrefix(d[k], full[k]) ELSE IsSuffix(d[k], full[k])
       /\ cut # {} => /\ \A m \in 1 .. Max(cut) - 1 : d[RemovalOrder[m]] = <<>>
                      /\ Bytes([d EXCEPT ![last] = Append(@, 0)]) > budget
       /\ Bytes(d) <= budget

LEMMA FittingIs ==
    ASSUME NEW full, IsData(full), budget \in Nat, BlockBytes <= budget
    PROVE  Fitting(full, Fit(full))
  <1> DEFINE d == Fit(full)
             cut == {n \in DOMAIN RemovalOrder : Len(d[RemovalOrder[n]]) < Len(full[RemovalOrder[n]])}
             last == RemovalOrder[Max(cut)]
  <1>1. FitsUpTo(full, d, 9) /\ Bytes(d) <= budget
    BY FitIs
  <1>2. DOMAIN RemovalOrder = 1 .. 9
    BY DEF RemovalOrder
  <1> HIDE DEF d
  <1>3. cut = {n \in 1 .. 9 : LosesAt(full, d, n)}
    BY <1>2 DEF LosesAt
  <1> HIDE DEF cut
  <1>4. ASSUME cut # {}
        PROVE  /\ \A m \in 1 .. Max(cut) - 1 : d[RemovalOrder[m]] = <<>>
               /\ Bytes(OneMore(d, last)) > budget
    <2>1. Max(cut) \in cut /\ \A y \in cut : y <= Max(cut)
      <3>1. cut \in SUBSET (0 .. 9)
        BY <1>3
      <3> QED  BY <1>4, <3>1, BoundedMax
    <2> DEFINE c == Max(cut)
    <2>2. c \in 1 .. 9 /\ LosesAt(full, d, c)
      BY <1>3, <2>1
    <2>3. \A m \in c + 1 .. 9 : ~LosesAt(full, d, m)
      <3> TAKE m \in c + 1 .. 9
      <3>1. m \in 1 .. 9 /\ ~(m <= c)
        BY <2>2
      <3> QED  BY <1>3, <2>1, <3>1
    <2> HIDE DEF c
    <2>4. /\ \A m \in 1 .. c - 1 : d[RemovalOrder[m]] = <<>>
          /\ Bytes(OneMore(d, RemovalOrder[c])) > budget
      BY <1>1, <2>2, <2>3 DEF FitsUpTo
    <2> QED  BY <2>4 DEF c
  <1>5. \A k \in Sections : Part(k, d[k], full[k])
    BY <1>1 DEF FitsUpTo
  <1> QED  BY <1>1, <1>4, <1>5 DEF Fitting, Part, OneMore, cut, d

----------------------------------------------------------------------------
(* The ledger that is fitted has a sequence of values for each section. *)





LEMMA EndsSeq ==
    ASSUME NEW s, IsSeq(s), NEW l \in Nat
    PROVE  IsSeq(LastOf(s, l)) /\ IsSeq(FirstOf(s, l))
  <1> DEFINE X == ToSet(s)
  <1>1. s \in Seq(X)
    BY DEF IsSeq
  <1> HIDE DEF X
  <1>2. LastOf(s, l) \in Seq(X) /\ FirstOf(s, l) \in Seq(X)
    BY <1>1, LastOfIs, FirstOfIs
  <1> QED  BY <1>2, SeqIs

\* A sequence of at most l values.
Within(s, l) == IsSeq(s) /\ Len(s) <= l

LEMMA EndsWithin ==
    ASSUME NEW s, IsSeq(s), NEW l \in Nat
    PROVE  Within(LastOf(s, l), l) /\ Within(FirstOf(s, l), l)
  <1> DEFINE X == ToSet(s)
  <1>1. s \in Seq(X) /\ Len(s) \in Nat
    BY DEF IsSeq
  <1> HIDE DEF X
  <1>2. Len(LastOf(s, l)) = IF l <= Len(s) THEN l ELSE Len(s)
    BY <1>1, LastOfIs
  <1>3. Len(FirstOf(s, l)) = IF l <= Len(s) THEN l ELSE Len(s)
    BY <1>1, FirstOfIs
  <1> QED  BY <1>1, <1>2, <1>3, EndsSeq DEF Within

LEMMA ConcatSeq ==
    ASSUME NEW s, IsSeq(s), NEW t, IsSeq(t)
    PROVE  IsSeq(s \o t)
  <1> DEFINE X == ToSet(s) \cup ToSet(t)
  <1>1. s \in Seq(ToSet(s)) /\ t \in Seq(ToSet(t)) /\ ToSet(s) \subseteq X /\ ToSet(t) \subseteq X
    BY DEF IsSeq
  <1> HIDE DEF X
  <1>2. s \in Seq(X) /\ t \in Seq(X)
    BY <1>1, SeqDomain DEF IsSeq
  <1>3. s \o t \in Seq(X)
    BY <1>2
  <1> QED  BY <1>3, SeqIs

LEMMA ReverseSeq ==
    ASSUME NEW X, NEW s \in Seq(X)
    PROVE  Reverse(s) \in Seq(X) /\ Len(Reverse(s)) = Len(s)
  BY DEF Reverse

LEMMA UniqueSeq ==
    ASSUME NEW s, IsSeq(s)
    PROVE  IsSeq(Unique(s))
  <1> DEFINE firsts == {n \in DOMAIN s : \A m \in 1 .. n - 1 : s[m] # s[n]}
             numbers == [n \in DOMAIN s |-> n]
             places == Keep(numbers, firsts)
             u == [i \in DOMAIN places |-> s[places[i]]]
  <1>1. numbers \in Seq(Nat)
    BY SeqDomain
  <1> HIDE DEF numbers, firsts
  <1>2. places \in Seq(Nat)
    BY <1>1, KeepPlaces
  <1> HIDE DEF places
  <1>3. Len(places) \in Nat /\ DOMAIN places = 1 .. Len(places)
    BY <1>2
  <1>4. u = [i \in 1 .. Len(places) |-> u[i]]
    BY <1>3
  <1> HIDE DEF u
  <1>5. IsSeq(u)
    BY <1>3, <1>4, BuiltSeq
  <1> QED  BY <1>5 DEF Unique, u, places, numbers, firsts

LEMMA MergeSeq ==
    ASSUME NEW s, IsSeq(s), NEW t, IsSeq(t), NEW l \in Nat
    PROVE  Within(MergeValues(s, t, l), l)
  BY ConcatSeq, UniqueSeq, EndsWithin DEF MergeValues

LEMMA NewestUniqueSeq ==
    ASSUME NEW s, IsSeq(s), NEW l \in Nat
    PROVE  IsSeq(NewestUnique(s, l))
  <1>1. \A t : IsSeq(t) => IsSeq(Reverse(t))
    <2> TAKE t
    <2> HAVE IsSeq(t)
    <2> DEFINE X == ToSet(t)
    <2>1. t \in Seq(X)
      BY DEF IsSeq
    <2> HIDE DEF X
    <2>2. Reverse(t) \in Seq(X)
      BY <2>1, ReverseSeq
    <2> QED  BY <2>2, SeqIs
  <1> QED  BY <1>1, UniqueSeq, EndsSeq DEF NewestUnique

LEMMA AscendingSeq ==
    ASSUME NEW A, IsFiniteSet(A)
    PROVE  IsSeq(Ascending(A))
  <1> DEFINE n == Cardinality(A)
             s == Ascending(A)
  <1>1. n \in Nat
    BY FS_CardinalityType
  <1> DEFINE pick(i) == CHOOSE x \in A : Cardinality({y \in A : y < x}) = i - 1
  <1>0. s = [i \in 1 .. n |-> pick(i)]
    BY DEF Ascending
  <1> HIDE DEF n, s, pick
  <1>2. s = [i \in 1 .. n |-> s[i]]
    BY <1>0
  <1>3. IsSeq(s)
    BY <1>1, <1>2, BuiltSeq
  <1> QED  BY <1>3 DEF s

LEMMA AscendingBound ==
    ASSUME NEW s, IsSeq(s)
    PROVE  Len(Ascending(ToSet(s))) <= Len(s)
  <1> DEFINE A == ToSet(s)
             n == Cardinality(A)
             f == [i \in 1 .. Len(s) |-> s[i]]
  <1>1. Len(s) \in Nat /\ DOMAIN s = 1 .. Len(s)
    BY SeqDomain
  <1>2. f \in Surjection(1 .. Len(s), A)
    BY <1>1 DEF Surjection, ToSet
  <1>3. IsFiniteSet(1 .. Len(s)) /\ Cardinality(1 .. Len(s)) = Len(s)
    <2> DEFINE b == Len(s)
    <2>1. b \in Nat
      BY <1>1
    <2> HIDE DEF b
    <2>2. IsFiniteSet(1 .. b) /\ Cardinality(1 .. b) = IF 1 > b THEN 0 ELSE (b - 1) + 1
      BY <2>1, FS_Interval
    <2>3. Cardinality(1 .. b) = b
      BY <2>1, <2>2
    <2> QED  BY <2>2, <2>3 DEF b
  <1> HIDE DEF f, A
  <1>4. IsFiniteSet(A) /\ n <= Len(s)
    BY <1>2, <1>3, FS_Surjection
  <1>5. n \in Nat
    BY <1>4, FS_CardinalityType
  <1>6. Len(Ascending(A)) = n
    <2> DEFINE r == Ascending(A)
               pick(i) == CHOOSE x \in A : Cardinality({y \in A : y < x}) = i - 1
    <2>1. r = [i \in 1 .. n |-> pick(i)]
      BY DEF Ascending
    <2> HIDE DEF r, n, pick
    <2>2. r = [i \in 1 .. n |-> r[i]]
      BY <2>1
    <2>3. Len(r) = n
      BY <1>5, <2>2, BuiltSeq
    <2> QED  BY <2>3 DEF r
  <1> QED  BY <1>4, <1>6 DEF A

LEMMA SortedSeq ==
    ASSUME NEW ts, IsFiniteSet(ts)
    PROVE  Within(SortedBounded(ts), Limits.todos)
  <1> DEFINE g == [t \in ts |-> t.id]
             ids == Ascending({t.id : t \in ts})
             s == [n \in DOMAIN ids |-> CHOOSE t \in ts : t.id = ids[n]]
  <1>1. IsFiniteSet({t.id : t \in ts})
    <2>1. {t.id : t \in ts} = {g[t] : t \in ts} /\ DOMAIN g = ts
      OBVIOUS
    <2> HIDE DEF g
    <2>2. IsFiniteSet({g[t] : t \in ts})
      BY <2>1, ImageFinite
    <2> QED  BY <2>1, <2>2
  <1>2. IsSeq(ids)
    BY <1>1, AscendingSeq
  <1> HIDE DEF ids
  <1>3. Len(ids) \in Nat /\ DOMAIN ids = 1 .. Len(ids)
    BY <1>2, SeqDomain
  <1>4. s = [n \in 1 .. Len(ids) |-> s[n]]
    BY <1>3
  <1> HIDE DEF s
  <1>5. IsSeq(s)
    BY <1>3, <1>4, BuiltSeq
  <1>6. Limits.todos \in Nat
    <2>1. "todos" \in Sections
      BY DEF Sections, RemovalOrder, ToSet
    <2> QED  BY <2>1, LedgerAssumption
  <1>7. Within(FirstOf(s, Limits.todos), Limits.todos)
    BY <1>5, <1>6, EndsWithin
  <1> QED  BY <1>7 DEF SortedBounded, s, ids

LEMMA AddPathIs ==
    ASSUME NEW paths \in Seq(Nat), NEW p \in Nat
    PROVE  AddPath(paths, p) \in Seq(Nat)
  <1> DEFINE grown == Append(paths, p)
  <1>1. grown \in Seq(Nat)
    OBVIOUS
  <1> HIDE DEF grown
  <1>2. \A A : Keep(grown, A) \in Seq(Nat)
    BY <1>1, KeepPlaces
  <1> QED  BY <1>1, <1>2 DEF AddPath, grown

LEMMA AddPathsIs ==
    ASSUME NEW added \in Seq(Nat)
    PROVE  AddPaths(added) \in Seq(Nat)
  <1> DEFINE N == Len(added)
             T == Seq(Nat)
             step == [n \in 1 .. N |-> [r \in T |-> AddPath(r, added[n])]]
             next(n, r) == IF n = 0 THEN <<>> ELSE AddPath(r, added[n])
             F == CHOOSE h : h = [n \in 0 .. N |-> next(n, h[n - 1])]
  <1>1. N \in Nat /\ (\A n \in 1 .. N : added[n] \in Nat) /\ <<>> \in T
    OBVIOUS
  <1>2. IsSteps(T, N, step)
    <2>1. \A n \in 1 .. N : [r \in T |-> AddPath(r, added[n])] \in [T -> T]
      BY <1>1, AddPathIs
    <2> QED  BY <2>1 DEF IsSteps
  <1>3. \A n \in 1 .. N, r \in T : step[n][r] = next(n, r)
    OBVIOUS
  <1>4. PICK f : f \in Runs(T, <<>>, N, step)
    <2> HIDE DEF step, N, T
    <2> QED  BY <1>1, <1>2, StepsExist
  <1>5. F = [n \in 0 .. N |-> next(n, F[n - 1])]
    <2>1. f = [n \in 0 .. N |-> f[n]] /\ f[0] = <<>>
          /\ \A n \in 1 .. N : f[n - 1] \in T /\ f[n] = step[n][f[n - 1]]
      <3> HIDE DEF step, T
      <3>1. f \in [0 .. N -> T] /\ f[0] = <<>> /\ \A n \in 1 .. N : f[n] = step[n][f[n - 1]]
        BY <1>4 DEF Runs
      <3>2. \A n \in 1 .. N : n - 1 \in 0 .. N
        BY <1>1
      <3> HIDE DEF N
      <3> QED  BY <3>1, <3>2
    <2>2. \A n \in 0 .. N : f[n] = next(n, f[n - 1])
      <3>1. \A n \in 0 .. N : n = 0 \/ n \in 1 .. N
        BY <1>1
      <3>2. \A r : next(0, r) = <<>>
        OBVIOUS
      <3> HIDE DEF next, step, T, N
      <3> QED  BY <1>3, <2>1, <3>1, <3>2
    <2>3. f = [n \in 0 .. N |-> next(n, f[n - 1])]
      <3> HIDE DEF next, N
      <3> QED  BY <2>1, <2>2
    <2> HIDE DEF next, N
    <2> QED  BY <2>3
  <1>6. AddPaths(added) = F[N]
    BY DEF AddPaths
  <1> HIDE DEF F
  <1>7. F[0] = <<>> /\ \A n \in 1 .. N : F[n] = next(n, F[n - 1])
    <2>1. \A n \in 0 .. N : F[n] = next(n, F[n - 1])
      <3> HIDE DEF next, N
      <3> QED  BY <1>5
    <2>2. 0 \in 0 .. N /\ \A n \in 1 .. N : n \in 0 .. N
      BY <1>1
    <2>3. \A r : next(0, r) = <<>>
      OBVIOUS
    <2> HIDE DEF next, N
    <2> QED  BY <2>1, <2>2, <2>3
  <1>8. \A n \in 0 .. N : F[n] \in T
    <2>1. \A n \in 1 .. N : F[n - 1] \in T => F[n] = step[n][F[n - 1]]
      <3> HIDE DEF step, next, T
      <3> QED  BY <1>3, <1>7
    <2>2. F[0] \in T
      BY <1>1, <1>7
    <2> HIDE DEF step, T, N
    <2> QED  BY <1>1, <1>2, <2>1, <2>2, StepsType
  <1>9. N \in 0 .. N
    BY <1>1
  <1> QED  BY <1>6, <1>8, <1>9

\* FlattenSeq puts one sequence behind the others.
Flattens(X, seqs, f) ==
    /\ f \in [0 .. Len(seqs) -> Seq(X)]
    /\ FlattenSeq(seqs) = f[Len(seqs)]
    /\ f[0] = <<>>
    /\ \A n \in 1 .. Len(seqs) : f[n] = f[n - 1] \o seqs[n]

LEMMA FlattenRecursion ==
    ASSUME NEW X, NEW seqs \in Seq(Seq(X))
    PROVE  \E f : Flattens(X, seqs, f)
  <1> DEFINE N == Len(seqs)
             T == Seq(X)
             step == [n \in 1 .. N |-> [r \in T |-> IF n = 1 THEN seqs[n] ELSE r \o seqs[n]]]
             next(n, r) == IF n = 1 THEN seqs[n] ELSE r \o seqs[n]
             F == CHOOSE h : h = [n \in 1 .. N |-> next(n, h[n - 1])]
  <1>1. N \in Nat /\ (\A n \in 1 .. N : seqs[n] \in T) /\ <<>> \in T
    OBVIOUS
  <1>2. IsSteps(T, N, step)
    <2>1. \A r, s \in T : r \o s \in T
      OBVIOUS
    <2>2. \A n \in 1 .. N : [r \in T |-> IF n = 1 THEN seqs[n] ELSE r \o seqs[n]] \in [T -> T]
      <3> HIDE DEF T
      <3> QED  BY <1>1, <2>1
    <2> QED  BY <2>2 DEF IsSteps
  <1>3. \A n \in 1 .. N, r \in T : step[n][r] = next(n, r)
    OBVIOUS
  <1>4. PICK f : f \in Runs(T, <<>>, N, step)
    <2> HIDE DEF step, N, T
    <2> QED  BY <1>1, <1>2, StepsExist
  <1>5. F = [n \in 1 .. N |-> next(n, F[n - 1])]
    <2> DEFINE g == [n \in 1 .. N |-> f[n]]
    <2>1. \A n \in 1 .. N : f[n - 1] \in T /\ f[n] = step[n][f[n - 1]]
      <3> HIDE DEF step, T
      <3>1. f \in [0 .. N -> T] /\ \A n \in 1 .. N : f[n] = step[n][f[n - 1]]
        BY <1>4 DEF Runs
      <3>2. \A n \in 1 .. N : n - 1 \in 0 .. N
        BY <1>1
      <3> HIDE DEF N
      <3> QED  BY <3>1, <3>2
    <2>2. \A n \in 1 .. N : f[n] = next(n, f[n - 1])
      <3> HIDE DEF next, step, T, N
      <3> QED  BY <1>3, <2>1
    <2>3. \A n \in 1 .. N : next(n, f[n - 1]) = next(n, g[n - 1])
      <3> TAKE n \in 1 .. N
      <3>1. n = 1 \/ n - 1 \in 1 .. N
        BY <1>1
      <3> HIDE DEF N
      <3> QED  BY <3>1
    <2>4. g = [n \in 1 .. N |-> next(n, g[n - 1])]
      <3>1. \A n \in 1 .. N : f[n] = next(n, g[n - 1])
        <4> HIDE DEF next, N, g
        <4> QED  BY <2>2, <2>3
      <3>2. g = [n \in 1 .. N |-> g[n]] /\ \A n \in 1 .. N : g[n] = f[n]
        OBVIOUS
      <3> HIDE DEF next, N, g
      <3> QED  BY <3>1, <3>2
    <2> HIDE DEF next, N, g
    <2> QED  BY <2>4
  <1>6. FlattenSeq(seqs) = IF N = 0 THEN seqs ELSE F[N]
    BY DEF FlattenSeq
  <1> HIDE DEF F
  <1> DEFINE G == [n \in 0 .. N |-> IF n = 0 THEN <<>> ELSE F[n]]
  <1>7. \A n \in 1 .. N : F[n] = next(n, F[n - 1])
    <2> HIDE DEF next, N
    <2> QED  BY <1>5
  <1>8. G[0] = <<>> /\ \A n \in 1 .. N : G[n] = F[n]
    BY <1>1
  <1>9. \A n \in 1 .. N : G[n] = next(n, G[n - 1])
    <2> TAKE n \in 1 .. N
    <2>1. n = 1 \/ n - 1 \in 1 .. N
      BY <1>1
    <2>2. F[n] = next(n, F[n - 1]) /\ G[n] = F[n]
      <3> HIDE DEF next, G
      <3> QED  BY <1>7, <1>8
    <2>3. n - 1 \in 1 .. N => G[n - 1] = F[n - 1]
      <3> HIDE DEF G
      <3> QED  BY <1>8
    <2> HIDE DEF G, N
    <2> QED  BY <2>1, <2>2, <2>3
  <1> HIDE DEF G
  <1>10. \A n \in 0 .. N : G[n] \in T
    <2>1. \A n \in 1 .. N : G[n - 1] \in T => G[n] = step[n][G[n - 1]]
      <3> HIDE DEF step, next, T
      <3> QED  BY <1>3, <1>9
    <2>2. G[0] \in T
      BY <1>1, <1>8
    <2> HIDE DEF step, T, N
    <2> QED  BY <1>1, <1>2, <2>1, <2>2, StepsType
  <1>11. G \in [0 .. N -> T]
    <2>1. G = [n \in 0 .. N |-> G[n]]
      BY DEF G
    <2> HIDE DEF T
    <2> QED  BY <1>10, <2>1
  <1>12. \A n \in 1 .. N : G[n] = G[n - 1] \o seqs[n]
    <2> TAKE n \in 1 .. N
    <2>1. G[n] = next(n, G[n - 1]) /\ seqs[n] \in T
      BY <1>1, <1>9
    <2>2. CASE n = 1
      <3>1. G[n - 1] = <<>> /\ <<>> \o seqs[n] = seqs[n]
        BY <1>8, <2>1, <2>2
      <3> QED  BY <2>1, <2>2, <3>1
    <2>3. CASE n # 1
      BY <2>1, <2>3
    <2> QED  BY <2>2, <2>3
  <1>13. FlattenSeq(seqs) = G[N]
    <2>1. CASE N = 0
      <3>1. seqs = <<>>
        BY <2>1
      <3> QED  BY <1>6, <1>8, <2>1, <3>1
    <2>2. CASE N # 0
      <3>1. N \in 1 .. N
        BY <1>1, <2>2
      <3> HIDE DEF N
      <3> QED  BY <1>6, <1>8, <2>2, <3>1
    <2> QED  BY <2>1, <2>2
  <1> QED  BY <1>8, <1>11, <1>12, <1>13 DEF Flattens

LEMMA FlattenIs ==
    ASSUME NEW X, NEW seqs \in Seq(Seq(X))
    PROVE  FlattenSeq(seqs) \in Seq(X)
  <1>1. PICK f : Flattens(X, seqs, f)
    BY FlattenRecursion
  <1>2. Len(seqs) \in 0 .. Len(seqs)
    OBVIOUS
  <1> QED  BY <1>1, <1>2 DEF Flattens

LEMMA ValuesIs ==
    ASSUME NEW X, NEW ms \in Seq(X), NEW kind, NEW V, \A m \in X : m.kind = kind => m.value \in V
    PROVE  ValuesOf(ms, kind) \in Seq(V)
  <1> DEFINE A == {m \in ToSet(ms) : m.kind = kind}
             chosen == Keep(ms, A)
             s == [i \in DOMAIN chosen |-> chosen[i].value]
  <1>1. chosen \in Seq(X) /\ \E place : IsPlaces(ms, A, Len(ms), chosen, place)
    <2> HIDE DEF A
    <2> QED  BY KeepPlaces
  <1> HIDE DEF chosen
  <1>2. \A i \in 1 .. Len(chosen) : chosen[i] \in X /\ chosen[i].kind = kind
    BY <1>1 DEF IsPlaces
  <1>3. s \in Seq(V)
    BY <1>1, <1>2
  <1> QED  BY <1>3 DEF ValuesOf, chosen, A, s

LEMMA OutcomesSeq ==
    ASSUME NEW results \in Seq(Results), NEW status
    PROVE  IsSeq(Outcomes(results, status))
  <1> DEFINE A == {e \in Results : e.status = status}
             chosen == Keep(results, A)
             s == [i \in DOMAIN chosen |-> <<chosen[i].tool, chosen[i].text>>]
  <1>1. chosen \in Seq(Results)
    <2> HIDE DEF A
    <2> QED  BY KeepPlaces
  <1> HIDE DEF chosen
  <1>2. Len(chosen) \in Nat /\ s = [i \in 1 .. Len(chosen) |-> s[i]]
    BY <1>1
  <1> HIDE DEF s
  <1>3. IsSeq(s)
    BY <1>2, BuiltSeq
  <1> QED  BY <1>3 DEF Outcomes, chosen, A, s

\* What a message carries, and of a summary that it is a ledger.
MessageIs(m) ==
    /\ m.kind = "user" => m.value \in Requests
    /\ m.kind = "tool" => m.value \in Results
    /\ m.kind = "summary" => IsData(m.value)

LedgerInv ==
    /\ IsSeq(messages)
    /\ \A m \in ToSet(messages) : MessageIs(m)
    /\ budget \in Budgets

LEMMA BudgetIs ==
    ASSUME LedgerInv
    PROVE  budget \in Nat /\ BlockBytes \in Nat /\ BlockBytes <= budget
  BY LedgerAssumption DEF LedgerInv

LEMMA LimitsAre ==
    /\ \A k \in Sections : Limits[k] \in Nat
    /\ Sections = {"evidence", "tool_statuses", "errors", "legacy_context", "constraints",
                   "touched_paths", "todos", "recent_requests", "next_actions"}
    /\ RequestTurns \in Nat /\ LedgerWindow \in Nat
  <1>1. Sections = {"evidence", "tool_statuses", "errors", "legacy_context", "constraints",
                    "touched_paths", "todos", "recent_requests", "next_actions"}
    <2>1. DOMAIN RemovalOrder = {1, 2, 3, 4, 5, 6, 7, 8, 9}
      BY DEF RemovalOrder
    <2>2. Sections = {RemovalOrder[1], RemovalOrder[2], RemovalOrder[3], RemovalOrder[4],
                      RemovalOrder[5], RemovalOrder[6], RemovalOrder[7], RemovalOrder[8],
                      RemovalOrder[9]}
      BY <2>1 DEF Sections, ToSet
    <2>3. /\ RemovalOrder[1] = "evidence" /\ RemovalOrder[2] = "tool_statuses"
          /\ RemovalOrder[3] = "errors" /\ RemovalOrder[4] = "legacy_context"
          /\ RemovalOrder[5] = "constraints" /\ RemovalOrder[6] = "touched_paths"
          /\ RemovalOrder[7] = "todos" /\ RemovalOrder[8] = "recent_requests"
          /\ RemovalOrder[9] = "next_actions"
      BY DEF RemovalOrder
    <2> QED  BY <2>2, <2>3
  <1> QED  BY <1>1, LedgerAssumption

LEMMA NoneSeq == IsSeq(<<>>)
  <1>1. <<>> \in Seq(Nat)
    OBVIOUS
  <1> QED  BY <1>1, SeqIs

LEMMA PriorIsData ==
    ASSUME LedgerInv
    PROVE  IsData(Prior) /\ PriorPosition \in Nat
  <1>1. DOMAIN messages = 1 .. Len(messages) /\ Len(messages) \in Nat
    BY SeqDomain DEF LedgerInv
  <1>2. PriorPosition \in Trusted \cup {0} /\ PriorPosition \in Nat
    <2>1. Trusted \cup {0} \in SUBSET (0 .. Len(messages)) /\ Trusted \cup {0} # {}
      BY <1>1 DEF Trusted
    <2>2. Max(Trusted \cup {0}) \in Trusted \cup {0}
      BY <1>1, <2>1, BoundedMax
    <2> QED  BY <1>1, <2>1, <2>2 DEF PriorPosition
  <1>3. CASE PriorPosition = 0
    <2>1. IsData(NoValues)
      <3>1. NoValues = [k \in Sections |-> NoValues[k]] /\ \A k \in Sections : NoValues[k] = <<>>
        BY DEF NoValues
      <3>2. \A k \in Sections : IsSeq(NoValues[k])
        BY <3>1, NoneSeq
      <3> QED  BY <3>1, <3>2, Zenon DEF IsData
    <2> QED  BY <1>2, <1>3, <2>1 DEF Prior
  <1>4. CASE PriorPosition # 0
    <2>1. PriorPosition \in DOMAIN messages /\ messages[PriorPosition].kind = "summary"
      BY <1>2, <1>4 DEF Trusted
    <2>2. messages[PriorPosition] \in ToSet(messages)
      BY <2>1 DEF ToSet
    <2>3. IsData(messages[PriorPosition].value)
      BY <2>1, <2>2 DEF LedgerInv, MessageIs
    <2> QED  BY <1>2, <1>4, <2>3 DEF Prior
  <1> QED  BY <1>3, <1>4

Recovered == {"evidence", "errors", "tool_statuses", "legacy_context", "constraints",
              "touched_paths", "recent_requests"}

LEMMA RecoveredIs ==
    ASSUME LedgerInv
    PROVE  \A k \in Recovered : IsSeq(RecoveredLedger[k])
  <1> DEFINE X == ToSet(messages)
             requests == ValuesOf(Window, "user")
             results == ValuesOf(Window, "tool")
             newestFirst == Reverse(results)
  <1>1. Window \in Seq(X)
    <2>1. messages \in Seq(X)
      BY DEF LedgerInv, IsSeq
    <2> HIDE DEF X
    <2> QED  BY <2>1, LimitsAre, LastOfIs DEF Window
  <1>2. /\ \A m \in X : m.kind = "user" => m.value \in Requests
        /\ \A m \in X : m.kind = "tool" => m.value \in Results
    BY DEF LedgerInv, MessageIs
  <1> HIDE DEF X
  <1>3. requests \in Seq(Requests) /\ results \in Seq(Results)
    BY <1>1, <1>2, ValuesIs
  <1> HIDE DEF requests, results
  <1>4. /\ Len(requests) \in Nat /\ DOMAIN requests = 1 .. Len(requests)
        /\ \A i \in 1 .. Len(requests) : requests[i] \in Requests
        /\ Len(results) \in Nat /\ DOMAIN results = 1 .. Len(results)
        /\ \A i \in 1 .. Len(results) : results[i] \in Results
    BY <1>3
  <1>5. /\ Limits.evidence \in Nat /\ Limits.errors \in Nat /\ Limits.tool_statuses \in Nat
        /\ Limits.legacy_context \in Nat /\ Limits.constraints \in Nat
        /\ Limits.recent_requests \in Nat /\ RequestTurns \in Nat
    BY LimitsAre
  <1>6. IsSeq(NewestUnique(Outcomes(results, "completed"), Limits.evidence))
    BY <1>3, <1>5, OutcomesSeq, NewestUniqueSeq
  <1>7. IsSeq(NewestUnique(Outcomes(results, "error"), Limits.errors))
    BY <1>3, <1>5, OutcomesSeq, NewestUniqueSeq
  <1>8. IsSeq(LastOf([i \in DOMAIN results |-> <<results[i].tool, results[i].status>>],
                     Limits.tool_statuses))
    <2> DEFINE s == [i \in DOMAIN results |-> <<results[i].tool, results[i].status>>]
    <2>1. s = [i \in 1 .. Len(results) |-> s[i]]
      BY <1>4
    <2> HIDE DEF s
    <2>2. IsSeq(s)
      BY <1>4, <2>1, BuiltSeq
    <2>3. IsSeq(LastOf(s, Limits.tool_statuses))
      BY <1>5, <2>2, EndsSeq
    <2> QED  BY <2>3 DEF s
  <1>9. IsSeq(LastOf(Untrusted, Limits.legacy_context))
    <2>1. \A A \in SUBSET DOMAIN messages : IsFiniteSet(A)
      BY ValuesFinite, FS_Subset DEF LedgerInv
    <2>2. IsSeq(Untrusted)
      BY <2>1, AscendingSeq DEF Untrusted
    <2> QED  BY <1>5, <2>2, EndsSeq
  <1>10. IsSeq(NewestUnique(RulesOf(requests), Limits.constraints))
    <2> DEFINE s == [i \in DOMAIN requests |-> RuleIn[requests[i]]]
    <2>1. s \in Seq(Seq(Nat))
      BY <1>4, LedgerAssumption
    <2> HIDE DEF s
    <2>2. FlattenSeq(s) \in Seq(Nat)
      BY <2>1, FlattenIs
    <2>3. IsSeq(FlattenSeq(s))
      BY <2>2, SeqIs
    <2>4. IsSeq(RulesOf(requests))
      BY <2>3 DEF RulesOf, s
    <2> QED  BY <1>5, <2>4, NewestUniqueSeq
  <1>11. IsSeq(AddPaths(FlattenSeq([i \in DOMAIN results |-> newestFirst[i].paths])))
    <2>1. newestFirst \in Seq(Results) /\ Len(newestFirst) = Len(results)
      BY <1>3, ReverseSeq
    <2> HIDE DEF newestFirst
    <2> DEFINE s == [i \in DOMAIN results |-> newestFirst[i].paths]
    <2>2. \A i \in 1 .. Len(results) : newestFirst[i] \in Results
      BY <2>1
    <2>3. s \in Seq(Seq(Nat))
      BY <1>4, <2>2, LedgerAssumption
    <2> HIDE DEF s
    <2>4. FlattenSeq(s) \in Seq(Nat)
      BY <2>3, FlattenIs
    <2>5. AddPaths(FlattenSeq(s)) \in Seq(Nat)
      BY <2>4, AddPathsIs
    <2>6. IsSeq(AddPaths(FlattenSeq(s)))
      BY <2>5, SeqIs
    <2> QED  BY <2>6 DEF s
  <1>12. IsSeq(LastOf(requests, Max({1, Min({RequestTurns, Limits.recent_requests})})))
    <2> DEFINE l == Min({RequestTurns, Limits.recent_requests})
    <2>1. l \in Nat
      BY <1>5, MinIs
    <2> HIDE DEF l
    <2>2. Max({1, l}) \in Nat
      BY <2>1 DEF Max
    <2>3. IsSeq(requests)
      BY <1>3, SeqIs
    <2>4. IsSeq(LastOf(requests, Max({1, l})))
      BY <2>2, <2>3, EndsSeq
    <2> QED  BY <2>4 DEF l
  <1> DEFINE r == RecoveredLedger
  <1>13. /\ IsSeq(r.evidence) /\ IsSeq(r.errors) /\ IsSeq(r.tool_statuses) /\ IsSeq(r.legacy_context)
         /\ IsSeq(r.constraints) /\ IsSeq(r.touched_paths) /\ IsSeq(r.recent_requests)
    BY <1>6, <1>7, <1>8, <1>9, <1>10, <1>11, <1>12 DEF RecoveredLedger, requests, results
  <1> HIDE DEF r
  <1>14. \A k \in Recovered : IsSeq(r[k])
    BY <1>13 DEF Recovered
  <1> QED  BY <1>14 DEF r

LEMMA MergeTodosSeq ==
    ASSUME NEW s, IsSeq(s), NEW t, IsSeq(t)
    PROVE  Within(MergeTodos(s, t), Limits.todos)
  <1> DEFINE A == {x \in ToSet(s) : \A u \in ToSet(t) : u.id # x.id}
  <1>1. IsFiniteSet(ToSet(t)) /\ IsFiniteSet(ToSet(s)) /\ A \in SUBSET ToSet(s)
    BY ValuesFinite
  <1> HIDE DEF A
  <1>2. IsFiniteSet(A)
    BY <1>1, FS_Subset
  <1>3. IsFiniteSet(ToSet(t) \cup A)
    BY <1>1, <1>2, FS_Union
  <1> QED  BY <1>3, SortedSeq DEF MergeTodos, A

LEMMA MergedIsData ==
    ASSUME LedgerInv
    PROVE  IsData(Merged) /\ \A k \in Sections : Len(Merged[k]) <= Limits[k]
  <1> DEFINE new == RecoveredLedger
             both(k) == MergeValues(Prior[k], new[k], Limits[k])
             tasks == MergeTodos(Prior.todos, ListedTodos)
             chained == IF PriorPosition = 0 THEN <<>> ELSE <<-PriorPosition>>
  <1>1. \A k \in Recovered : IsSeq(new[k])
    BY RecoveredIs
  <1>2. \A k \in Sections : IsSeq(Prior[k]) /\ Limits[k] \in Nat
    BY PriorIsData, LimitsAre DEF IsData
  <1>3. \A k \in Recovered : k \in Sections
    BY LimitsAre DEF Recovered
  <1> HIDE DEF new
  <1>4. \A k \in Recovered : Within(both(k), Limits[k])
    BY <1>1, <1>2, <1>3, MergeSeq
  <1>5. IsSeq(chained)
    <2>1. <<>> \in Seq(Int) /\ <<-PriorPosition>> \in Seq(Int)
      BY PriorIsData
    <2> QED  BY <2>1, SeqIs
  <1> HIDE DEF chained
  <1>6. Within(MergeValues(Prior["legacy_context"], new["legacy_context"] \o chained, Limits["legacy_context"]),
               Limits["legacy_context"])
    <2>1. "legacy_context" \in Recovered /\ "legacy_context" \in Sections
      BY LimitsAre DEF Recovered
    <2> QED  BY <1>1, <1>2, <1>5, <2>1, ConcatSeq, MergeSeq
  <1>7. Within(Ascending(ToSet(both("touched_paths"))), Limits["touched_paths"])
    <2> DEFINE s == both("touched_paths")
    <2>1. "touched_paths" \in Recovered /\ "touched_paths" \in Sections
      BY LimitsAre DEF Recovered
    <2> HIDE DEF both
    <2>2. IsSeq(s) /\ Len(s) <= Limits["touched_paths"] /\ Limits["touched_paths"] \in Nat
      BY <1>2, <1>4, <2>1 DEF Within
    <2> HIDE DEF s
    <2>3. IsSeq(Ascending(ToSet(s))) /\ Len(Ascending(ToSet(s))) <= Len(s)
      BY <2>2, ValuesFinite, AscendingSeq, AscendingBound
    <2>4. Len(Ascending(ToSet(s))) \in Nat /\ Len(s) \in Nat
      BY <2>2, <2>3, SeqDomain
    <2> QED  BY <2>2, <2>3, <2>4 DEF Within, s
  <1>8. Within(MergeValues(Prior["recent_requests"], new["recent_requests"],
                           Min({RequestTurns, Limits["recent_requests"]})), Limits["recent_requests"])
    <2>1. "recent_requests" \in Recovered /\ "recent_requests" \in Sections
      BY LimitsAre DEF Recovered
    <2> DEFINE l == Min({RequestTurns, Limits["recent_requests"]})
    <2>2. l \in Nat /\ l <= Limits["recent_requests"] /\ Limits["recent_requests"] \in Nat
      BY <1>2, <2>1, LimitsAre, MinIs
    <2> HIDE DEF l
    <2> DEFINE s == MergeValues(Prior["recent_requests"], new["recent_requests"], l)
    <2>3. Within(s, l)
      BY <1>1, <1>2, <2>1, <2>2, MergeSeq
    <2> HIDE DEF s
    <2>4. IsSeq(s) /\ Len(s) <= l /\ Len(s) \in Nat
      BY <2>3, SeqDomain DEF Within
    <2> QED  BY <2>2, <2>4 DEF Within, l, s
  <1>9. IsSeq(ListedTodos)
    <2> DEFINE A == {j \in TodoIDs : todos[j] # "absent"}
               g == [i \in A |-> [id |-> i, status |-> todos[i]]]
               B == {[id |-> i, status |-> todos[i]] : i \in A}
    <2>1. IsFiniteSet(A)
      <3>1. A \in SUBSET TodoIDs
        OBVIOUS
      <3> HIDE DEF A
      <3> QED  BY <3>1, LedgerAssumption, FS_Subset
    <2>2. DOMAIN g = A /\ B = {g[i] : i \in A}
      OBVIOUS
    <2> HIDE DEF g, B, A
    <2>3. IsFiniteSet({g[i] : i \in A})
      BY <2>1, <2>2, ImageFinite
    <2>4. IsFiniteSet(B)
      BY <2>2, <2>3
    <2>5. IsSeq(SortedBounded(B))
      BY <2>4, SortedSeq DEF Within
    <2> QED  BY <2>5 DEF ListedTodos, A, B
  <1>10. Within(tasks, Limits["todos"]) /\ IsSeq(tasks)
    <2>1. "todos" \in Sections
      BY LimitsAre
    <2> QED  BY <1>2, <1>9, <2>1, MergeTodosSeq DEF Within
  <1> HIDE DEF tasks
  <1>11. Within(NextActions(tasks), Limits["next_actions"])
    <2> DEFINE A == {t \in ToSet(tasks) : t.status # "completed"}
               pending == Keep(tasks, A)
               contents == [i \in DOMAIN pending |-> pending[i].id]
    <2>1. IsSeq(pending)
      <3> DEFINE X == ToSet(tasks)
      <3>1. tasks \in Seq(X)
        BY <1>10 DEF IsSeq
      <3> HIDE DEF A, X
      <3>2. Keep(tasks, A) \in Seq(X)
        BY <3>1, KeepPlaces
      <3> QED  BY <3>2, SeqIs
    <2> HIDE DEF pending
    <2>2. Len(pending) \in Nat /\ DOMAIN pending = 1 .. Len(pending)
      BY <2>1, SeqDomain
    <2>3. contents = [i \in 1 .. Len(pending) |-> contents[i]]
      BY <2>2
    <2> HIDE DEF contents
    <2>4. IsSeq(contents)
      BY <2>2, <2>3, BuiltSeq
    <2>5. "next_actions" \in Sections
      BY LimitsAre
    <2>6. IsSeq(Prior.next_actions) /\ Limits.next_actions \in Nat
      BY <1>2, <2>5
    <2>7. Within(FirstOf(Unique(contents \o Prior.next_actions), Limits.next_actions), Limits.next_actions)
      BY <2>4, <2>6, ConcatSeq, UniqueSeq, EndsWithin
    <2> QED  BY <2>7 DEF NextActions, contents, pending, A
  <1> DEFINE value(k) ==
               CASE k = "recent_requests" ->
                      IF RequestTurns = 0 THEN <<>>
                      ELSE MergeValues(Prior[k], new[k], Min({RequestTurns, Limits[k]}))
                 [] k = "legacy_context" -> MergeValues(Prior[k], new[k] \o chained, Limits[k])
                 [] k = "touched_paths" -> Ascending(ToSet(both(k)))
                 [] k = "todos" -> tasks
                 [] k = "next_actions" -> NextActions(tasks)
                 [] OTHER -> both(k)
  <1>12. Merged = [k \in Sections |-> value(k)]
    BY DEF Merged, new, both, tasks, chained
  <1>13. \A k \in Sections : Within(value(k), Limits[k])
    <2> TAKE k \in Sections
    <2>1. CASE k = "recent_requests"
      <3>1. value(k) = IF RequestTurns = 0 THEN <<>>
                       ELSE MergeValues(Prior["recent_requests"], new["recent_requests"],
                                        Min({RequestTurns, Limits["recent_requests"]}))
        BY <2>1
      <3> HIDE DEF value
      <3>2. CASE RequestTurns = 0
        <4>1. value(k) = <<>>
          BY <3>1, <3>2
        <4>2. Within(<<>>, Limits[k])
          <5>1. Limits[k] \in Nat /\ Len(<<>>) = 0
            BY <1>2
          <5>2. Len(<<>>) <= Limits[k]
            BY <5>1
          <5> QED  BY <5>2, NoneSeq, Zenon DEF Within
        <4> QED  BY <4>1, <4>2, Zenon
      <3>3. CASE RequestTurns # 0
        BY <1>8, <2>1, <3>1, <3>3
      <3> QED  BY <3>2, <3>3
    <2>2. CASE k = "legacy_context"
      BY <1>6, <2>2
    <2>3. CASE k = "touched_paths"
      BY <1>7, <2>3
    <2>4. CASE k = "todos"
      BY <1>10, <2>4
    <2>5. CASE k = "next_actions"
      BY <1>11, <2>5
    <2>6. CASE k \in {"evidence", "tool_statuses", "errors", "constraints"}
      <3>1. k \in Recovered
        BY <2>6 DEF Recovered
      <3>2. value(k) = both(k)
        BY <2>6
      <3> HIDE DEF value, both
      <3> QED  BY <1>4, <3>1, <3>2
    <2> QED  BY <2>1, <2>2, <2>3, <2>4, <2>5, <2>6, LimitsAre
  <1> HIDE DEF value
  <1> QED  BY <1>12, <1>13 DEF IsData, Within

LEMMA LedgerGrows ==
    ASSUME LedgerInv, NEW kind, NEW value, MessageIs(LedgerMessage(kind, value)),
           messages' = Append(messages, LedgerMessage(kind, value)), UNCHANGED budget
    PROVE  LedgerInv'
  <1> DEFINE m == LedgerMessage(kind, value)
             X == ToSet(messages) \cup {m}
  <1> HIDE DEF m
  <1>1. messages \in Seq(ToSet(messages)) /\ ToSet(messages) \subseteq X /\ m \in X
    BY DEF LedgerInv, IsSeq
  <1>2. \A x \in X : MessageIs(x)
    BY DEF LedgerInv, m
  <1> HIDE DEF X
  <1>3. messages \in Seq(X)
    <2>1. \A i \in 1 .. Len(messages) : messages[i] \in X
      BY <1>1
    <2> QED  BY <1>1, <2>1
  <1>4. messages' \in Seq(X)
    BY <1>1, <1>3 DEF m
  <1>5. IsSeq(messages') /\ ToSet(messages') \subseteq X
    BY <1>4, SeqIs
  <1>6. IsSeq(messages)'
    BY <1>5 DEF IsSeq, ToSet
  <1>7. (\A x \in ToSet(messages) : MessageIs(x))'
    BY <1>2, <1>5 DEF MessageIs, IsData, IsSeq, ToSet
  <1>8. (budget \in Budgets)'
    BY DEF LedgerInv
  <1> QED  BY <1>6, <1>7, <1>8 DEF LedgerInv

LEMMA LedgerStep == LedgerInv /\ [LedgerNext]_ledgervars => LedgerInv'
<1> SUFFICES ASSUME LedgerInv, [LedgerNext]_ledgervars PROVE LedgerInv'
  OBVIOUS
<1>1. ASSUME NEW r \in Requests, Ask(r) PROVE LedgerInv'
  <2>1. MessageIs(LedgerMessage("user", r))
    BY DEF MessageIs, LedgerMessage
  <2> QED BY <1>1, <2>1, LedgerGrows DEF Ask
<1>2. ASSUME NEW e \in Results, RunTool(e) PROVE LedgerInv'
  <2>1. MessageIs(LedgerMessage("tool", e))
    BY DEF MessageIs, LedgerMessage
  <2> QED BY <1>2, <2>1, LedgerGrows DEF RunTool
<1>3. CASE Compacts
  <2> DEFINE d == Fit(Merged)
  <2>1. messages' = Append(messages, LedgerMessage("summary", d)) /\ UNCHANGED budget
    BY <1>3 DEF Compacts
  <2>2. IsData(d)
    BY BudgetIs, MergedIsData, FitIs DEF FitsUpTo
  <2> HIDE DEF d
  <2>3. MessageIs(LedgerMessage("summary", d))
    BY <2>2 DEF MessageIs, LedgerMessage
  <2> QED BY <2>1, <2>3, LedgerGrows
<1>4. CASE CompactsRaw
  <2>1. MessageIs(LedgerMessage("native", 0))
    BY DEF MessageIs, LedgerMessage
  <2> QED BY <1>4, <2>1, LedgerGrows DEF CompactsRaw
<1>5. CASE (\E i \in TodoIDs, status \in {"absent", "pending", "completed"} : SetTodo(i, status))
           \/ UNCHANGED ledgervars
  <2>1. UNCHANGED <<messages, budget>>
    BY <1>5 DEF SetTodo, ledgervars
  <2>2. messages' = messages /\ budget' = budget
    BY <2>1
  <2>3. IsSeq(messages)'
    <3>1. IsSeq(messages')
      BY <2>2 DEF LedgerInv
    <3> QED BY <3>1 DEF IsSeq, ToSet
  <2>4. (\A x \in ToSet(messages) : MessageIs(x))'
    <3>1. \A x \in ToSet(messages') : MessageIs(x)
      BY <2>2 DEF LedgerInv
    <3> QED BY <3>1 DEF MessageIs, IsData, IsSeq, ToSet
  <2>5. (budget \in Budgets)'
    BY <2>2 DEF LedgerInv
  <2> QED BY <2>3, <2>4, <2>5 DEF LedgerInv
<1> QED BY <1>1, <1>2, <1>3, <1>4, <1>5 DEF LedgerNext

\* Whatever is said, done and listed between any number of compactions, for any limits, sizes
\* and budgets that hold a block without values: the ledger fits its byte limit, gives the
\* least important values up first and no more of them than it must (ledger.ts:539-572).
THEOREM LedgersFit == LedgerSpec => []LedgerFits
<1>1. LedgerInit => LedgerInv
  <2> SUFFICES ASSUME LedgerInit PROVE LedgerInv
    OBVIOUS
  <2>1. messages = <<>> /\ budget \in Budgets
    BY DEF LedgerInit
  <2>2. IsSeq(messages) /\ ToSet(messages) = {}
    BY <2>1, NoneSeq DEF ToSet
  <2> QED BY <2>1, <2>2 DEF LedgerInv
<1>2. LedgerInv => LedgerFits
  <2> SUFFICES ASSUME LedgerInv PROVE LedgerFits
    OBVIOUS
  <2> DEFINE full == Merged
             d == Fit(full)
  <2>1. IsData(full) /\ budget \in Nat /\ BlockBytes <= budget
    BY BudgetIs, MergedIsData
  <2> HIDE DEF full
  <2>2. Fitting(full, d)
    BY <2>1, FittingIs
  <2> HIDE DEF d
  <2> QED BY <2>2 DEF LedgerFits, Fitting, full, d
<1> QED BY <1>1, <1>2, LedgerStep, PTL DEF LedgerSpec

----------------------------------------------------------------------------
(* The chain of ledgers: sequences without repeated values. *)

NoneTwice(s) == \A i, j \in 1 .. Len(s) : s[i] = s[j] => i = j

Increases(m, f) == f \in [1 .. m -> Nat] /\ \A i, j \in 1 .. m : i < j => f[i] < f[j]
SameValues(m, f, n, g) ==
    /\ \A i \in 1 .. m : \E j \in 1 .. n : f[i] = g[j]
    /\ \A j \in 1 .. n : \E i \in 1 .. m : f[i] = g[j]

LEMMA FunctionIsSeq ==
    ASSUME NEW X, NEW n \in Nat, NEW f \in [1 .. n -> X]
    PROVE  f \in Seq(X) /\ Len(f) = n
  OBVIOUS

LEMMA Rises ==
    ASSUME NEW m \in Nat, NEW f, Increases(m, f), NEW i \in 1 .. m, NEW j \in 1 .. m, i <= j
    PROVE  f[i] <= f[j] /\ f[i] \in Nat /\ f[j] \in Nat
  <1> DEFINE x == f[i]
             y == f[j]
  <1>1. x \in Nat /\ y \in Nat
    BY DEF Increases
  <1>2. i < j => x < y
    BY DEF Increases
  <1>3. i = j => x = y
    OBVIOUS
  <1>4. i < j \/ i = j
    OBVIOUS
  <1> HIDE DEF x, y
  <1>5. x <= y
    BY <1>1, <1>2, <1>3, <1>4
  <1> QED  BY <1>1, <1>5 DEF x, y

\* Two increasing lists of the same numbers are the same list.
LEMMA IncreasingUnique ==
    ASSUME NEW m \in Nat, NEW n \in Nat, NEW f, NEW g,
           Increases(m, f), Increases(n, g), SameValues(m, f, n, g)
    PROVE  m = n /\ \A i \in 1 .. m : f[i] = g[i]
  <1> USE DEF Increases, SameValues
  <1> DEFINE S == {k \in 0 .. m : k <= n /\ \A i \in 1 .. k : f[i] = g[i]}
  <1>1. 0 \in S
    OBVIOUS
  <1>2. ASSUME NEW k \in 0 .. m, k < m, k \in S
        PROVE  k + 1 \in S
    <2>1. k + 1 \in 1 .. m /\ k <= n /\ \A i \in 1 .. k : f[i] = g[i]
      BY <1>2
    <2>2. PICK j \in 1 .. n : f[k + 1] = g[j]
      BY <2>1
    <2>3. j >= k + 1
      <3>1. CASE j <= k
        <4>1. j \in 1 .. k /\ j \in 1 .. m /\ j < k + 1
          BY <1>2, <3>1
        <4>2. f[j] < f[k + 1] /\ f[j] = g[j]
          BY <2>1, <4>1
        <4> QED  BY <2>1, <2>2, <4>1, <4>2
      <3> QED  BY <1>2, <3>1
    <2>4. k + 1 \in 1 .. n
      BY <1>2, <2>3
    <2>5. PICK l \in 1 .. m : f[l] = g[k + 1]
      BY <2>4
    <2>6. l >= k + 1
      <3>1. CASE l <= k
        <4>1. l \in 1 .. k /\ l \in 1 .. n /\ l < k + 1
          BY <1>2, <2>4, <3>1
        <4>2. g[l] < g[k + 1] /\ f[l] = g[l]
          BY <2>1, <2>4, <4>1
        <4> QED  BY <2>4, <2>5, <4>1, <4>2
      <3> QED  BY <1>2, <3>1
    <2>7. f[k + 1] <= f[l]
      BY <2>1, <2>5, <2>6, Rises
    <2>8. g[k + 1] <= g[j]
      BY <2>2, <2>3, <2>4, Rises
    <2>9. f[k + 1] = g[k + 1]
      <3> DEFINE x == f[k + 1]
                 y == g[k + 1]
      <3>1. x \in Nat /\ y \in Nat
        BY <2>1, <2>4
      <3>2. x <= y /\ y <= x
        BY <2>2, <2>5, <2>7, <2>8
      <3> HIDE DEF x, y
      <3>3. x = y
        BY <3>1, <3>2
      <3> QED  BY <3>3 DEF x, y
    <2>10. \A i \in 1 .. k + 1 : i \in 1 .. k \/ i = k + 1
      BY <1>2
    <2>11. k + 1 \in 0 .. m /\ k + 1 <= n
      BY <1>2, <2>4
    <2>12. \A i \in 1 .. k + 1 : f[i] = g[i]
      BY <2>1, <2>9, <2>10
    <2> QED  BY <2>11, <2>12
  <1>3. 0 .. m \subseteq S
    <2> HIDE DEF S
    <2> QED  BY <1>1, <1>2, InductiveUpTo
  <1>4. m \in 0 .. m
    OBVIOUS
  <1>5. m <= n /\ \A i \in 1 .. m : f[i] = g[i]
    BY <1>3, <1>4
  <1>6. CASE m < n
    <2>1. m + 1 \in 1 .. n
      BY <1>6
    <2>2. PICK l \in 1 .. m : f[l] = g[m + 1]
      BY <2>1
    <2>3. l \in 1 .. n /\ l < m + 1 /\ g[l] = f[l]
      BY <1>5
    <2>4. g[l] < g[m + 1]
      BY <2>1, <2>3
    <2> QED  BY <2>1, <2>2, <2>3, <2>4
  <1> QED  BY <1>5, <1>6

\* r has the values of v that come first, and place says where.
FirstPlaces(v, r, place) ==
    /\ place \in [1 .. Len(r) -> 1 .. Len(v)]
    /\ \A i, j \in 1 .. Len(r) : i < j => place[i] < place[j]
    /\ \A i \in 1 .. Len(r) : r[i] = v[place[i]]
    /\ \A n \in 1 .. Len(v) :
         (\E i \in 1 .. Len(r) : place[i] = n) <=> \A m \in 1 .. n - 1 : v[m] # v[n]

\* Unique, given the places it keeps.
LEMMA UniqueIs ==
    ASSUME NEW X, NEW v \in Seq(X), NEW r \in Seq(X), NEW place, FirstPlaces(v, r, place)
    PROVE  Unique(v) = r
  <1> USE DEF FirstPlaces
  <1> DEFINE firsts == {n \in DOMAIN v : \A m \in 1 .. n - 1 : v[m] # v[n]}
             numbers == [n \in DOMAIN v |-> n]
             places == Keep(numbers, firsts)
  <1>1. /\ Len(v) \in Nat /\ DOMAIN v = 1 .. Len(v) /\ Len(r) \in Nat
        /\ numbers \in Seq(Nat) /\ Len(numbers) = Len(v) /\ \A n \in 1 .. Len(v) : numbers[n] = n
    OBVIOUS
  <1>2. \A n \in 1 .. Len(v) : n \in firsts <=> \A m \in 1 .. n - 1 : v[m] # v[n]
    BY <1>1
  <1> HIDE DEF numbers, firsts
  <1>3. places \in Seq(Nat) /\ \E q : IsPlaces(numbers, firsts, Len(v), places, q)
    BY <1>1, KeepPlaces
  <1>4. PICK q : IsPlaces(numbers, firsts, Len(v), places, q)
    BY <1>3
  <1> HIDE DEF places
  <1>5. Len(places) \in Nat /\ DOMAIN places = 1 .. Len(places)
    BY <1>3
  <1>6. /\ q \in [1 .. Len(places) -> 1 .. Len(v)]
        /\ \A i, j \in 1 .. Len(places) : i < j => q[i] < q[j]
        /\ \A i \in 1 .. Len(places) : places[i] = numbers[q[i]] /\ places[i] \in firsts
        /\ \A n \in 1 .. Len(v) : numbers[n] \in firsts => \E i \in 1 .. Len(places) : q[i] = n
    BY <1>1, <1>4 DEF IsPlaces
  <1>7. \A i \in 1 .. Len(places) : places[i] = q[i] /\ q[i] \in 1 .. Len(v)
    BY <1>1, <1>6
  <1>8. \A n \in 1 .. Len(v) : (\E i \in 1 .. Len(places) : q[i] = n) <=> n \in firsts
    <2> TAKE n \in 1 .. Len(v)
    <2>1. numbers[n] = n
      BY <1>1
    <2>2. ASSUME NEW i \in 1 .. Len(places), q[i] = n
          PROVE  n \in firsts
      BY <1>6, <1>7, <2>2
    <2> QED  BY <1>6, <2>1, <2>2
  <1>9. \A n \in 1 .. Len(v) : (\E i \in 1 .. Len(r) : place[i] = n) <=> n \in firsts
    BY <1>2
  <1>10. Len(places) = Len(r) /\ \A i \in 1 .. Len(places) : q[i] = place[i]
    <2>1. \A i \in 1 .. Len(places) : \E j \in 1 .. Len(r) : q[i] = place[j]
      BY <1>7, <1>8, <1>9
    <2>2. \A j \in 1 .. Len(r) : \E i \in 1 .. Len(places) : q[i] = place[j]
      BY <1>8, <1>9
    <2>3. q \in [1 .. Len(places) -> Nat] /\ place \in [1 .. Len(r) -> Nat]
      <3>1. \A n \in 1 .. Len(v) : n \in Nat
        OBVIOUS
      <3> QED  BY <1>6, <3>1
    <2>4. \A i, j \in 1 .. Len(r) : i < j => place[i] < place[j]
      OBVIOUS
    <2>5. \A i, j \in 1 .. Len(places) : i < j => q[i] < q[j]
      BY <1>6
    <2> DEFINE a == Len(places)
               b == Len(r)
    <2>6. a \in Nat /\ b \in Nat
      BY <1>1, <1>5
    <2> HIDE DEF a, b
    <2>7. Increases(a, q) /\ Increases(b, place)
      BY <2>3, <2>4, <2>5 DEF Increases, a, b
    <2>8. SameValues(a, q, b, place)
      BY <2>1, <2>2 DEF SameValues, a, b
    <2>9. a = b /\ \A i \in 1 .. a : q[i] = place[i]
      BY ONLY <2>6, <2>7, <2>8, IncreasingUnique
    <2> QED  BY <2>9 DEF a, b
  <1>11. Unique(v) = [i \in DOMAIN places |-> v[places[i]]]
    BY DEF Unique, places, numbers, firsts
  <1>12. \A i \in 1 .. Len(r) : v[places[i]] = r[i]
    BY <1>7, <1>10
  <1>13. r = [i \in 1 .. Len(r) |-> r[i]]
    BY <1>1
  <1> QED  BY <1>5, <1>10, <1>11, <1>12, <1>13

LEMMA UniqueSame ==
    ASSUME NEW X, NEW v \in Seq(X), NoneTwice(v)
    PROVE  Unique(v) = v
  <1> DEFINE place == [i \in 1 .. Len(v) |-> i]
  <1>1. /\ place \in [1 .. Len(v) -> 1 .. Len(v)]
        /\ \A i \in 1 .. Len(v) : place[i] = i
    OBVIOUS
  <1> HIDE DEF place
  <1>2. \A i, j \in 1 .. Len(v) : i < j => place[i] < place[j]
    BY <1>1
  <1>3. \A i \in 1 .. Len(v) : v[i] = v[place[i]]
    BY <1>1
  <1>4. \A n \in 1 .. Len(v) : \A m \in 1 .. n - 1 : v[m] # v[n]
    <2> SUFFICES ASSUME NEW n \in 1 .. Len(v), NEW m \in 1 .. n - 1, v[m] = v[n] PROVE FALSE
      OBVIOUS
    <2>1. m \in 1 .. Len(v) /\ m # n
      OBVIOUS
    <2> QED  BY <2>1 DEF NoneTwice
  <1>5. \A n \in 1 .. Len(v) :
          (\E i \in 1 .. Len(v) : place[i] = n) <=> \A m \in 1 .. n - 1 : v[m] # v[n]
    BY <1>1, <1>4
  <1>6. FirstPlaces(v, v, place)
    BY <1>1, <1>2, <1>3, <1>5 DEF FirstPlaces
  <1> QED  BY <1>6, UniqueIs

\* LastOf and FirstOf, by position.
AtMost(l, n) == IF l <= n THEN l ELSE n

LEMMA LastOfAt ==
    ASSUME NEW X, NEW s \in Seq(X), NEW l \in Nat
    PROVE  /\ LastOf(s, l) \in Seq(X) /\ Len(LastOf(s, l)) = AtMost(l, Len(s))
           /\ AtMost(l, Len(s)) \in Nat /\ AtMost(l, Len(s)) <= Len(s)
           /\ \A i \in 1 .. AtMost(l, Len(s)) : LastOf(s, l)[i] = s[(Len(s) - AtMost(l, Len(s))) + i]
  <1> DEFINE m == AtMost(l, Len(s))
             r == SubSeq(s, Len(s) - m + 1, Len(s))
  <1>1. Len(s) \in Nat
    OBVIOUS
  <1>2. m \in Nat /\ m <= Len(s)
    BY <1>1 DEF AtMost
  <1>3. LastOf(s, l) = r
    BY <1>1, MinIs DEF LastOf, AtMost
  <1> HIDE DEF m
  <1>4. r \in Seq(X) /\ Len(r) = m /\ \A i \in 1 .. m : r[i] = s[(Len(s) - m) + i]
    BY ONLY <1>1, <1>2, s \in Seq(X)
  <1> HIDE DEF r
  <1> QED  BY <1>2, <1>3, <1>4 DEF m

LEMMA FirstOfAt ==
    ASSUME NEW X, NEW s \in Seq(X), NEW l \in Nat
    PROVE  /\ FirstOf(s, l) \in Seq(X) /\ Len(FirstOf(s, l)) = AtMost(l, Len(s))
           /\ AtMost(l, Len(s)) \in Nat /\ AtMost(l, Len(s)) <= Len(s)
           /\ \A i \in 1 .. AtMost(l, Len(s)) : FirstOf(s, l)[i] = s[i]
  <1> DEFINE m == AtMost(l, Len(s))
             r == SubSeq(s, 1, m)
  <1>1. Len(s) \in Nat
    OBVIOUS
  <1>2. m \in Nat /\ m <= Len(s)
    BY <1>1 DEF AtMost
  <1>3. FirstOf(s, l) = r
    BY <1>1, MinIs DEF FirstOf, AtMost
  <1> HIDE DEF m
  <1>4. r \in Seq(X) /\ Len(r) = m /\ \A i \in 1 .. m : r[i] = s[i]
    BY <1>1, <1>2
  <1> HIDE DEF r
  <1> QED  BY <1>2, <1>3, <1>4 DEF m

LEMMA ReverseAt ==
    ASSUME NEW X, NEW s \in Seq(X)
    PROVE  /\ Reverse(s) \in Seq(X) /\ Len(Reverse(s)) = Len(s)
           /\ \A i \in 1 .. Len(s) : Reverse(s)[i] = s[Len(s) - i + 1]
  BY DEF Reverse

\* A scan from the newest value takes the last ones, when no value comes twice.
LEMMA NewestAre ==
    ASSUME NEW X, NEW s \in Seq(X), NEW l \in Nat, NoneTwice(s)
    PROVE  NewestUnique(s, l) = LastOf(s, l)
  <1> DEFINE r == Reverse(s)
             n == Len(s)
             m == AtMost(l, n)
             f == FirstOf(r, l)
             g == LastOf(s, l)
  <1>1. n \in Nat /\ r \in Seq(X) /\ Len(r) = n /\ \A i \in 1 .. n : r[i] = s[n - i + 1]
    BY ReverseAt
  <1> HIDE DEF r, n
  <1>2. NoneTwice(r)
    <2> SUFFICES ASSUME NEW i \in 1 .. n, NEW j \in 1 .. n, r[i] = r[j] PROVE i = j
      BY <1>1 DEF NoneTwice
    <2>1. n - i + 1 \in 1 .. n /\ n - j + 1 \in 1 .. n
      BY <1>1
    <2>2. n - i + 1 = n - j + 1
      BY <1>1, <2>1 DEF NoneTwice, n
    <2> QED  BY <1>1, <2>2
  <1>3. Unique(r) = r
    BY <1>1, <1>2, UniqueSame
  <1>4. f \in Seq(X) /\ m \in Nat /\ m <= n /\ Len(f) = m /\ \A i \in 1 .. m : f[i] = r[i]
    BY <1>1, FirstOfAt
  <1>5. g \in Seq(X) /\ Len(g) = m /\ \A i \in 1 .. m : g[i] = s[(n - m) + i]
    BY LastOfAt DEF n
  <1> HIDE DEF f, g, m
  <1>6. Reverse(f) \in Seq(X) /\ Len(Reverse(f)) = m /\ \A i \in 1 .. m : Reverse(f)[i] = f[m - i + 1]
    BY <1>4, ReverseAt
  <1>7. ASSUME NEW i \in 1 .. m
        PROVE  Reverse(f)[i] = g[i]
    <2>1. m - i + 1 \in 1 .. m /\ m - i + 1 \in 1 .. n /\ n - (m - i + 1) + 1 = (n - m) + i
      BY <1>1, <1>4
    <2>2. Reverse(f)[i] = f[m - i + 1]
      BY <1>6
    <2>3. f[m - i + 1] = r[m - i + 1]
      BY <1>4, <2>1
    <2>4. r[m - i + 1] = s[n - (m - i + 1) + 1]
      BY <1>1, <2>1
    <2>5. g[i] = s[(n - m) + i]
      BY <1>5
    <2> QED  BY <2>1, <2>2, <2>3, <2>4, <2>5
  <1>8. Reverse(f) = g
    BY <1>5, <1>6, <1>7
  <1> QED  BY <1>3, <1>8 DEF NewestUnique, r, f, g

LEMMA JoinAt ==
    ASSUME NEW X, NEW s \in Seq(X), NEW t \in Seq(X)
    PROVE  /\ s \o t \in Seq(X) /\ Len(s \o t) = Len(s) + Len(t)
           /\ Len(s) \in Nat /\ Len(t) \in Nat
           /\ \A i \in 1 .. Len(s) : (s \o t)[i] = s[i]
           /\ \A i \in 1 .. Len(t) : (s \o t)[Len(s) + i] = t[i]
  <1>1. s \o t \in Seq(X) /\ Len(s \o t) = Len(s) + Len(t) /\ Len(s) \in Nat /\ Len(t) \in Nat
    OBVIOUS
  <1>2. \A i \in 1 .. Len(s) : (s \o t)[i] = s[i]
    OBVIOUS
  <1>3. \A i \in 1 .. Len(t) : (s \o t)[Len(s) + i] = t[i]
    OBVIOUS
  <1> QED  BY <1>1, <1>2, <1>3

IsJoin(all, s, t) == all = s \o t

\* `all` begins with a and ends with b, and between them they leave nothing out: a covers
\* what comes before b.
Overlapping(X, all, a, b) ==
    \E rest, before, between \in Seq(X) :
        IsJoin(all, a, rest) /\ IsJoin(all, before, b) /\ IsJoin(a, before, between)

\* The last values of two such parts, one after the other.
LEMMA PartsAt ==
    ASSUME NEW X, NEW all \in Seq(X), NEW a \in Seq(X), NEW b \in Seq(X), Overlapping(X, all, a, b)
    PROVE  /\ Len(all) \in Nat /\ Len(a) \in Nat /\ Len(b) \in Nat
           /\ Len(a) <= Len(all) /\ Len(b) <= Len(all) /\ Len(all) - Len(b) <= Len(a)
           /\ \A i \in 1 .. Len(a) : a[i] = all[i]
           /\ \A i \in 1 .. Len(b) : b[i] = all[(Len(all) - Len(b)) + i]
  <1>1. PICK rest \in Seq(X), before \in Seq(X), between \in Seq(X) :
           all = a \o rest /\ all = before \o b /\ a = before \o between
    BY DEF Overlapping, IsJoin
  <1>2. Len(a \o rest) = Len(a) + Len(rest) /\ \A i \in 1 .. Len(a) : (a \o rest)[i] = a[i]
    BY JoinAt
  <1>3. Len(before \o b) = Len(before) + Len(b)
        /\ \A i \in 1 .. Len(b) : (before \o b)[Len(before) + i] = b[i]
    BY JoinAt
  <1>4. Len(before \o between) = Len(before) + Len(between)
    BY JoinAt
  <1>5. /\ Len(all) \in Nat /\ Len(a) \in Nat /\ Len(b) \in Nat
        /\ Len(rest) \in Nat /\ Len(before) \in Nat /\ Len(between) \in Nat
    OBVIOUS
  <1>6. /\ Len(all) = Len(a) + Len(rest) /\ Len(all) = Len(before) + Len(b)
        /\ Len(a) = Len(before) + Len(between)
    BY <1>1, <1>2, <1>3, <1>4
  <1>7. Len(all) - Len(b) = Len(before) /\ Len(a) <= Len(all) /\ Len(b) <= Len(all)
        /\ Len(all) - Len(b) <= Len(a)
    <2> DEFINE n == Len(all)
               na == Len(a)
               nb == Len(b)
               nr == Len(rest)
               nf == Len(before)
               nt == Len(between)
    <2>1. n \in Nat /\ na \in Nat /\ nb \in Nat /\ nr \in Nat /\ nf \in Nat /\ nt \in Nat
      BY <1>5
    <2>2. n = na + nr /\ n = nf + nb /\ na = nf + nt
      BY <1>6
    <2> HIDE DEF n, na, nb, nr, nf, nt
    <2>3. n - nb = nf /\ na <= n /\ nb <= n /\ n - nb <= na
      BY <2>1, <2>2
    <2> QED  BY <2>3 DEF n, na, nb, nf
  <1>8. /\ \A i \in 1 .. Len(a) : a[i] = all[i]
        /\ \A i \in 1 .. Len(b) : b[i] = all[Len(before) + i]
    BY <1>1, <1>2, <1>3
  <1> QED  BY <1>5, <1>7, <1>8

\* The last values of a sequence that ends as another one does.
LEMMA LastSame ==
    ASSUME NEW X, NEW s \in Seq(X), NEW t \in Seq(X), NEW l \in Nat, NEW m \in Nat,
           m <= Len(s), m <= Len(t), AtMost(l, Len(s)) = m, AtMost(l, Len(t)) = m,
           \A i \in 1 .. m : s[(Len(s) - m) + i] = t[(Len(t) - m) + i]
    PROVE  LastOf(s, l) = LastOf(t, l)
  <1> DEFINE u == LastOf(s, l)
             v == LastOf(t, l)
  <1>1. u \in Seq(X) /\ Len(u) = m /\ \A i \in 1 .. m : u[i] = s[(Len(s) - m) + i]
    <2>1. /\ LastOf(s, l) \in Seq(X) /\ Len(LastOf(s, l)) = AtMost(l, Len(s))
          /\ \A i \in 1 .. AtMost(l, Len(s)) : LastOf(s, l)[i] = s[(Len(s) - AtMost(l, Len(s))) + i]
      BY LastOfAt
    <2> QED  BY <2>1
  <1>2. v \in Seq(X) /\ Len(v) = m /\ \A i \in 1 .. m : v[i] = t[(Len(t) - m) + i]
    <2>1. /\ LastOf(t, l) \in Seq(X) /\ Len(LastOf(t, l)) = AtMost(l, Len(t))
          /\ \A i \in 1 .. AtMost(l, Len(t)) : LastOf(t, l)[i] = t[(Len(t) - AtMost(l, Len(t))) + i]
      BY LastOfAt
    <2> QED  BY <2>1
  <1>3. \A i \in 1 .. m : u[i] = v[i]
    BY <1>1, <1>2
  <1> HIDE DEF u, v
  <1>4. u = v
    BY <1>1, <1>2, <1>3
  <1> QED  BY <1>4 DEF u, v

\* Merging the last values of two such parts gives the last values of the whole, when no
\* value comes twice.
LEMMA MergeCovers ==
    ASSUME NEW X, NEW all \in Seq(X), NoneTwice(all), NEW A \in Seq(X), NEW B \in Seq(X),
           Overlapping(X, all, A, B), NEW l \in Nat
    PROVE  MergeValues(LastOf(A, l), LastOf(B, l), l) = LastOf(all, l)
  <1> DEFINE N == Len(all)
             a == Len(A)
             b == Len(B)
             p == AtMost(l, a)
             q == AtMost(l, b)
             x == LastOf(A, l)
             y == LastOf(B, l)
             v == x \o y
             e == N - q
             d == IF a > e THEN a - e ELSE 0
             n == (p + q) - d
             ix(i) == IF i <= p THEN (a - p) + i ELSE e + (i - p)
             place == [i \in 1 .. n |-> IF i <= p THEN i ELSE i + d]
             r == [i \in 1 .. n |-> v[place[i]]]
  <1>1. /\ N \in Nat /\ a \in Nat /\ b \in Nat /\ a <= N /\ b <= N /\ N - b <= a
        /\ \A i \in 1 .. a : A[i] = all[i]
        /\ \A i \in 1 .. b : B[i] = all[(N - b) + i]
    BY PartsAt
  <1>2. /\ x \in Seq(X) /\ Len(x) = p /\ p \in Nat /\ p <= a
        /\ \A i \in 1 .. p : x[i] = A[(a - p) + i]
    BY LastOfAt
  <1>3. /\ y \in Seq(X) /\ Len(y) = q /\ q \in Nat /\ q <= b
        /\ \A i \in 1 .. q : y[i] = B[(b - q) + i]
    BY LastOfAt
  <1>4. (p = a \/ (p = l /\ l <= a)) /\ (q = b \/ (q = l /\ l <= b)) /\ q <= l
    BY <1>1 DEF AtMost
  <1> HIDE DEF N, a, b, p, q, x, y
  <1>5. /\ e \in Nat /\ e + q = N /\ e >= a - p /\ (e <= a \/ q = l)
        /\ d \in Nat /\ d <= q /\ n \in Nat
        /\ (a > e => d = a - e) /\ (~(a > e) => d = 0)
    BY <1>1, <1>2, <1>3, <1>4
  <1>6. \A i \in 1 .. p : (a - p) + i \in 1 .. a /\ x[i] = all[(a - p) + i]
    BY <1>1, <1>2
  <1>7. \A i \in 1 .. q : e + i \in 1 .. N /\ y[i] = all[e + i]
    <2> TAKE i \in 1 .. q
    <2>1. (b - q) + i \in 1 .. b /\ (N - b) + ((b - q) + i) = e + i
      BY <1>1, <1>3
    <2>2. y[i] = B[(b - q) + i] /\ B[(b - q) + i] = all[(N - b) + ((b - q) + i)]
      BY <1>1, <1>3, <2>1
    <2>3. e + i \in 1 .. N
      BY <1>3, <1>5
    <2>4. y[i] = all[e + i]
      BY ONLY <2>1, <2>2
    <2> QED  BY ONLY <2>3, <2>4
  <1>8. /\ v \in Seq(X) /\ Len(v) = p + q
        /\ \A i \in 1 .. p : v[i] = x[i]
        /\ \A i \in 1 .. q : v[p + i] = y[i]
    <2>1. /\ x \o y \in Seq(X) /\ Len(x \o y) = Len(x) + Len(y)
          /\ \A i \in 1 .. Len(x) : (x \o y)[i] = x[i]
          /\ \A i \in 1 .. Len(y) : (x \o y)[Len(x) + i] = y[i]
      <3>1. x \in Seq(X) /\ y \in Seq(X)
        BY <1>2, <1>3
      <3> QED  BY ONLY <3>1, JoinAt
    <2>2. Len(x) = p /\ Len(y) = q
      BY <1>2, <1>3
    <2> QED  BY <2>1, <2>2
  <1> HIDE DEF v, e, d
  <1>9. \A i \in 1 .. p + q : ix(i) \in 1 .. N /\ v[i] = all[ix(i)]
    <2> TAKE i \in 1 .. p + q
    <2>1. CASE i <= p
      <3>1. i \in 1 .. p
        BY <1>2, <2>1
      <3>2. ix(i) = (a - p) + i /\ ix(i) \in 1 .. N
        BY <1>1, <1>6, <2>1, <3>1
      <3> QED  BY <1>6, <1>8, <3>1, <3>2
    <2>2. CASE i > p
      <3>1. i - p \in 1 .. q /\ p + (i - p) = i
        BY <1>2, <1>3, <2>2
      <3>2. ix(i) = e + (i - p)
        BY <1>2, <2>2
      <3>3. v[i] = y[i - p]
        BY <1>8, <3>1
      <3> QED  BY <1>7, <3>1, <3>2, <3>3
    <2> QED  BY <1>2, <1>3, <2>1, <2>2
  <1>10. \A i, j \in 1 .. p + q : v[i] = v[j] <=> ix(i) = ix(j)
    <2> HIDE DEF ix
    <2> QED  BY <1>9 DEF NoneTwice, N
  <1>11. place \in [1 .. n -> 1 .. p + q] /\ \A i, j \in 1 .. n : i < j => place[i] < place[j]
    <2>1. \A i \in 1 .. n : (IF i <= p THEN i ELSE i + d) \in 1 .. p + q
      BY <1>2, <1>3, <1>5
    <2>2. place \in [1 .. n -> 1 .. p + q]
      BY <2>1
    <2>3. \A i, j \in 1 .. n : i < j => place[i] < place[j]
      BY <1>2, <1>3, <1>5
    <2> QED  BY <2>2, <2>3
  <1>12. ASSUME NEW k \in 1 .. p + q
         PROVE  (\E i \in 1 .. n : place[i] = k) <=> \A m \in 1 .. k - 1 : v[m] # v[k]
    <2>1. CASE k <= p
      <3>1. k \in 1 .. n /\ place[k] = k
        BY <1>2, <1>3, <1>5, <2>1
      <3>2. ASSUME NEW m \in 1 .. k - 1 PROVE v[m] # v[k]
        <4>1. m \in 1 .. p + q /\ ix(m) # ix(k)
          BY <1>1, <1>2, <1>3, <2>1
        <4> HIDE DEF ix
        <4> QED  BY <1>10, <4>1
      <3> QED  BY <3>1, <3>2
    <2>2. CASE k > p /\ k <= p + d
      <3> DEFINE m == (e + (k - p)) - (a - p)
      <3>1. d = a - e /\ a > e
        BY <1>2, <1>5, <2>2
      <3>2. m \in 1 .. p
        <4>1. m \in Int /\ m = ((e + k) - a)
          BY <1>1, <1>2, <1>3, <1>5
        <4>2. m >= 1
          <5>1. k - p >= 1 /\ k - p \in Int /\ e - (a - p) >= 0 /\ e - (a - p) \in Int
            BY <1>1, <1>2, <1>3, <1>5, <2>2
          <5>2. m = (e - (a - p)) + (k - p)
            BY <1>1, <1>2, <1>3, <1>5
          <5> HIDE DEF m
          <5> QED  BY <5>1, <5>2
        <4>3. (e + k) - a <= p
          BY <1>1, <1>2, <1>3, <1>5, <2>2, <3>1
        <4> QED  BY <1>2, <4>1, <4>2, <4>3
      <3>3. m \in 1 .. k - 1 /\ m \in 1 .. p + q
        BY <1>2, <1>3, <2>2, <3>2
      <3>4. ix(k) = e + (k - p) /\ ix(m) = (a - p) + m
        BY <1>2, <2>2, <3>2
      <3>5. ix(m) = ix(k)
        BY <1>1, <1>2, <1>5, <3>4
      <3> HIDE DEF ix, m
      <3>6. v[m] = v[k]
        BY <1>10, <3>3, <3>5
      <3>7. \A i \in 1 .. n : place[i] # k
        BY <1>2, <1>3, <1>5, <2>2
      <3> QED  BY <3>3, <3>6, <3>7
    <2>3. CASE k > p + d
      <3>1. k - d \in 1 .. n /\ place[k - d] = k
        <4>1. k - d \in 1 .. n /\ k - d > p
          BY <1>2, <1>3, <1>5, <2>3
        <4> QED  BY <1>2, <1>5, <4>1
      <3>2. ASSUME NEW m \in 1 .. k - 1 PROVE v[m] # v[k]
        <4>1. m \in 1 .. p + q /\ ix(k) = e + (k - p)
          BY <1>2, <1>3, <1>5, <2>3
        <4>2. ix(k) > a
          BY <1>1, <1>2, <1>5, <2>3, <4>1
        <4>3. CASE m <= p
          <5>1. ix(m) <= a
            BY <1>1, <1>2, <4>3
          <5>2. ix(m) \in Nat /\ ix(k) \in Nat
            BY <1>9, <4>1
          <5> HIDE DEF ix
          <5>3. ix(m) # ix(k)
            BY <1>1, <4>2, <5>1, <5>2
          <5> QED  BY <1>10, <4>1, <5>3
        <4>4. CASE m > p
          <5>1. ix(m) # ix(k)
            BY <1>2, <1>5, <4>1, <4>4
          <5> HIDE DEF ix
          <5> QED  BY <1>10, <4>1, <5>1
        <4> QED  BY <1>2, <4>3, <4>4
      <3> QED  BY <3>1, <3>2
    <2> QED  BY <1>2, <1>5, <2>1, <2>2, <2>3
  <1>13. r \in Seq(X) /\ Len(r) = n /\ \A i \in 1 .. n : r[i] = v[place[i]]
    <2>1. \A i \in 1 .. n : v[place[i]] \in X
      BY <1>8, <1>11
    <2> HIDE DEF place
    <2>2. r \in [1 .. n -> X] /\ \A i \in 1 .. n : r[i] = v[place[i]]
      BY <2>1
    <2> HIDE DEF r
    <2>3. r \in Seq(X) /\ Len(r) = n
      BY <1>5, <2>2, FunctionIsSeq
    <2> QED  BY ONLY <2>2, <2>3
  <1>14. \A i \in 1 .. n : place[i] = IF i <= p THEN i ELSE i + d
    OBVIOUS
  <1> HIDE DEF r, place, n
  <1>15. Unique(v) = r
    <2>1. place \in [1 .. Len(r) -> 1 .. Len(v)]
      BY <1>8, <1>11, <1>13
    <2>2. \A i, j \in 1 .. Len(r) : i < j => place[i] < place[j]
      BY <1>11, <1>13
    <2>3. \A i \in 1 .. Len(r) : r[i] = v[place[i]]
      BY <1>13
    <2>4. \A k \in 1 .. Len(v) :
            (\E i \in 1 .. Len(r) : place[i] = k) <=> \A m \in 1 .. k - 1 : v[m] # v[k]
      BY <1>8, <1>12, <1>13
    <2>5. v \in Seq(X) /\ r \in Seq(X)
      BY <1>8, <1>13
    <2>6. FirstPlaces(v, r, place)
      BY <2>1, <2>2, <2>3, <2>4 DEF FirstPlaces
    <2> QED  BY <2>5, <2>6, UniqueIs
  <1>16. n = (p + q) - d /\ n \in Nat
    BY <1>5 DEF n
  <1>17. LastOf(r, l) = LastOf(all, l)
    <2>1. CASE e <= a
      <3>1. d = a - e
        BY <1>1, <1>5, <2>1
      <3>2. n <= N /\ (a - p) = N - n
        <4>1. N \in Nat /\ a \in Nat /\ p \in Nat /\ q \in Nat /\ e \in Nat /\ p <= a
          BY <1>1, <1>2, <1>3, <1>5
        <4>2. e + q = N /\ e >= a - p /\ n = (p + q) - d /\ d = a - e
          BY <1>5, <1>16, <3>1
        <4> QED  BY ONLY <4>1, <4>2
      <3>3. ASSUME NEW i \in 1 .. n PROVE r[i] = all[(N - n) + i]
        <4>1. place[i] \in 1 .. p + q /\ r[i] = all[ix(place[i])]
          BY <1>9, <1>11, <1>13
        <4>2. ix(place[i]) = (a - p) + i
          <5>1. CASE i <= p
            BY <1>14, <5>1
          <5>2. CASE i > p
            <6>1. place[i] = i + d
              BY <1>2, <1>14, <5>2
            <6> QED  BY <1>1, <1>2, <1>5, <3>1, <5>2, <6>1
          <5> QED  BY <1>2, <5>1, <5>2
        <4> QED  BY <3>2, <4>1, <4>2
      <3> DEFINE m == AtMost(l, N)
      <3>4. m \in Nat /\ m <= N /\ m <= n /\ AtMost(l, n) = m
        <4>1. /\ N \in Nat /\ a \in Nat /\ p \in Nat /\ n \in Nat
              /\ (p = a \/ (p = l /\ l <= a))
              /\ n <= N /\ a <= N /\ (a - p) = N - n
          BY <1>1, <1>2, <1>4, <1>16, <3>2
        <4>2. IF l <= n THEN l <= N ELSE n = N
          BY ONLY <4>1, l \in Nat
        <4> QED  BY ONLY <4>1, <4>2, l \in Nat DEF AtMost, m
      <3> HIDE DEF m
      <3>5. ASSUME NEW i \in 1 .. m
            PROVE  r[(n - m) + i] = all[(N - m) + i]
        <4>1. (n - m) + i \in 1 .. n /\ (N - n) + ((n - m) + i) = (N - m) + i
          BY <1>1, <1>16, <3>4
        <4> QED  BY <3>3, <4>1
      <3>6. N = Len(all) /\ AtMost(l, N) = m
        BY DEF N, m
      <3>7. Len(all) = N /\ AtMost(l, Len(all)) = m /\ Len(r) = n /\ AtMost(l, Len(r)) = m
        BY <1>13, <3>4, <3>6
      <3>8. /\ m \in Nat /\ m <= Len(r) /\ m <= Len(all)
            /\ \A i \in 1 .. m : r[(Len(r) - m) + i] = all[(Len(all) - m) + i]
        BY <3>4, <3>5, <3>7
      <3> QED  BY <1>13, <3>7, <3>8, LastSame
    <2>2. CASE a < e
      <3>1. d = 0 /\ q = l /\ n = p + l /\ l <= N
        BY <1>1, <1>2, <1>3, <1>5, <1>16, <2>2
      <3>2. ASSUME NEW i \in 1 .. l
            PROVE  r[(n - l) + i] = all[(N - l) + i]
        <4>1. (n - l) + i = p + i /\ p + i \in 1 .. n /\ ~(p + i <= p)
          BY <1>2, <1>16, <3>1
        <4>2. place[p + i] = p + i
          BY <1>2, <1>14, <3>1, <4>1
        <4>3. r[p + i] = y[i] /\ y[i] = all[e + i]
          BY <1>7, <1>8, <1>13, <3>1, <4>1, <4>2
        <4>4. e = N - l
          BY <3>1 DEF e
        <4> QED  BY <4>1, <4>3, <4>4
      <3>3. AtMost(l, n) = l /\ AtMost(l, N) = l /\ l <= n
        BY <1>1, <1>2, <3>1 DEF AtMost
      <3>4. Len(all) = N /\ AtMost(l, Len(all)) = l /\ Len(r) = n /\ AtMost(l, Len(r)) = l
        BY <1>13, <3>3 DEF N
      <3>5. /\ l <= Len(r) /\ l <= Len(all)
            /\ \A i \in 1 .. l : r[(Len(r) - l) + i] = all[(Len(all) - l) + i]
        BY <3>1, <3>2, <3>3, <3>4
      <3> QED  BY <1>13, <3>4, <3>5, LastSame
    <2> QED  BY <1>1, <1>5, <2>1, <2>2
  <1> QED  BY <1>15, <1>17 DEF MergeValues, v, x, y

AppendsTo(r, s, t, x) == Append(r, x) = s \o Append(t, x)

LEMMA AppendJoin ==
    ASSUME NEW X, NEW s \in Seq(X), NEW t \in Seq(X), NEW x \in X
    PROVE  AppendsTo(s \o t, s, t, x)
  <1> DEFINE u == Append(t, x)
             c == s \o t
             v == Append(c, x)
             w == s \o u
             a == Len(s)
             b == Len(t)
  <1>1. /\ c \in Seq(X) /\ Len(c) = a + b /\ a \in Nat /\ b \in Nat
        /\ \A i \in 1 .. a : c[i] = s[i]
        /\ \A i \in 1 .. b : c[a + i] = t[i]
    BY JoinAt
  <1>2. u \in Seq(X) /\ Len(u) = b + 1 /\ u[b + 1] = x /\ \A i \in 1 .. b : u[i] = t[i]
    OBVIOUS
  <1> HIDE DEF c, u
  <1>3. v \in Seq(X) /\ Len(v) = Len(c) + 1 /\ v[Len(c) + 1] = x /\ \A i \in 1 .. Len(c) : v[i] = c[i]
    <2>1. c \in Seq(X) /\ x \in X
      BY <1>1
    <2> QED  BY ONLY <2>1
  <1>4. /\ w \in Seq(X) /\ Len(w) = a + Len(u)
        /\ \A i \in 1 .. a : w[i] = s[i]
        /\ \A i \in 1 .. Len(u) : w[a + i] = u[i]
    <2>1. s \in Seq(X) /\ u \in Seq(X)
      BY <1>2
    <2> QED  BY ONLY <2>1, JoinAt
  <1> HIDE DEF v, w, a, b
  <1>5. Len(v) = (a + b) + 1 /\ Len(w) = (a + b) + 1
    BY <1>1, <1>2, <1>3, <1>4
  <1>6. \A i \in 1 .. (a + b) + 1 : v[i] = w[i]
    <2> TAKE i \in 1 .. (a + b) + 1
    <2>1. CASE i <= a
      <3>1. i \in 1 .. a /\ i \in 1 .. Len(c)
        BY <1>1, <2>1
      <3> QED  BY <1>1, <1>3, <1>4, <3>1
    <2>2. CASE i > a /\ i <= a + b
      <3>1. i - a \in 1 .. b /\ a + (i - a) = i /\ i \in 1 .. Len(c) /\ i - a \in 1 .. Len(u)
        BY <1>1, <1>2, <2>2
      <3>2. v[i] = t[i - a] /\ w[i] = u[i - a] /\ u[i - a] = t[i - a]
        BY <1>1, <1>2, <1>3, <1>4, <3>1
      <3> QED  BY <3>2
    <2>3. CASE i > a + b
      <3>1. i = Len(c) + 1 /\ i = a + (b + 1) /\ b + 1 \in 1 .. Len(u)
        BY <1>1, <1>2, <2>3
      <3>2. v[i] = x /\ w[i] = u[b + 1]
        BY <1>3, <1>4, <3>1
      <3> QED  BY <1>2, <3>2
    <2> QED  BY <1>1, <2>1, <2>2, <2>3
  <1>7. v = w
    BY <1>1, <1>3, <1>4, <1>5, <1>6
  <1> QED  BY <1>7 DEF AppendsTo, v, w, c, u

\* Keep takes of two sequences, one after the other, what it takes of each.
LEMMA KeepJoin ==
    ASSUME NEW X, NEW s \in Seq(X), NEW t \in Seq(X), NEW S, NEW A, NEW B,
           \A i \in 1 .. Len(s) : s[i] \in S <=> s[i] \in A,
           \A i \in 1 .. Len(t) : t[i] \in S <=> t[i] \in B
    PROVE  Keep(s \o t, S) = Keep(s, A) \o Keep(t, B)
  <1> DEFINE all == s \o t
             a == Len(s)
             b == Len(t)
             N == Len(all)
  <1>1. /\ all \in Seq(X) /\ N = a + b /\ a \in Nat /\ b \in Nat
        /\ \A i \in 1 .. a : all[i] = s[i]
        /\ \A i \in 1 .. b : all[a + i] = t[i]
    BY JoinAt
  <1> HIDE DEF all
  <1>2. PICK f : Keeps(X, all, S, f)
    BY <1>1, KeepRecursion
  <1>3. PICK g : Keeps(X, s, A, g)
    BY KeepRecursion
  <1>4. PICK h : Keeps(X, t, B, h)
    BY KeepRecursion
  <1>5. /\ Keep(all, S) = f[N] /\ f[0] = <<>>
        /\ \A n \in 1 .. N : f[n] = IF all[n] \in S THEN Append(f[n - 1], all[n]) ELSE f[n - 1]
    BY <1>2 DEF Keeps
  <1>6. /\ Keep(s, A) = g[a] /\ g[0] = <<>> /\ g \in [0 .. a -> Seq(X)]
        /\ \A n \in 1 .. a : g[n] = IF s[n] \in A THEN Append(g[n - 1], s[n]) ELSE g[n - 1]
    BY <1>3 DEF Keeps
  <1>7. /\ Keep(t, B) = h[b] /\ h[0] = <<>> /\ h \in [0 .. b -> Seq(X)]
        /\ \A n \in 1 .. b : h[n] = IF t[n] \in B THEN Append(h[n - 1], t[n]) ELSE h[n - 1]
    BY <1>4 DEF Keeps
  <1>8. /\ \A i \in 1 .. a : s[i] \in S <=> s[i] \in A
        /\ \A i \in 1 .. b : t[i] \in S <=> t[i] \in B
    OBVIOUS
  <1> HIDE DEF a, b, N
  <1>9. f[a] = g[a]
    <2> DEFINE T == {n \in 0 .. a : f[n] = g[n]}
    <2>1. 0 \in T
      BY <1>1, <1>5, <1>6
    <2>2. ASSUME NEW n \in 0 .. a, n < a, n \in T
          PROVE  n + 1 \in T
      <3>1. n + 1 \in 1 .. a /\ n + 1 \in 1 .. N /\ (n + 1) - 1 = n
        BY <1>1, <2>2
      <3>2. f[n] = g[n] /\ all[n + 1] = s[n + 1] /\ (s[n + 1] \in S <=> s[n + 1] \in A)
        BY <1>1, <1>8, <2>2, <3>1
      <3>3. f[n + 1] = IF all[n + 1] \in S THEN Append(f[n], all[n + 1]) ELSE f[n]
        BY <1>5, <3>1
      <3>4. g[n + 1] = IF s[n + 1] \in A THEN Append(g[n], s[n + 1]) ELSE g[n]
        BY <1>6, <3>1
      <3>5. f[n + 1] = g[n + 1]
        BY <3>2, <3>3, <3>4
      <3> QED  BY <3>1, <3>5
    <2>3. 0 .. a \subseteq T
      <3> HIDE DEF T
      <3> QED  BY <1>1, <2>1, <2>2, InductiveUpTo
    <2> QED  BY <1>1, <2>3
  <1>10. g[a] \in Seq(X)
    BY <1>1, <1>6
  <1>11. f[a + b] = g[a] \o h[b]
    <2> DEFINE T == {n \in 0 .. b : f[a + n] = g[a] \o h[n]}
    <2>1. 0 \in T
      <3>1. g[a] \o <<>> = g[a] /\ a + 0 = a /\ 0 \in 0 .. b
        BY <1>1, <1>10
      <3>2. f[a + 0] = g[a] \o h[0]
        BY <1>7, <1>9, <3>1
      <3> QED  BY <3>1, <3>2
    <2>2. ASSUME NEW n \in 0 .. b, n < b, n \in T
          PROVE  n + 1 \in T
      <3>1. n + 1 \in 1 .. b /\ a + (n + 1) \in 1 .. N /\ (a + (n + 1)) - 1 = a + n /\ (n + 1) - 1 = n
        BY <1>1, <2>2
      <3>2. /\ f[a + n] = g[a] \o h[n] /\ all[a + (n + 1)] = t[n + 1] /\ h[n] \in Seq(X)
            /\ (t[n + 1] \in S <=> t[n + 1] \in B) /\ t[n + 1] \in X
        <4>1. t[n + 1] \in X
          BY <3>1 DEF b
        <4> QED  BY <1>1, <1>7, <1>8, <2>2, <3>1, <4>1
      <3>3. f[a + (n + 1)] = IF all[a + (n + 1)] \in S THEN Append(f[a + n], all[a + (n + 1)]) ELSE f[a + n]
        BY <1>5, <3>1
      <3>4. h[n + 1] = IF t[n + 1] \in B THEN Append(h[n], t[n + 1]) ELSE h[n]
        BY <1>7, <3>1
      <3>5. Append(g[a] \o h[n], t[n + 1]) = g[a] \o Append(h[n], t[n + 1])
        <4> DEFINE u == g[a]
                   v == h[n]
                   x == t[n + 1]
        <4>1. u \in Seq(X) /\ v \in Seq(X) /\ x \in X
          BY <1>10, <3>2
        <4> HIDE DEF u, v, x
        <4>2. AppendsTo(u \o v, u, v, x)
          BY ONLY <4>1, AppendJoin
        <4> QED  BY <4>2 DEF AppendsTo, u, v, x
      <3>6. f[a + (n + 1)] = g[a] \o h[n + 1]
        <4> DEFINE y == all[a + (n + 1)]
        <4>1. CASE y \in S
          <5>1. f[a + (n + 1)] = Append(f[a + n], y) /\ h[n + 1] = Append(h[n], y)
            BY <3>2, <3>3, <3>4, <4>1
          <5> QED  BY <3>2, <3>5, <5>1
        <4>2. CASE y \notin S
          <5>1. f[a + (n + 1)] = f[a + n] /\ h[n + 1] = h[n]
            BY <3>2, <3>3, <3>4, <4>2
          <5> QED  BY <3>2, <5>1
        <4> QED  BY <4>1, <4>2
      <3>7. n + 1 \in 0 .. b
        BY <1>1, <3>1
      <3> QED  BY <3>6, <3>7
    <2>3. 0 .. b \subseteq T
      <3> HIDE DEF T
      <3> QED  BY <1>1, <2>1, <2>2, InductiveUpTo
    <2>4. b \in T
      <3> HIDE DEF T
      <3> QED  BY <1>1, <2>3
    <2> QED  BY <2>4
  <1> QED  BY <1>1, <1>5, <1>6, <1>7, <1>11 DEF all

\* A function of each element takes a sequence made of two to one made of two.
Image(g, s) == [i \in DOMAIN s |-> g[s[i]]]

LEMMA MapJoin ==
    ASSUME NEW X, NEW s \in Seq(X), NEW t \in Seq(X), NEW g
    PROVE  Image(g, s \o t) = Image(g, s) \o Image(g, t)
  <1> DEFINE Y == {g[x] : x \in X}
             u == [i \in DOMAIN s |-> g[s[i]]]
             v == [i \in DOMAIN t |-> g[t[i]]]
             w == [i \in DOMAIN (s \o t) |-> g[(s \o t)[i]]]
             a == Len(s)
             b == Len(t)
  <1>1. /\ s \o t \in Seq(X) /\ Len(s \o t) = a + b /\ a \in Nat /\ b \in Nat
        /\ \A i \in 1 .. a : (s \o t)[i] = s[i]
        /\ \A i \in 1 .. b : (s \o t)[a + i] = t[i]
    BY JoinAt
  <1>2. DOMAIN s = 1 .. a /\ DOMAIN t = 1 .. b /\ DOMAIN (s \o t) = 1 .. a + b
    BY <1>1
  <1>3. (\A i \in 1 .. a : s[i] \in X) /\ \A i \in 1 .. b : t[i] \in X
    OBVIOUS
  <1>4. u \in Seq(Y) /\ Len(u) = a /\ \A i \in 1 .. a : u[i] = g[s[i]]
    <2>1. u = [i \in 1 .. a |-> g[s[i]]]
      BY <1>2
    <2>2. \A i \in 1 .. a : g[s[i]] \in Y
      BY <1>3
    <2>3. u \in [1 .. a -> Y] /\ \A i \in 1 .. a : u[i] = g[s[i]]
      BY <2>1, <2>2
    <2> HIDE DEF Y, a, u
    <2> QED  BY <1>1, <2>3, FunctionIsSeq
  <1>5. v \in Seq(Y) /\ Len(v) = b /\ \A i \in 1 .. b : v[i] = g[t[i]]
    <2>1. v = [i \in 1 .. b |-> g[t[i]]]
      BY <1>2
    <2>2. \A i \in 1 .. b : g[t[i]] \in Y
      BY <1>3
    <2>3. v \in [1 .. b -> Y] /\ \A i \in 1 .. b : v[i] = g[t[i]]
      BY <2>1, <2>2
    <2> HIDE DEF Y, b, v
    <2> QED  BY <1>1, <2>3, FunctionIsSeq
  <1>6. w = [i \in 1 .. a + b |-> g[(s \o t)[i]]]
    BY <1>2
  <1> HIDE DEF Y, u, v
  <1>7. /\ u \o v \in Seq(Y) /\ Len(u \o v) = a + b
        /\ \A i \in 1 .. a : (u \o v)[i] = u[i]
        /\ \A i \in 1 .. b : (u \o v)[a + i] = v[i]
    <2>1. u \in Seq(Y) /\ v \in Seq(Y)
      BY <1>4, <1>5
    <2>2. /\ u \o v \in Seq(Y) /\ Len(u \o v) = Len(u) + Len(v)
          /\ \A i \in 1 .. Len(u) : (u \o v)[i] = u[i]
          /\ \A i \in 1 .. Len(v) : (u \o v)[Len(u) + i] = v[i]
      BY ONLY <2>1, JoinAt
    <2>3. Len(u) = a /\ Len(v) = b
      BY <1>4, <1>5
    <2> QED  BY <2>2, <2>3
  <1>8. \A i \in 1 .. a + b : g[(s \o t)[i]] = (u \o v)[i]
    <2> TAKE i \in 1 .. a + b
    <2> DEFINE c == s \o t
               d == u \o v
    <2>1. (\A j \in 1 .. a : c[j] = s[j]) /\ \A j \in 1 .. b : c[a + j] = t[j]
      BY <1>1
    <2>2. (\A j \in 1 .. a : d[j] = u[j]) /\ \A j \in 1 .. b : d[a + j] = v[j]
      BY <1>7
    <2> HIDE DEF a, b, c, d
    <2>3. CASE i <= a
      <3>1. i \in 1 .. a
        BY <1>1, <2>3
      <3>2. g[c[i]] = d[i]
        BY <1>4, <2>1, <2>2, <3>1
      <3> QED  BY <3>2 DEF c, d
    <2>4. CASE i > a
      <3>1. i - a \in 1 .. b /\ a + (i - a) = i
        BY <1>1, <2>4
      <3>2. c[i] = t[i - a] /\ d[i] = v[i - a]
        BY <2>1, <2>2, <3>1
      <3>3. v[i - a] = g[t[i - a]]
        BY <1>5, <3>1
      <3>4. g[c[i]] = d[i]
        BY <3>2, <3>3
      <3> QED  BY <3>4 DEF c, d
    <2>5. i \in Nat /\ a \in Nat /\ (i <= a \/ i > a)
      BY <1>1
    <2> QED  BY ONLY <2>3, <2>4, <2>5
  <1>9. u \o v = [i \in 1 .. a + b |-> (u \o v)[i]]
    <2> DEFINE d == u \o v
    <2>1. d \in Seq(Y) /\ Len(d) = a + b
      BY <1>7
    <2> HIDE DEF d, a, b
    <2>2. d = [i \in 1 .. Len(d) |-> d[i]]
      BY <2>1
    <2> QED  BY <2>1, <2>2 DEF d
  <1>10. w = u \o v
    <2> HIDE DEF w
    <2> DEFINE c == s \o t
               d == u \o v
    <2>1. w = [i \in 1 .. a + b |-> g[c[i]]]
      BY <1>6
    <2>2. \A i \in 1 .. a + b : g[c[i]] = d[i]
      BY <1>8
    <2>3. d = [i \in 1 .. a + b |-> d[i]]
      BY <1>9
    <2> HIDE DEF c, d, a, b
    <2>4. w = d
      BY <2>1, <2>2, <2>3
    <2> QED  BY <2>4 DEF d
  <1> QED  BY <1>10 DEF Image, u, v, w

JoinsTo(r, s, t) == (r \o s) \o t = r \o (s \o t)

LEMMA JoinJoin ==
    ASSUME NEW X, NEW r \in Seq(X), NEW s \in Seq(X), NEW t \in Seq(X)
    PROVE  JoinsTo(r, s, t)
  <1> DEFINE rs == r \o s
             st == s \o t
             v == rs \o t
             w == r \o st
             a == Len(r)
             b == Len(s)
             c == Len(t)
  <1>1. /\ rs \in Seq(X) /\ Len(rs) = a + b /\ a \in Nat /\ b \in Nat
        /\ \A i \in 1 .. a : rs[i] = r[i]
        /\ \A i \in 1 .. b : rs[a + i] = s[i]
    BY JoinAt
  <1>2. /\ st \in Seq(X) /\ Len(st) = b + c /\ c \in Nat
        /\ \A i \in 1 .. b : st[i] = s[i]
        /\ \A i \in 1 .. c : st[b + i] = t[i]
    BY JoinAt
  <1> HIDE DEF rs, st
  <1>3. /\ v \in Seq(X) /\ Len(v) = Len(rs) + c
        /\ \A i \in 1 .. Len(rs) : v[i] = rs[i]
        /\ \A i \in 1 .. c : v[Len(rs) + i] = t[i]
    <2>1. rs \in Seq(X) /\ t \in Seq(X)
      BY <1>1
    <2> QED  BY ONLY <2>1, JoinAt
  <1>4. /\ w \in Seq(X) /\ Len(w) = a + Len(st)
        /\ \A i \in 1 .. a : w[i] = r[i]
        /\ \A i \in 1 .. Len(st) : w[a + i] = st[i]
    <2>1. r \in Seq(X) /\ st \in Seq(X)
      BY <1>2
    <2> QED  BY ONLY <2>1, JoinAt
  <1> HIDE DEF v, w, a, b, c
  <1>5. Len(v) = (a + b) + c /\ Len(w) = (a + b) + c
    BY <1>1, <1>2, <1>3, <1>4
  <1>6. \A i \in 1 .. (a + b) + c : v[i] = w[i]
    <2> TAKE i \in 1 .. (a + b) + c
    <2>1. CASE i <= a
      <3>1. i \in 1 .. a /\ i \in 1 .. Len(rs)
        BY <1>1, <2>1
      <3> QED  BY <1>1, <1>3, <1>4, <3>1
    <2>2. CASE i > a /\ i <= a + b
      <3>1. i - a \in 1 .. b /\ a + (i - a) = i /\ i \in 1 .. Len(rs) /\ i - a \in 1 .. Len(st)
        BY <1>1, <1>2, <2>2
      <3>2. v[i] = rs[i] /\ rs[i] = s[i - a] /\ w[i] = st[i - a] /\ st[i - a] = s[i - a]
        BY <1>1, <1>2, <1>3, <1>4, <3>1
      <3> QED  BY <3>2
    <2>3. CASE i > a + b
      <3> DEFINE k == i - (a + b)
      <3>1. k \in 1 .. c /\ Len(rs) + k = i /\ a + (b + k) = i /\ b + k \in 1 .. Len(st)
        BY <1>1, <1>2, <2>3
      <3> HIDE DEF k
      <3>2. v[i] = t[k] /\ w[i] = st[b + k] /\ st[b + k] = t[k]
        BY <1>2, <1>3, <1>4, <3>1
      <3> QED  BY <3>2
    <2> QED  BY <1>1, <2>1, <2>2, <2>3
  <1>7. v = w
    BY <1>1, <1>2, <1>3, <1>4, <1>5, <1>6
  <1> QED  BY <1>7 DEF JoinsTo, v, w, rs, st

\* Flattening two sequences of sequences, one after the other.
LEMMA FlattenJoin ==
    ASSUME NEW X, NEW s \in Seq(Seq(X)), NEW t \in Seq(Seq(X))
    PROVE  FlattenSeq(s \o t) = FlattenSeq(s) \o FlattenSeq(t)
  <1> DEFINE all == s \o t
             a == Len(s)
             b == Len(t)
             N == Len(all)
  <1>1. /\ all \in Seq(Seq(X)) /\ N = a + b /\ a \in Nat /\ b \in Nat
        /\ \A i \in 1 .. a : all[i] = s[i]
        /\ \A i \in 1 .. b : all[a + i] = t[i]
    BY JoinAt
  <1> HIDE DEF all
  <1>2. PICK f : Flattens(X, all, f)
    BY <1>1, FlattenRecursion
  <1>3. PICK g : Flattens(X, s, g)
    BY FlattenRecursion
  <1>4. PICK h : Flattens(X, t, h)
    BY FlattenRecursion
  <1>5. FlattenSeq(all) = f[N] /\ f[0] = <<>> /\ \A n \in 1 .. N : f[n] = f[n - 1] \o all[n]
    BY <1>2 DEF Flattens
  <1>6. /\ FlattenSeq(s) = g[a] /\ g[0] = <<>> /\ g \in [0 .. a -> Seq(X)]
        /\ \A n \in 1 .. a : g[n] = g[n - 1] \o s[n]
    BY <1>3 DEF Flattens
  <1>7. /\ FlattenSeq(t) = h[b] /\ h[0] = <<>> /\ h \in [0 .. b -> Seq(X)]
        /\ \A n \in 1 .. b : h[n] = h[n - 1] \o t[n]
    BY <1>4 DEF Flattens
  <1>8. \A i \in 1 .. b : t[i] \in Seq(X)
    OBVIOUS
  <1> HIDE DEF a, b, N
  <1>9. f[a] = g[a]
    <2> DEFINE T == {n \in 0 .. a : f[n] = g[n]}
    <2>1. 0 \in T
      BY <1>1, <1>5, <1>6
    <2>2. ASSUME NEW n \in 0 .. a, n < a, n \in T
          PROVE  n + 1 \in T
      <3>1. n + 1 \in 1 .. a /\ n + 1 \in 1 .. N /\ (n + 1) - 1 = n
        BY <1>1, <2>2
      <3>2. f[n] = g[n] /\ all[n + 1] = s[n + 1]
        BY <1>1, <2>2, <3>1
      <3>3. f[n + 1] = f[n] \o all[n + 1] /\ g[n + 1] = g[n] \o s[n + 1]
        BY <1>5, <1>6, <3>1
      <3>4. f[n + 1] = g[n + 1]
        BY <3>2, <3>3
      <3> QED  BY <3>1, <3>4
    <2>3. 0 .. a \subseteq T
      <3> HIDE DEF T
      <3> QED  BY <1>1, <2>1, <2>2, InductiveUpTo
    <2> QED  BY <1>1, <2>3
  <1>10. g[a] \in Seq(X)
    BY <1>1, <1>6
  <1>11. f[a + b] = g[a] \o h[b]
    <2> DEFINE T == {n \in 0 .. b : f[a + n] = g[a] \o h[n]}
    <2>1. 0 \in T
      <3>1. g[a] \o <<>> = g[a] /\ a + 0 = a /\ 0 \in 0 .. b
        BY <1>1, <1>10
      <3>2. f[a + 0] = g[a] \o h[0]
        BY <1>7, <1>9, <3>1
      <3> QED  BY <3>1, <3>2
    <2>2. ASSUME NEW n \in 0 .. b, n < b, n \in T
          PROVE  n + 1 \in T
      <3>1. n + 1 \in 1 .. b /\ a + (n + 1) \in 1 .. N /\ (a + (n + 1)) - 1 = a + n /\ (n + 1) - 1 = n
        BY <1>1, <2>2
      <3>2. f[a + n] = g[a] \o h[n] /\ all[a + (n + 1)] = t[n + 1]
        BY <1>1, <2>2, <3>1
      <3>3. f[a + (n + 1)] = f[a + n] \o all[a + (n + 1)] /\ h[n + 1] = h[n] \o t[n + 1]
        BY <1>5, <1>7, <3>1
      <3>4. (g[a] \o h[n]) \o t[n + 1] = g[a] \o (h[n] \o t[n + 1])
        <4> DEFINE u == g[a]
                   v == h[n]
                   x == t[n + 1]
        <4>1. u \in Seq(X) /\ v \in Seq(X) /\ x \in Seq(X)
          BY <1>7, <1>8, <1>10, <3>1
        <4> HIDE DEF u, v, x
        <4>2. JoinsTo(u, v, x)
          BY ONLY <4>1, JoinJoin
        <4> QED  BY <4>2 DEF JoinsTo, u, v, x
      <3>5. f[a + (n + 1)] = g[a] \o h[n + 1]
        BY <3>2, <3>3, <3>4
      <3>6. n + 1 \in 0 .. b
        BY <1>1, <3>1
      <3> QED  BY <3>5, <3>6
    <2>3. 0 .. b \subseteq T
      <3> HIDE DEF T
      <3> QED  BY <1>1, <2>1, <2>2, InductiveUpTo
    <2>4. b \in T
      <3> HIDE DEF T
      <3> QED  BY <1>1, <2>3
    <2> QED  BY <2>4
  <1> QED  BY <1>1, <1>5, <1>6, <1>7, <1>11 DEF all

\* The values of two sequences of messages, one after the other.
LEMMA ValuesJoin ==
    ASSUME NEW X, NEW s \in Seq(X), NEW t \in Seq(X), NEW kind, NEW all, IsJoin(all, s, t)
    PROVE  IsJoin(ValuesOf(all, kind), ValuesOf(s, kind), ValuesOf(t, kind))
  <1> DEFINE S == {m \in ToSet(s \o t) : m.kind = kind}
             A == {m \in ToSet(s) : m.kind = kind}
             B == {m \in ToSet(t) : m.kind = kind}
             g == [m \in X |-> m.value]
             c == Keep(s, A)
             d == Keep(t, B)
             e == Keep(s \o t, S)
  <1>1. /\ s \o t \in Seq(X) /\ Len(s \o t) = Len(s) + Len(t)
        /\ Len(s) \in Nat /\ Len(t) \in Nat
        /\ \A i \in 1 .. Len(s) : (s \o t)[i] = s[i]
        /\ \A i \in 1 .. Len(t) : (s \o t)[Len(s) + i] = t[i]
    BY JoinAt
  <1>2. \A i \in 1 .. Len(s) : s[i] \in S <=> s[i] \in A
    <2> TAKE i \in 1 .. Len(s)
    <2>1. i \in 1 .. Len(s \o t) /\ (s \o t)[i] = s[i]
      BY <1>1
    <2>2. s[i] \in ToSet(s \o t) /\ s[i] \in ToSet(s)
      BY <1>1, <2>1 DEF ToSet
    <2> QED  BY <2>2
  <1>3. \A i \in 1 .. Len(t) : t[i] \in S <=> t[i] \in B
    <2> TAKE i \in 1 .. Len(t)
    <2>1. Len(s) + i \in 1 .. Len(s \o t) /\ (s \o t)[Len(s) + i] = t[i]
      BY <1>1
    <2>2. t[i] \in ToSet(s \o t) /\ t[i] \in ToSet(t)
      BY <1>1, <2>1 DEF ToSet
    <2> QED  BY <2>2
  <1> HIDE DEF S, A, B
  <1>4. e = c \o d
    BY <1>2, <1>3, KeepJoin
  <1>5. c \in Seq(X) /\ d \in Seq(X) /\ e \in Seq(X)
    BY <1>1, KeepPlaces
  <1>6. /\ ValuesOf(s, kind) = [i \in DOMAIN c |-> c[i].value]
        /\ ValuesOf(t, kind) = [i \in DOMAIN d |-> d[i].value]
        /\ ValuesOf(s \o t, kind) = [i \in DOMAIN e |-> e[i].value]
    BY DEF ValuesOf, S, A, B
  <1> HIDE DEF c, d, e
  <1>7. \A r \in Seq(X) : [i \in DOMAIN r |-> r[i].value] = Image(g, r)
    BY DEF Image
  <1> HIDE DEF g
  <1>8. Image(g, c \o d) = Image(g, c) \o Image(g, d)
    BY ONLY <1>5, MapJoin
  <1> QED  BY <1>4, <1>5, <1>6, <1>7, <1>8 DEF IsJoin

\* What two sequences of tool parts say, one after the other.
LEMMA OutcomesJoin ==
    ASSUME NEW s \in Seq(Results), NEW t \in Seq(Results), NEW status, NEW all, IsJoin(all, s, t)
    PROVE  IsJoin(Outcomes(all, status), Outcomes(s, status), Outcomes(t, status))
  <1> DEFINE A == {e \in Results : e.status = status}
             g == [m \in Results |-> <<m.tool, m.text>>]
             c == Keep(s, A)
             d == Keep(t, A)
             e == Keep(s \o t, A)
  <1>1. s \o t \in Seq(Results)
    OBVIOUS
  <1> HIDE DEF A
  <1>4. e = c \o d
    BY KeepJoin
  <1>5. c \in Seq(Results) /\ d \in Seq(Results) /\ e \in Seq(Results)
    BY <1>1, KeepPlaces
  <1>6. /\ Outcomes(s, status) = [i \in DOMAIN c |-> <<c[i].tool, c[i].text>>]
        /\ Outcomes(t, status) = [i \in DOMAIN d |-> <<d[i].tool, d[i].text>>]
        /\ Outcomes(s \o t, status) = [i \in DOMAIN e |-> <<e[i].tool, e[i].text>>]
    BY DEF Outcomes, A
  <1> HIDE DEF c, d, e
  <1>7. \A r \in Seq(Results) : [i \in DOMAIN r |-> <<r[i].tool, r[i].text>>] = Image(g, r)
    BY DEF Image
  <1> HIDE DEF g
  <1>8. Image(g, c \o d) = Image(g, c) \o Image(g, d)
    BY ONLY <1>5, MapJoin
  <1> QED  BY <1>4, <1>5, <1>6, <1>7, <1>8 DEF IsJoin

\* The constraint lines of two sequences of requests, one after the other.
LEMMA RulesJoin ==
    ASSUME NEW s \in Seq(Requests), NEW t \in Seq(Requests), NEW all, IsJoin(all, s, t)
    PROVE  IsJoin(RulesOf(all), RulesOf(s), RulesOf(t))
  <1> DEFINE c == Image(RuleIn, s)
             d == Image(RuleIn, t)
             e == Image(RuleIn, s \o t)
  <1>1. e = c \o d
    BY MapJoin
  <1>2. c \in Seq(Seq(Nat)) /\ d \in Seq(Seq(Nat))
    <2>1. \A r \in Seq(Requests) : Image(RuleIn, r) \in Seq(Seq(Nat))
      <3> TAKE r \in Seq(Requests)
      <3> DEFINE u == [i \in 1 .. Len(r) |-> RuleIn[r[i]]]
      <3>1. \A i \in 1 .. Len(r) : RuleIn[r[i]] \in Seq(Nat)
        BY LedgerAssumption
      <3>2. u \in Seq(Seq(Nat))
        BY <3>1
      <3>3. u = Image(RuleIn, r)
        BY DEF Image
      <3> HIDE DEF u
      <3> QED  BY <3>2, <3>3
    <2> QED  BY <2>1
  <1>3. RulesOf(s) = FlattenSeq(c) /\ RulesOf(t) = FlattenSeq(d) /\ RulesOf(s \o t) = FlattenSeq(e)
    BY DEF RulesOf, Image
  <1> HIDE DEF c, d, e
  <1>4. FlattenSeq(c \o d) = FlattenSeq(c) \o FlattenSeq(d)
    BY <1>2, FlattenJoin
  <1> QED  BY <1>1, <1>3, <1>4 DEF IsJoin

LEMMA RulesAre ==
    ASSUME NEW s \in Seq(Requests)
    PROVE  RulesOf(s) \in Seq(Nat)
  <1> DEFINE u == [i \in DOMAIN s |-> RuleIn[s[i]]]
  <1>1. \A i \in 1 .. Len(s) : RuleIn[s[i]] \in Seq(Nat)
    BY LedgerAssumption
  <1>2. u \in Seq(Seq(Nat))
    BY <1>1
  <1> HIDE DEF u
  <1>3. FlattenSeq(u) \in Seq(Nat)
    BY <1>2, FlattenIs
  <1> QED  BY <1>3 DEF RulesOf, u

\* What overlaps still does when only the values of one kind are left, or what they say.
LEMMA OverlapValues ==
    ASSUME NEW X, NEW all \in Seq(X), NEW a \in Seq(X), NEW b \in Seq(X), Overlapping(X, all, a, b),
           NEW kind, NEW V, \A m \in X : m.kind = kind => m.value \in V
    PROVE  /\ Overlapping(V, ValuesOf(all, kind), ValuesOf(a, kind), ValuesOf(b, kind))
           /\ ValuesOf(all, kind) \in Seq(V) /\ ValuesOf(a, kind) \in Seq(V) /\ ValuesOf(b, kind) \in Seq(V)
  <1>1. PICK rest \in Seq(X), before \in Seq(X), between \in Seq(X) :
           IsJoin(all, a, rest) /\ IsJoin(all, before, b) /\ IsJoin(a, before, between)
    BY DEF Overlapping
  <1>2. \A s \in Seq(X) : ValuesOf(s, kind) \in Seq(V)
    BY ValuesIs
  <1>3. IsJoin(ValuesOf(all, kind), ValuesOf(a, kind), ValuesOf(rest, kind))
    BY <1>1, ValuesJoin
  <1>4. IsJoin(ValuesOf(all, kind), ValuesOf(before, kind), ValuesOf(b, kind))
    BY <1>1, ValuesJoin
  <1>5. IsJoin(ValuesOf(a, kind), ValuesOf(before, kind), ValuesOf(between, kind))
    BY <1>1, ValuesJoin
  <1> QED  BY <1>1, <1>2, <1>3, <1>4, <1>5 DEF Overlapping

OutcomeOf(e) == <<e.tool, e.text>>

LEMMA OutcomesAre ==
    ASSUME NEW results \in Seq(Results), NEW status
    PROVE  Outcomes(results, status) \in Seq({OutcomeOf(e) : e \in Results})
  <1> DEFINE A == {e \in Results : e.status = status}
             c == Keep(results, A)
             s == [i \in DOMAIN c |-> <<c[i].tool, c[i].text>>]
  <1>1. c \in Seq(Results)
    <2> HIDE DEF A
    <2> QED  BY KeepPlaces
  <1> HIDE DEF c
  <1>2. Len(c) \in Nat /\ s = [i \in 1 .. Len(c) |-> OutcomeOf(c[i])] /\ \A i \in 1 .. Len(c) : c[i] \in Results
    BY <1>1 DEF OutcomeOf
  <1> HIDE DEF s
  <1>3. s \in Seq({OutcomeOf(e) : e \in Results})
    BY <1>2
  <1> QED  BY <1>3 DEF Outcomes, c, A, s

LEMMA OverlapOutcomes ==
    ASSUME NEW all \in Seq(Results), NEW a \in Seq(Results), NEW b \in Seq(Results),
           Overlapping(Results, all, a, b), NEW status
    PROVE  Overlapping({OutcomeOf(e) : e \in Results},
                       Outcomes(all, status), Outcomes(a, status), Outcomes(b, status))
  <1> DEFINE V == {OutcomeOf(e) : e \in Results}
  <1>1. PICK rest \in Seq(Results), before \in Seq(Results), between \in Seq(Results) :
           IsJoin(all, a, rest) /\ IsJoin(all, before, b) /\ IsJoin(a, before, between)
    BY DEF Overlapping
  <1>2. \A s \in Seq(Results) : Outcomes(s, status) \in Seq(V)
    BY OutcomesAre
  <1>3. IsJoin(Outcomes(all, status), Outcomes(a, status), Outcomes(rest, status))
    BY <1>1, OutcomesJoin
  <1>4. IsJoin(Outcomes(all, status), Outcomes(before, status), Outcomes(b, status))
    BY <1>1, OutcomesJoin
  <1>5. IsJoin(Outcomes(a, status), Outcomes(before, status), Outcomes(between, status))
    BY <1>1, OutcomesJoin
  <1> HIDE DEF V
  <1>6. Overlapping(V, Outcomes(all, status), Outcomes(a, status), Outcomes(b, status))
    BY <1>1, <1>2, <1>3, <1>4, <1>5 DEF Overlapping
  <1> QED  BY <1>6 DEF V

LEMMA OverlapRules ==
    ASSUME NEW all \in Seq(Requests), NEW a \in Seq(Requests), NEW b \in Seq(Requests),
           Overlapping(Requests, all, a, b)
    PROVE  Overlapping(Nat, RulesOf(all), RulesOf(a), RulesOf(b))
  <1>1. PICK rest \in Seq(Requests), before \in Seq(Requests), between \in Seq(Requests) :
           IsJoin(all, a, rest) /\ IsJoin(all, before, b) /\ IsJoin(a, before, between)
    BY DEF Overlapping
  <1>2. \A s \in Seq(Requests) : RulesOf(s) \in Seq(Nat)
    BY RulesAre
  <1>3. IsJoin(RulesOf(all), RulesOf(a), RulesOf(rest))
    BY <1>1, RulesJoin
  <1>4. IsJoin(RulesOf(all), RulesOf(before), RulesOf(b))
    BY <1>1, RulesJoin
  <1>5. IsJoin(RulesOf(a), RulesOf(before), RulesOf(between))
    BY <1>1, RulesJoin
  <1> QED  BY <1>1, <1>2, <1>3, <1>4, <1>5 DEF Overlapping

\* s is the last of values, unless a value comes twice.
LastWhenOnce(s, values, limit) == IsInjective(values) => s = LastOf(values, limit)

\* A section whose prior values cover what came first, merged with what the window says.
LEMMA SectionCovers ==
    ASSUME NEW X, NEW all \in Seq(X), NEW A \in Seq(X), NEW B \in Seq(X),
           Overlapping(X, all, A, B), NEW l \in Nat, NEW s, LastWhenOnce(s, A, l)
    PROVE  /\ LastWhenOnce(MergeValues(s, LastOf(B, l), l), all, l)
           /\ LastWhenOnce(MergeValues(s, NewestUnique(B, l), l), all, l)
  <1> SUFFICES ASSUME IsInjective(all)
               PROVE  /\ MergeValues(s, LastOf(B, l), l) = LastOf(all, l)
                      /\ MergeValues(s, NewestUnique(B, l), l) = LastOf(all, l)
    BY DEF LastWhenOnce
  <1> DEFINE N == Len(all)
             a == Len(A)
             b == Len(B)
  <1>1. /\ N \in Nat /\ a \in Nat /\ b \in Nat /\ a <= N /\ b <= N
        /\ \A i \in 1 .. a : A[i] = all[i]
        /\ \A i \in 1 .. b : B[i] = all[(N - b) + i]
    BY PartsAt
  <1>2. DOMAIN all = 1 .. N /\ DOMAIN A = 1 .. a
    OBVIOUS
  <1> HIDE DEF N, a, b
  <1>3. \A i, j \in 1 .. N : all[i] = all[j] => i = j
    BY <1>2 DEF IsInjective
  <1>4. \A i, j \in 1 .. a : A[i] = A[j] => i = j
    <2> SUFFICES ASSUME NEW i \in 1 .. a, NEW j \in 1 .. a, A[i] = A[j] PROVE i = j
      OBVIOUS
    <2>1. i \in 1 .. N /\ j \in 1 .. N
      BY <1>1
    <2> QED  BY <1>1, <1>3, <2>1
  <1>5. \A i, j \in 1 .. b : B[i] = B[j] => i = j
    <2> SUFFICES ASSUME NEW i \in 1 .. b, NEW j \in 1 .. b, B[i] = B[j] PROVE i = j
      OBVIOUS
    <2>1. (N - b) + i \in 1 .. N /\ (N - b) + j \in 1 .. N
      BY <1>1
    <2>2. (N - b) + i = (N - b) + j
      BY <1>1, <1>3, <2>1
    <2> QED  BY <1>1, <2>2
  <1>6. s = LastOf(A, l)
    BY <1>2, <1>4 DEF LastWhenOnce, IsInjective
  <1>7. NewestUnique(B, l) = LastOf(B, l)
    BY <1>5, NewestAre DEF NoneTwice, b
  <1>8. MergeValues(LastOf(A, l), LastOf(B, l), l) = LastOf(all, l)
    BY <1>3, MergeCovers DEF NoneTwice, N
  <1> QED  BY <1>6, <1>7, <1>8

\* The sections of the ledger of ms that a chain of ledgers has to carry.
Carries(ms, d) ==
    LET turns == ValuesOf(ms, "user")
        tools == ValuesOf(ms, "tool")
    IN /\ LastWhenOnce(d.recent_requests, turns, Min({RequestTurns, Limits.recent_requests}))
       /\ LastWhenOnce(d.constraints, RulesOf(turns), Limits.constraints)
       /\ LastWhenOnce(d.evidence, Outcomes(tools, "completed"), Limits.evidence)
       /\ LastWhenOnce(d.errors, Outcomes(tools, "error"), Limits.errors)

LEMMA MergedCarries ==
    ASSUME LedgerInv, NEW a \in Seq(ToSet(messages)), Carries(a, Prior),
           Overlapping(ToSet(messages), messages, a, Window)
    PROVE  Carries(messages, Merged)
  <1> DEFINE X == ToSet(messages)
             turns(s) == ValuesOf(s, "user")
             tools(s) == ValuesOf(s, "tool")
             w == Window
             l == Min({RequestTurns, Limits.recent_requests})
  <1>1. messages \in Seq(X) /\ w \in Seq(X)
    <2>1. messages \in Seq(X)
      BY DEF LedgerInv, IsSeq
    <2> HIDE DEF X
    <2> QED  BY <2>1, LimitsAre, LastOfIs DEF Window
  <1>2. /\ \A m \in X : m.kind = "user" => m.value \in Requests
        /\ \A m \in X : m.kind = "tool" => m.value \in Results
    BY DEF LedgerInv, MessageIs
  <1>3. Overlapping(X, messages, a, w) /\ a \in Seq(X)
    OBVIOUS
  <1> HIDE DEF X, w
  <1>4. /\ Overlapping(Requests, turns(messages), turns(a), turns(w))
        /\ turns(messages) \in Seq(Requests) /\ turns(a) \in Seq(Requests) /\ turns(w) \in Seq(Requests)
    BY <1>1, <1>2, <1>3, OverlapValues
  <1>5. /\ Overlapping(Results, tools(messages), tools(a), tools(w))
        /\ tools(messages) \in Seq(Results) /\ tools(a) \in Seq(Results) /\ tools(w) \in Seq(Results)
    BY <1>1, <1>2, <1>3, OverlapValues
  <1> DEFINE p == Prior
             m == Merged
             r == RecoveredLedger
  <1>6. /\ r.evidence = NewestUnique(Outcomes(tools(w), "completed"), Limits.evidence)
        /\ r.errors = NewestUnique(Outcomes(tools(w), "error"), Limits.errors)
        /\ r.constraints = NewestUnique(RulesOf(turns(w)), Limits.constraints)
        /\ r.recent_requests = LastOf(turns(w), Max({1, l}))
    BY DEF RecoveredLedger, w
  <1>7. /\ m.evidence = MergeValues(p.evidence, r.evidence, Limits.evidence)
        /\ m.errors = MergeValues(p.errors, r.errors, Limits.errors)
        /\ m.constraints = MergeValues(p.constraints, r.constraints, Limits.constraints)
        /\ m.recent_requests = IF RequestTurns = 0 THEN <<>>
                               ELSE MergeValues(p.recent_requests, r.recent_requests, l)
    BY LimitsAre DEF Merged
  <1>8. /\ LastWhenOnce(p.recent_requests, turns(a), l)
        /\ LastWhenOnce(p.constraints, RulesOf(turns(a)), Limits.constraints)
        /\ LastWhenOnce(p.evidence, Outcomes(tools(a), "completed"), Limits.evidence)
        /\ LastWhenOnce(p.errors, Outcomes(tools(a), "error"), Limits.errors)
    BY DEF Carries
  <1>9. /\ Limits.evidence \in Nat /\ Limits.errors \in Nat /\ Limits.constraints \in Nat
        /\ Limits.recent_requests \in Nat \ {0} /\ RequestTurns \in Nat
    BY LimitsAre, LedgerAssumption
  <1> HIDE DEF p, m, r, turns, tools
  <1>10. LastWhenOnce(m.constraints, RulesOf(turns(messages)), Limits.constraints)
    <2>1. Overlapping(Nat, RulesOf(turns(messages)), RulesOf(turns(a)), RulesOf(turns(w)))
      BY <1>4, OverlapRules
    <2>2. /\ RulesOf(turns(messages)) \in Seq(Nat) /\ RulesOf(turns(a)) \in Seq(Nat)
          /\ RulesOf(turns(w)) \in Seq(Nat)
      BY <1>4, RulesAre
    <2> QED  BY <1>6, <1>7, <1>8, <1>9, <2>1, <2>2, SectionCovers
  <1>11. ASSUME NEW k \in {"evidence", "errors"}, NEW status, NEW old,
                LastWhenOnce(old, Outcomes(tools(a), status), Limits[k])
         PROVE  LastWhenOnce(MergeValues(old, NewestUnique(Outcomes(tools(w), status), Limits[k]), Limits[k]),
                             Outcomes(tools(messages), status), Limits[k])
    <2> DEFINE V == {OutcomeOf(e) : e \in Results}
    <2>1. Overlapping(V, Outcomes(tools(messages), status), Outcomes(tools(a), status),
                      Outcomes(tools(w), status))
      BY <1>5, OverlapOutcomes
    <2>2. /\ Outcomes(tools(messages), status) \in Seq(V) /\ Outcomes(tools(a), status) \in Seq(V)
          /\ Outcomes(tools(w), status) \in Seq(V)
      BY <1>5, OutcomesAre
    <2>3. Limits[k] \in Nat
      BY <1>9
    <2> HIDE DEF V
    <2> QED  BY <1>11, <2>1, <2>2, <2>3, SectionCovers
  <1>12. LastWhenOnce(m.evidence, Outcomes(tools(messages), "completed"), Limits.evidence)
    BY <1>6, <1>7, <1>8, <1>11
  <1>13. LastWhenOnce(m.errors, Outcomes(tools(messages), "error"), Limits.errors)
    BY <1>6, <1>7, <1>8, <1>11
  <1>14. LastWhenOnce(m.recent_requests, turns(messages), l)
    <2>1. l \in Nat /\ (RequestTurns = 0 => l = 0) /\ (RequestTurns # 0 => l >= 1)
      BY <1>9, MinIs
    <2>2. CASE RequestTurns = 0
      <3>1. Len(turns(messages)) \in Nat
        BY <1>4
      <3>2. LastOf(turns(messages), l) = <<>>
        <4> DEFINE t == turns(messages)
                   n == Len(t)
        <4>1. t \in Seq(Requests) /\ n \in Nat
          BY <1>4, <3>1
        <4>2. AtMost(l, n) = 0
          BY <2>1, <2>2, <4>1 DEF AtMost
        <4>3. LastOf(t, l) \in Seq(Requests) /\ Len(LastOf(t, l)) = AtMost(l, n)
          BY <2>1, <4>1, LastOfAt
        <4> HIDE DEF t, n
        <4>4. LastOf(t, l) = <<>>
          BY <4>2, <4>3
        <4> QED  BY <4>4 DEF t
      <3> QED  BY <1>7, <2>2, <3>2 DEF LastWhenOnce
    <2>3. CASE RequestTurns # 0
      <3>1. Max({1, l}) = l
        BY <2>1, <2>3 DEF Max
      <3> QED  BY <1>4, <1>6, <1>7, <1>8, <2>1, <2>3, <3>1, SectionCovers
    <2> QED  BY <2>2, <2>3
  <1> QED  BY <1>10, <1>12, <1>13, <1>14 DEF Carries, turns, tools, m

\* No section longer, no more bytes.
LEMMA BytesUp ==
    ASSUME NEW d, IsData(d), NEW e, IsData(e),
           \A k \in Sections : Len(d[k]) <= Len(e[k])
    PROVE  Bytes(d) \in Nat /\ Bytes(e) \in Nat /\ Bytes(d) <= Bytes(e)
  <1>1. PICK f : Sums(d, f)
    BY BytesRecursion
  <1>2. PICK g : Sums(e, g)
    BY BytesRecursion
  <1>3. \A n \in 1 .. 9 : Cost(d, n) \in Nat /\ Cost(e, n) \in Nat /\ Cost(d, n) <= Cost(e, n)
    <2> TAKE n \in 1 .. 9
    <2> DEFINE a == Len(d[RemovalOrder[n]])
               b == Len(e[RemovalOrder[n]])
               c == Sizes[RemovalOrder[n]]
    <2>1. RemovalOrder[n] \in Sections
      BY OrderIs
    <2>2. a \in Nat /\ b \in Nat /\ a <= b /\ c \in Nat
      BY <2>1, LedgerAssumption DEF IsData, IsSeq
    <2> HIDE DEF a, b, c
    <2>3. a * c <= b * c
      BY <2>2, ProductUp
    <2>4. Cost(d, n) = a * c /\ Cost(e, n) = b * c
      BY DEF Cost, a, b, c
    <2>5. Cost(d, n) \in Nat /\ Cost(e, n) \in Nat
      BY CostIs
    <2> QED  BY <2>3, <2>4, <2>5
  <1> DEFINE S == {m \in 0 .. 9 : f[m] <= g[m]}
  <1>4. 0 \in S
    BY <1>1, <1>2, LedgerAssumption DEF Sums
  <1>5. ASSUME NEW m \in 0 .. 9, m < 9, m \in S
        PROVE  m + 1 \in S
    <2>1. m + 1 \in 1 .. 9 /\ (m + 1) - 1 = m /\ m + 1 \in 0 .. 9
      BY <1>5
    <2>2. /\ f[m] \in Nat /\ g[m] \in Nat /\ f[m + 1] = f[m] + Cost(d, m + 1)
          /\ g[m + 1] = g[m] + Cost(e, m + 1)
      BY <1>1, <1>2, <2>1 DEF Sums
    <2> DEFINE a == f[m]
               b == g[m]
               x == Cost(d, m + 1)
               y == Cost(e, m + 1)
    <2>3. a \in Nat /\ b \in Nat /\ a <= b /\ x \in Nat /\ y \in Nat /\ x <= y
      BY <1>3, <1>5, <2>1, <2>2
    <2>4. f[m + 1] = a + x /\ g[m + 1] = b + y
      BY <2>2
    <2> HIDE DEF a, b, x, y
    <2>5. a + x <= b + y
      BY <2>3
    <2> QED  BY <2>1, <2>4, <2>5
  <1>6. 9 \in S
    <2>1. 0 .. 9 \subseteq S
      <3> HIDE DEF S
      <3> QED  BY <1>4, <1>5, InductiveUpTo
    <2> QED  BY <2>1
  <1> QED  BY <1>1, <1>2, <1>6 DEF Sums

\* What fits is not cut.
LEMMA FitsUncut ==
    ASSUME NEW d, Bytes(d) <= budget
    PROVE  Fit(d) = d
  <1>1. PICK f : /\ f[0] = d /\ Fit(d) = f[9]
                 /\ \A n \in 1 .. 9 : f[n] = FitSection(f[n - 1], RemovalOrder[n])
    BY FitRecursion
  <1>2. \A k : FitSection(d, k) = d
    BY DEF FitSection
  <1> DEFINE S == {n \in 0 .. 9 : f[n] = d}
  <1>3. 0 \in S
    BY <1>1
  <1>4. ASSUME NEW n \in 0 .. 9, n < 9, n \in S
        PROVE  n + 1 \in S
    <2>1. n + 1 \in 1 .. 9 /\ (n + 1) - 1 = n /\ n + 1 \in 0 .. 9
      BY <1>4
    <2>2. f[n + 1] = FitSection(f[n], RemovalOrder[n + 1])
      BY <1>1, <2>1
    <2> QED  BY <1>2, <1>4, <2>1, <2>2
  <1>5. 9 \in S
    <2>1. 0 .. 9 \subseteq S
      <3> HIDE DEF S
      <3> QED  BY <1>3, <1>4, InductiveUpTo
    <2> QED  BY <2>1
  <1> QED  BY <1>1, <1>5

\* When the limits leave room, nothing is cut.
LEMMA AmpleFits ==
    ASSUME LedgerInv, Ample
    PROVE  Fit(Merged) = Merged
  <1> DEFINE full == [k \in Sections |-> [i \in 1 .. Limits[k] |-> 0]]
             d == Merged
  <1>1. IsData(d) /\ \A k \in Sections : Len(d[k]) <= Limits[k]
    BY MergedIsData
  <1>2. \A k \in Sections : IsSeq(full[k]) /\ Len(full[k]) = Limits[k]
    <2> TAKE k \in Sections
    <2> DEFINE n == Limits[k]
               s == full[k]
    <2>1. n \in Nat
      BY LimitsAre
    <2>2. s = [i \in 1 .. n |-> 0]
      OBVIOUS
    <2> HIDE DEF n, s
    <2>3. s = [i \in 1 .. n |-> s[i]]
      BY <2>2
    <2>4. IsSeq(s) /\ Len(s) = n
      BY <2>1, <2>3, BuiltSeq
    <2> QED  BY <2>4 DEF s, n
  <1>3. IsData(full)
    <2>1. full = [k \in Sections |-> full[k]]
      OBVIOUS
    <2> HIDE DEF full
    <2> QED  BY <1>2, <2>1 DEF IsData
  <1>4. Bytes(full) <= budget
    BY DEF Ample
  <1> HIDE DEF full, d
  <1>5. Bytes(d) \in Nat /\ Bytes(full) \in Nat /\ Bytes(d) <= Bytes(full)
    <2>1. \A k \in Sections : Len(d[k]) <= Len(full[k])
      BY <1>1, <1>2
    <2> QED  BY <1>1, <1>3, <2>1, BytesUp
  <1>6. Bytes(d) <= budget
    BY <1>4, <1>5, BudgetIs
  <1> QED  BY <1>6, FitsUncut DEF d

\* A sequence, taken apart.
LEMMA SplitIs ==
    ASSUME NEW X, NEW s \in Seq(X), NEW p \in 0 .. Len(s), NEW w \in 0 .. p
    PROVE  /\ SubSeq(s, 1, w) \in Seq(X) /\ SubSeq(s, w + 1, p) \in Seq(X) /\ SubSeq(s, 1, p) \in Seq(X)
           /\ IsJoin(SubSeq(s, 1, p), SubSeq(s, 1, w), SubSeq(s, w + 1, p))
  <1> DEFINE a == SubSeq(s, 1, p)
             b == SubSeq(s, 1, w)
             c == SubSeq(s, w + 1, p)
             d == b \o c
  <1>1. Len(s) \in Nat /\ p \in Nat /\ w \in Nat /\ p <= Len(s) /\ w <= p
    OBVIOUS
  <1>2. a \in Seq(X) /\ Len(a) = p /\ \A i \in 1 .. p : a[i] = s[i]
    BY <1>1
  <1>3. b \in Seq(X) /\ Len(b) = w /\ \A i \in 1 .. w : b[i] = s[i]
    BY <1>1
  <1>4. c \in Seq(X) /\ Len(c) = p - w /\ \A i \in 1 .. p - w : c[i] = s[w + i]
    BY <1>1
  <1> HIDE DEF a, b, c
  <1>5. /\ d \in Seq(X) /\ Len(d) = Len(b) + Len(c)
        /\ \A i \in 1 .. Len(b) : d[i] = b[i]
        /\ \A i \in 1 .. Len(c) : d[Len(b) + i] = c[i]
    <2>1. b \in Seq(X) /\ c \in Seq(X)
      BY <1>3, <1>4
    <2> QED  BY ONLY <2>1, JoinAt
  <1> HIDE DEF d
  <1>6. Len(d) = p
    BY <1>1, <1>3, <1>4, <1>5
  <1>7. \A i \in 1 .. p : d[i] = a[i]
    <2> TAKE i \in 1 .. p
    <2>1. CASE i <= w
      <3>1. i \in 1 .. w /\ i \in 1 .. Len(b)
        BY <1>1, <1>3, <2>1
      <3> QED  BY <1>2, <1>3, <1>5, <3>1
    <2>2. CASE i > w
      <3>1. i - w \in 1 .. p - w /\ w + (i - w) = i /\ i - w \in 1 .. Len(c) /\ Len(b) + (i - w) = i
        BY <1>1, <1>3, <1>4, <2>2
      <3>2. d[i] = c[i - w] /\ c[i - w] = s[i]
        BY <1>4, <1>5, <3>1
      <3> QED  BY <1>2, <3>2
    <2> QED  BY <1>1, <2>1, <2>2
  <1>8. a = d
    BY <1>2, <1>5, <1>6, <1>7
  <1> QED  BY <1>2, <1>3, <1>4, <1>8 DEF IsJoin, a, b, c, d

LEMMA PartsOverlap ==
    ASSUME NEW X, NEW s \in Seq(X), NEW p \in 0 .. Len(s), NEW w \in 0 .. p
    PROVE  /\ Overlapping(X, s, SubSeq(s, 1, p), SubSeq(s, w + 1, Len(s)))
           /\ SubSeq(s, 1, p) \in Seq(X)
  <1> DEFINE n == Len(s)
  <1>1. n \in Nat /\ n \in 0 .. n /\ p \in 0 .. n /\ w \in 0 .. n
    OBVIOUS
  <1>2. SubSeq(s, 1, n) = s
    OBVIOUS
  <1> DEFINE a == SubSeq(s, 1, p)
             b == SubSeq(s, w + 1, n)
             rest == SubSeq(s, p + 1, n)
             before == SubSeq(s, 1, w)
             between == SubSeq(s, w + 1, p)
             all == SubSeq(s, 1, n)
  <1>3. a \in Seq(X) /\ rest \in Seq(X) /\ IsJoin(all, a, rest)
    BY <1>1, SplitIs
  <1>4. before \in Seq(X) /\ b \in Seq(X) /\ IsJoin(all, before, b)
    BY <1>1, SplitIs
  <1>5. between \in Seq(X) /\ IsJoin(a, before, between)
    BY SplitIs
  <1> HIDE DEF a, b, rest, before, between, all
  <1>6. Overlapping(X, all, a, b)
    BY <1>3, <1>4, <1>5 DEF Overlapping
  <1> QED  BY <1>2, <1>3, <1>6 DEF a, b, all, n

\* Keep takes nothing where there is nothing to take.
LEMMA KeepNone ==
    ASSUME NEW X, NEW s \in Seq(X), NEW S, \A i \in 1 .. Len(s) : s[i] \notin S
    PROVE  Keep(s, S) = <<>>
  <1> DEFINE r == Keep(s, S)
  <1>1. r \in Seq(X) /\ \E place : IsPlaces(s, S, Len(s), r, place)
    BY KeepPlaces
  <1> HIDE DEF r
  <1>2. PICK place : IsPlaces(s, S, Len(s), r, place)
    BY <1>1
  <1>3. Len(r) \in Nat
    BY <1>1
  <1>4. CASE Len(r) # 0
    <2>1. 1 \in 1 .. Len(r)
      BY <1>3, <1>4
    <2>2. r[1] = s[place[1]] /\ r[1] \in S /\ place[1] \in 1 .. Len(s)
      BY <1>2, <2>1 DEF IsPlaces
    <2> QED  BY <2>2
  <1>5. CASE Len(r) = 0
    BY <1>1, <1>5 DEF r
  <1> QED  BY <1>4, <1>5

\* A message of another kind adds no value.
LEMMA ValuesSkip ==
    ASSUME NEW X, NEW s \in Seq(X), NEW m \in X, NEW kind, m.kind # kind, NEW V,
           \A x \in X : x.kind = kind => x.value \in V
    PROVE  ValuesOf(Append(s, m), kind) = ValuesOf(s, kind)
  <1> DEFINE t == <<m>>
             B == {x \in ToSet(t) : x.kind = kind}
             all == Append(s, m)
  <1>1. t \in Seq(X) /\ Len(t) = 1 /\ t[1] = m
    OBVIOUS
  <1>2. IsJoin(all, s, t)
    BY DEF IsJoin
  <1>3. ValuesOf(t, kind) = <<>>
    <2>1. \A i \in 1 .. Len(t) : t[i] \notin B
      BY <1>1
    <2>2. ValuesOf(t, kind) = [i \in DOMAIN Keep(t, B) |-> Keep(t, B)[i].value]
      BY DEF ValuesOf
    <2> HIDE DEF t, B
    <2>3. Keep(t, B) = <<>>
      BY <1>1, <2>1, KeepNone
    <2> QED  BY <2>2, <2>3
  <1> HIDE DEF all, t
  <1>4. IsJoin(ValuesOf(all, kind), ValuesOf(s, kind), ValuesOf(t, kind))
    BY <1>1, <1>2, ValuesJoin
  <1>5. ValuesOf(s, kind) \in Seq(V)
    BY ValuesIs
  <1>6. ValuesOf(s, kind) \o <<>> = ValuesOf(s, kind)
    BY <1>5
  <1> QED  BY <1>3, <1>4, <1>6 DEF IsJoin, all

\* An empty session carries nothing.
LEMMA NothingCarried == Carries(<<>>, NoValues)
  <1>1. \A kind : ValuesOf(<<>>, kind) = <<>>
    <2> TAKE kind
    <2> DEFINE A == {m \in ToSet(<<>>) : m.kind = kind}
    <2>1. ValuesOf(<<>>, kind) = [i \in DOMAIN Keep(<<>>, A) |-> Keep(<<>>, A)[i].value]
      BY DEF ValuesOf
    <2> HIDE DEF A
    <2>2. <<>> \in Seq(Nat) /\ \A i \in 1 .. Len(<<>>) : <<>>[i] \notin A
      OBVIOUS
    <2>3. Keep(<<>>, A) = <<>>
      BY <2>2, KeepNone
    <2> QED  BY <2>1, <2>3
  <1>2. \A status : Outcomes(<<>>, status) = <<>>
    <2> TAKE status
    <2> DEFINE A == {e \in Results : e.status = status}
    <2>1. Outcomes(<<>>, status) = [i \in DOMAIN Keep(<<>>, A) |-> <<Keep(<<>>, A)[i].tool, Keep(<<>>, A)[i].text>>]
      BY DEF Outcomes
    <2> HIDE DEF A
    <2>2. <<>> \in Seq(Nat) /\ \A i \in 1 .. Len(<<>>) : <<>>[i] \notin A
      OBVIOUS
    <2>3. Keep(<<>>, A) = <<>>
      BY <2>2, KeepNone
    <2> QED  BY <2>1, <2>3
  <1>3. RulesOf(<<>>) = <<>>
    <2> DEFINE none == <<>>
               u == [i \in DOMAIN none |-> RuleIn[none[i]]]
    <2>1. u = <<>> /\ <<>> \in Seq(Seq(Nat)) /\ Len(<<>>) = 0
      OBVIOUS
    <2>2. RulesOf(<<>>) = FlattenSeq(u)
      BY DEF RulesOf
    <2> HIDE DEF u
    <2>3. \E f : Flattens(Nat, <<>>, f)
      BY <2>1, FlattenRecursion
    <2>4. FlattenSeq(<<>>) = <<>>
      BY <2>1, <2>3 DEF Flattens
    <2> QED  BY <2>1, <2>2, <2>4
  <1>4. \A l \in Nat : LastOf(<<>>, l) = <<>>
    <2> TAKE l \in Nat
    <2> DEFINE s == <<>>
    <2>1. s \in Seq(Nat) /\ Len(s) = 0
      OBVIOUS
    <2>2. AtMost(l, Len(s)) = 0
      BY <2>1 DEF AtMost
    <2> DEFINE r == LastOf(s, l)
    <2>3. r \in Seq(Nat) /\ Len(r) = AtMost(l, Len(s))
      BY <2>1, LastOfAt
    <2> HIDE DEF r, s
    <2>4. r = <<>>
      BY <2>2, <2>3
    <2> QED  BY <2>4 DEF r, s
  <1>5. /\ Min({RequestTurns, Limits.recent_requests}) \in Nat /\ Limits.constraints \in Nat
        /\ Limits.evidence \in Nat /\ Limits.errors \in Nat
    <2>1. RequestTurns \in Nat /\ Limits.recent_requests \in Nat
      BY LimitsAre
    <2> QED  BY <2>1, LimitsAre, MinIs
  <1>6. /\ NoValues.recent_requests = <<>> /\ NoValues.constraints = <<>>
        /\ NoValues.evidence = <<>> /\ NoValues.errors = <<>>
    BY LimitsAre DEF NoValues
  <1> QED  BY <1>1, <1>2, <1>3, <1>4, <1>5, <1>6 DEF Carries, LastWhenOnce

----------------------------------------------------------------------------
(* The chain of ledgers: every ledger in the session carries what came before it. *)

Summaries(ms) == {i \in DOMAIN ms : ms[i].kind = "summary"}
\* The messages between a position and the summary before it.
Gap(ms, j) == j - 1 - Max({i \in Summaries(ms) : i < j} \cup {0})
OverlapsUpTo(ms, n) == \A j \in Summaries(ms) : j <= n => Gap(ms, j) <= LedgerWindow

ChainSound(ms) ==
    \A i \in Summaries(ms) : OverlapsUpTo(ms, i) => Carries(SubSeq(ms, 1, i), ms[i].value)

LEMMA OverlapsAre ==
    ASSUME LedgerInv, WindowsOverlap
    PROVE  /\ \A n \in Nat : OverlapsUpTo(messages, n)
           /\ Gap(messages, Len(messages) + 1) <= LedgerWindow
  <1>1. Trusted = Summaries(messages)
    BY DEF Trusted, Summaries
  <1>2. \A j \in Trusted \cup {Len(messages) + 1} : Gap(messages, j) <= LedgerWindow
    BY <1>1 DEF WindowsOverlap, Gap
  <1> QED  BY <1>1, <1>2 DEF OverlapsUpTo

\* A message more changes nothing of the ones before.
LEMMA AppendKeeps ==
    ASSUME NEW X, NEW ms \in Seq(X), NEW m \in X
    PROVE  LET new == Append(ms, m) IN
           /\ new \in Seq(X) /\ Len(new) = Len(ms) + 1 /\ new[Len(ms) + 1] = m
           /\ \A i \in 1 .. Len(ms) : new[i] = ms[i] /\ SubSeq(new, 1, i) = SubSeq(ms, 1, i)
           /\ SubSeq(new, 1, Len(ms) + 1) = new
           /\ Summaries(ms) \subseteq 1 .. Len(ms)
           /\ Summaries(new) = Summaries(ms) \cup {i \in {Len(ms) + 1} : m.kind = "summary"}
           /\ \A j \in 1 .. Len(ms) + 1 : Gap(new, j) = Gap(ms, j)
  <1> DEFINE new == Append(ms, m)
             n == Len(ms)
  <1>1. n \in Nat /\ new \in Seq(X) /\ Len(new) = n + 1 /\ new[n + 1] = m /\ \A i \in 1 .. n : new[i] = ms[i]
    OBVIOUS
  <1>2. DOMAIN ms = 1 .. n /\ DOMAIN new = 1 .. n + 1
    BY <1>1
  <1> HIDE DEF new, n
  <1>3. \A i \in 1 .. n : SubSeq(new, 1, i) = SubSeq(ms, 1, i)
    <2> TAKE i \in 1 .. n
    <2> DEFINE a == SubSeq(new, 1, i)
               b == SubSeq(ms, 1, i)
    <2>1. i \in Nat /\ i <= n /\ i <= Len(new) /\ Len(new) \in Nat
      BY <1>1
    <2>2. a \in Seq(X) /\ Len(a) = i /\ \A k \in 1 .. i : a[k] = new[k]
      BY <1>1, <2>1
    <2>3. b \in Seq(X) /\ Len(b) = i /\ \A k \in 1 .. i : b[k] = ms[k]
      BY <1>1, <2>1 DEF n
    <2>4. \A k \in 1 .. i : a[k] = b[k]
      BY <1>1, <2>1, <2>2, <2>3
    <2> HIDE DEF a, b
    <2>5. a = b
      BY <2>2, <2>3, <2>4
    <2> QED  BY <2>5 DEF a, b
  <1>4. SubSeq(new, 1, n + 1) = new
    <2>1. SubSeq(new, 1, Len(new)) = new
      BY <1>1
    <2> QED  BY <1>1, <2>1
  <1>5. Summaries(ms) \subseteq 1 .. n
    BY <1>2 DEF Summaries
  <1>6. Summaries(new) = Summaries(ms) \cup {i \in {n + 1} : m.kind = "summary"}
    <2>1. \A i : i \in 1 .. n + 1 <=> i \in 1 .. n \/ i = n + 1
      BY <1>1
    <2>2. n + 1 \notin 1 .. n
      BY <1>1
    <2> QED  BY <1>1, <1>2, <2>1, <2>2 DEF Summaries
  <1>7. \A j \in 1 .. n + 1 : Gap(new, j) = Gap(ms, j)
    <2> TAKE j \in 1 .. n + 1
    <2>1. {i \in Summaries(new) : i < j} = {i \in Summaries(ms) : i < j}
      BY <1>1, <1>6
    <2> QED  BY <2>1 DEF Gap
  <1> QED  BY <1>1, <1>3, <1>4, <1>5, <1>6, <1>7 DEF new, n

LEMMA ChainGrows ==
    ASSUME NEW X, NEW ms \in Seq(X), NEW m \in X, ChainSound(ms),
           m.kind = "summary" /\ OverlapsUpTo(ms, Len(ms)) /\ Gap(ms, Len(ms) + 1) <= LedgerWindow
             => Carries(Append(ms, m), m.value)
    PROVE  ChainSound(Append(ms, m))
  <1> DEFINE new == Append(ms, m)
             n == Len(ms)
  <1>1. /\ n \in Nat /\ new[n + 1] = m
        /\ \A i \in 1 .. n : new[i] = ms[i] /\ SubSeq(new, 1, i) = SubSeq(ms, 1, i)
        /\ SubSeq(new, 1, n + 1) = new
        /\ Summaries(ms) \subseteq 1 .. n
        /\ Summaries(new) = Summaries(ms) \cup {i \in {n + 1} : m.kind = "summary"}
        /\ \A j \in 1 .. n + 1 : Gap(new, j) = Gap(ms, j)
    BY AppendKeeps
  <1> HIDE DEF new, n
  <1>2. SUFFICES ASSUME NEW i \in Summaries(new), OverlapsUpTo(new, i)
                 PROVE  Carries(SubSeq(new, 1, i), new[i].value)
    BY DEF ChainSound, new
  <1>3. \A j \in 1 .. n : j \in 1 .. n + 1
    BY <1>1
  <1>4. i \in Nat /\ OverlapsUpTo(ms, i)
    <2>1. i \in Nat
      BY <1>1
    <2> QED  BY <1>1, <1>2, <1>3, <2>1 DEF OverlapsUpTo
  <1>5. CASE i \in Summaries(ms)
    <2>1. Carries(SubSeq(ms, 1, i), ms[i].value)
      BY <1>4, <1>5 DEF ChainSound
    <2> QED  BY <1>1, <1>5, <2>1
  <1>6. CASE i = n + 1 /\ m.kind = "summary"
    <2>1. OverlapsUpTo(ms, n)
      BY <1>1, <1>4, <1>6 DEF OverlapsUpTo
    <2>2. Gap(ms, n + 1) <= LedgerWindow
      <3>1. n + 1 \in Summaries(new) /\ n + 1 <= i /\ n + 1 \in 1 .. n + 1
        BY <1>1, <1>6
      <3>2. Gap(new, n + 1) <= LedgerWindow
        BY <1>2, <3>1 DEF OverlapsUpTo
      <3> QED  BY <1>1, <3>1, <3>2
    <2>3. Carries(new, m.value)
      BY <1>6, <2>1, <2>2 DEF new, n
    <2> QED  BY <1>1, <1>6, <2>3
  <1> QED  BY <1>1, <1>5, <1>6

\* The ledger of a compaction carries the whole session when those before it do.
LEMMA CompactionCarries ==
    ASSUME LedgerInv, ChainSound(messages), OverlapsUpTo(messages, Len(messages)),
           Gap(messages, Len(messages) + 1) <= LedgerWindow
    PROVE  Carries(messages, Merged)
  <1> DEFINE X == ToSet(messages)
             n == Len(messages)
             T == Summaries(messages)
             p == PriorPosition
             q == AtMost(LedgerWindow, n)
             w == n - q
             a == SubSeq(messages, 1, p)
  <1>1. messages \in Seq(X) /\ n \in Nat /\ DOMAIN messages = 1 .. n
    BY DEF LedgerInv, IsSeq
  <1>2. T \subseteq 1 .. n /\ T = Trusted
    BY <1>1 DEF Summaries, Trusted
  <1>3. p \in T \cup {0} /\ p \in 0 .. n
    <2>1. T \cup {0} \in SUBSET (0 .. n) /\ T \cup {0} # {}
      BY <1>1, <1>2
    <2>2. Max(T \cup {0}) \in T \cup {0}
      BY <1>1, <2>1, BoundedMax
    <2> QED  BY <1>2, <2>1, <2>2 DEF PriorPosition
  <1>4. n - p <= LedgerWindow
    <2>1. {i \in T : i < n + 1} = T
      BY <1>1, <1>2
    <2>2. Gap(messages, n + 1) = ((n + 1) - 1) - p
      BY <1>2, <2>1 DEF Gap, PriorPosition
    <2>3. ((n + 1) - 1) - p = n - p
      BY <1>1, <1>3
    <2> QED  BY <2>2, <2>3
  <1>5. q \in Nat /\ q <= n /\ w \in 0 .. p
    <2>1. LedgerWindow \in Nat
      BY LimitsAre
    <2> HIDE DEF n, p
    <2> QED  BY <1>1, <1>3, <1>4, <2>1 DEF AtMost
  <1>6. Window = SubSeq(messages, w + 1, n)
    <2>1. Min({LedgerWindow, n}) = q
      BY <1>1, LimitsAre, MinIs DEF AtMost
    <2> QED  BY <2>1 DEF Window, LastOf
  <1>7. a \in Seq(X) /\ Overlapping(X, messages, a, Window)
    <2> HIDE DEF X, w, p
    <2> QED  BY <1>1, <1>3, <1>5, <1>6, PartsOverlap
  <1>8. Carries(a, Prior)
    <2>1. CASE p = 0
      <3>1. a = <<>> /\ Prior = NoValues
        BY <1>1, <2>1 DEF Prior
      <3> HIDE DEF a
      <3> QED  BY <3>1, NothingCarried
    <2>2. CASE p # 0
      <3>1. p \in T /\ Prior = messages[p].value
        BY <1>3, <2>2 DEF Prior
      <3>2. OverlapsUpTo(messages, p)
        <4>1. \A j \in T : j <= n
          BY <1>1, <1>2
        <4> QED  BY <4>1 DEF OverlapsUpTo
      <3> QED  BY <3>1, <3>2 DEF ChainSound
    <2> QED  BY <2>1, <2>2
  <1> HIDE DEF a, X
  <1> QED  BY <1>7, <1>8, MergedCarries DEF X

\* A summary adds nothing to what has to be carried.
LEMMA SummaryCarries ==
    ASSUME NEW X, NEW ms \in Seq(X), \A x \in X : MessageIs(x), NEW m \in X, m.kind = "summary",
           Carries(ms, m.value)
    PROVE  Carries(Append(ms, m), m.value)
  <1>1. ValuesOf(Append(ms, m), "user") = ValuesOf(ms, "user")
    <2>1. (\A x \in X : x.kind = "user" => x.value \in Requests) /\ m.kind # "user"
      BY DEF MessageIs
    <2> QED  BY <2>1, ValuesSkip
  <1>2. ValuesOf(Append(ms, m), "tool") = ValuesOf(ms, "tool")
    <2>1. (\A x \in X : x.kind = "tool" => x.value \in Results) /\ m.kind # "tool"
      BY DEF MessageIs
    <2> QED  BY <2>1, ValuesSkip
  <1> QED  BY <1>1, <1>2 DEF Carries

----------------------------------------------------------------------------
(* The todos of a ledger. *)

TodoIs(t) == t.id \in TodoIDs
TodosKnown(s) == \A t \in ToSet(s) : TodoIs(t)

\* The todos of a set, in the order of their ids; what is left out has a larger id than all.
LEMMA SortedIs ==
    ASSUME NEW ts, IsFiniteSet(ts), \A t \in ts : t.id \in Nat
    PROVE  LET s == SortedBounded(ts)
               l == Limits.todos IN
           /\ s \in Seq(ts) /\ Len(s) <= l
           /\ \A i, j \in 1 .. Len(s) : i < j => s[i].id < s[j].id
           /\ \A t \in ts : \/ \E i \in 1 .. Len(s) : s[i].id = t.id
                            \/ Len(s) = l /\ \A i \in 1 .. Len(s) : s[i].id < t.id
  <1> DEFINE A == {t.id : t \in ts}
             g == [t \in ts |-> t.id]
             n == Cardinality(A)
             ids == Ascending(A)
             pick(k) == CHOOSE t \in ts : t.id = k
             r == [i \in DOMAIN ids |-> pick(ids[i])]
             l == Limits.todos
             s == FirstOf(r, l)
  <1>1. IsFiniteSet(A) /\ A \in SUBSET Nat
    <2>1. A = {g[t] : t \in ts} /\ DOMAIN g = ts
      OBVIOUS
    <2>2. A \in SUBSET Nat
      OBVIOUS
    <2> HIDE DEF g, A
    <2>3. IsFiniteSet({g[t] : t \in ts})
      BY <2>1, ImageFinite
    <2> QED  BY <2>1, <2>2, <2>3
  <1>2. \A k \in A : pick(k) \in ts /\ pick(k).id = k
    OBVIOUS
  <1>3. \A t \in ts : t.id \in A
    OBVIOUS
  <1> HIDE DEF A
  <1>4. /\ ids \in [1 .. n -> A] /\ n \in Nat
        /\ \A x \in A : \E i \in 1 .. n : ids[i] = x
        /\ \A i, j \in 1 .. n : i < j => ids[i] < ids[j]
    BY <1>1, AscendingIs
  <1> HIDE DEF n, ids, pick
  <1>5. r \in Seq(ts) /\ Len(r) = n /\ \A i \in 1 .. n : r[i].id = ids[i] /\ ids[i] \in Nat
    <2>1. r = [i \in 1 .. n |-> pick(ids[i])]
      BY <1>4
    <2>2. \A i \in 1 .. n : ids[i] \in A /\ pick(ids[i]) \in ts /\ pick(ids[i]).id = ids[i]
      BY <1>2, <1>4
    <2> HIDE DEF r
    <2> QED  BY <1>1, <1>4, <2>1, <2>2
  <1>6. l \in Nat
    BY LimitsAre
  <1> HIDE DEF r, l
  <1> DEFINE m == AtMost(l, n)
  <1>7. s \in Seq(ts) /\ Len(s) = m /\ m \in Nat /\ m <= n /\ m <= l /\ (m < n => m = l)
        /\ \A i \in 1 .. m : s[i] = r[i]
    <2>1. s \in Seq(ts) /\ Len(s) = m /\ m \in Nat /\ m <= n /\ \A i \in 1 .. m : s[i] = r[i]
      BY <1>5, <1>6, FirstOfAt
    <2>2. m <= l /\ (m < n => m = l)
      BY <1>4, <1>6 DEF AtMost
    <2> QED  BY <2>1, <2>2
  <1> HIDE DEF s, m
  <1>8. \A i \in 1 .. m : i \in 1 .. n /\ s[i].id = ids[i]
    BY <1>4, <1>5, <1>7
  <1>9. \A i, j \in 1 .. m : i < j => s[i].id < s[j].id
    <2> SUFFICES ASSUME NEW i \in 1 .. m, NEW j \in 1 .. m, i < j PROVE s[i].id < s[j].id
      OBVIOUS
    <2>1. ids[i] < ids[j]
      BY <1>4, <1>8
    <2> QED  BY <1>8, <2>1
  <1>10. ASSUME NEW t \in ts
         PROVE  \/ \E i \in 1 .. m : s[i].id = t.id
                \/ m = l /\ \A i \in 1 .. m : s[i].id < t.id
    <2>1. PICK k \in 1 .. n : ids[k] = t.id
      BY <1>3, <1>4
    <2>2. CASE k <= m
      <3>1. k \in 1 .. m
        BY <1>7, <2>2
      <3> QED  BY <1>8, <2>1, <3>1
    <2>3. CASE k > m
      <3>1. m = l
        BY <1>4, <1>7, <2>3
      <3>2. \A i \in 1 .. m : i < k /\ i \in 1 .. n
        BY <1>7, <1>8, <2>3
      <3>3. \A i \in 1 .. m : ids[i] < ids[k]
        BY <1>4, <3>2
      <3> QED  BY <1>8, <2>1, <3>1, <3>3
    <2> QED  BY <1>7, <2>2, <2>3
  <1>11. SortedBounded(ts) = s
    BY DEF SortedBounded, s, r, l, ids, A, pick
  <1> QED  BY <1>7, <1>9, <1>10, <1>11 DEF l

\* Of two lists of todos in order, the one that holds all ids of the other is not behind.
LEMMA NotBehind ==
    ASSUME NEW X, NEW s \in Seq(X), NEW t \in Seq(X), NEW n \in Nat, n <= Len(s), n <= Len(t),
           \A x \in X : x.id \in Nat,
           \A i, j \in 1 .. Len(s) : i < j => s[i].id < s[j].id,
           \A i, j \in 1 .. Len(t) : i < j => t[i].id < t[j].id,
           \A i \in 1 .. n : \E j \in 1 .. Len(t) : t[j].id = s[i].id
    PROVE  \A i \in 1 .. n : t[i].id <= s[i].id
  <1> DEFINE a == Len(s)
             b == Len(t)
             f == [i \in 1 .. a |-> s[i].id]
             g == [i \in 1 .. b |-> t[i].id]
  <1>1. a \in Nat /\ b \in Nat /\ n <= a /\ n <= b
    OBVIOUS
  <1>2. /\ f \in [1 .. a -> Nat] /\ \A i, j \in 1 .. a : i < j => f[i] < f[j]
        /\ g \in [1 .. b -> Nat] /\ \A i, j \in 1 .. b : i < j => g[i] < g[j]
    OBVIOUS
  <1>3. /\ \A i \in 1 .. a : f[i] = s[i].id
        /\ \A i \in 1 .. b : g[i] = t[i].id
    OBVIOUS
  <1>4. \A i \in 1 .. n : i \in 1 .. a /\ i \in 1 .. b
    BY <1>1
  <1>5. \A i \in 1 .. n : \E j \in 1 .. b : g[j] = f[i]
    BY <1>3, <1>4
  <1> HIDE DEF f, g, a, b
  <1> DEFINE S == {k \in 0 .. n : k = 0 \/ g[k] <= f[k]}
  <1>6. 0 \in S
    OBVIOUS
  <1>7. ASSUME NEW k \in 0 .. n, k < n, k \in S
        PROVE  k + 1 \in S
    <2>1. k + 1 \in 1 .. n /\ k + 1 \in 1 .. a /\ k + 1 \in 1 .. b /\ k + 1 \in 0 .. n
      BY <1>1, <1>7
    <2>2. PICK j \in 1 .. b : g[j] = f[k + 1]
      BY <1>5, <2>1
    <2>3. j >= k + 1
      <3> SUFFICES ASSUME j <= k PROVE FALSE
        BY <2>1
      <3>1. k \in 1 .. n /\ k \in 1 .. a /\ k \in 1 .. b /\ g[k] <= f[k]
        BY <1>1, <1>7
      <3>2. g[j] <= g[k]
        <4>1. Increases(b, g)
          BY <1>2 DEF Increases
        <4> QED  BY <1>1, <3>1, <4>1, Rises
      <3>3. f[k] < f[k + 1]
        BY <1>2, <2>1, <3>1
      <3> DEFINE x == g[j] y == g[k] u == f[k] v == f[k + 1]
      <3>4. x \in Nat /\ y \in Nat /\ u \in Nat /\ v \in Nat
        BY <1>2, <2>1, <3>1
      <3>5. x = v /\ x <= y /\ y <= u /\ u < v
        BY <2>2, <3>1, <3>2, <3>3
      <3> HIDE DEF x, y, u, v
      <3> QED  BY <3>4, <3>5
    <2>4. g[k + 1] <= g[j]
      <3>1. Increases(b, g)
        BY <1>2 DEF Increases
      <3> QED  BY <1>1, <2>1, <2>3, <3>1, Rises
    <2> QED  BY <2>1, <2>2, <2>4
  <1>8. 0 .. n \subseteq S
    <2> HIDE DEF S
    <2> QED  BY <1>6, <1>7, InductiveUpTo
  <1>9. ASSUME NEW i \in 1 .. n PROVE t[i].id <= s[i].id
    <2>1. i \in S /\ i # 0
      BY <1>8
    <2>2. g[i] <= f[i]
      BY <2>1
    <2> QED  BY <1>3, <1>4, <2>2
  <1> QED  BY <1>9

\* A todo that the session lists and that its bounded list leaves out comes after all of
\* that list; so the merge leaves it out, too.
LEMMA ListedWins ==
    ASSUME NEW old, IsSeq(old), TodosKnown(old), NEW t \in ToSet(MergeTodos(old, ListedTodos))
    PROVE  TodoIs(t) /\ todos[t.id] \in {t.status, "absent"}
  <1> DEFINE listed == {[id |-> i, status |-> todos[i]] : i \in {j \in TodoIDs : todos[j] # "absent"}}
             new == ListedTodos
             left == {x \in ToSet(old) : \A u \in ToSet(new) : u.id # x.id}
             all == ToSet(new) \cup left
             d == MergeTodos(old, new)
             l == Limits.todos
  <1>1. /\ IsFiniteSet(listed)
        /\ \A x \in listed : x.id \in TodoIDs /\ x.status = todos[x.id]
        /\ \A i \in TodoIDs : todos[i] # "absent" => \E x \in listed : x.id = i
    <2> DEFINE A == {j \in TodoIDs : todos[j] # "absent"}
               g == [i \in A |-> [id |-> i, status |-> todos[i]]]
    <2>1. IsFiniteSet(A)
      <3>1. A \in SUBSET TodoIDs
        OBVIOUS
      <3> HIDE DEF A
      <3> QED  BY <3>1, LedgerAssumption, FS_Subset
    <2>2. DOMAIN g = A /\ listed = {g[i] : i \in A}
      OBVIOUS
    <2>3. IsFiniteSet(listed)
      <3> HIDE DEF g, A, listed
      <3> QED  BY <2>1, <2>2, ImageFinite
    <2>4. \A x \in listed : x.id \in TodoIDs /\ x.status = todos[x.id]
      OBVIOUS
    <2>5. \A i \in TodoIDs : todos[i] # "absent" => \E x \in listed : x.id = i
      <3> TAKE i \in TodoIDs
      <3> HAVE todos[i] # "absent"
      <3> WITNESS [id |-> i, status |-> todos[i]] \in listed
      <3> QED  OBVIOUS
    <2> HIDE DEF listed
    <2> QED  BY <2>3, <2>4, <2>5
  <1>2. new = SortedBounded(listed)
    BY DEF ListedTodos
  <1>3. TodoIDs \subseteq Nat /\ l \in Nat
    BY LimitsAre, LedgerAssumption
  <1> HIDE DEF listed, l
  <1>4. /\ new \in Seq(listed) /\ Len(new) <= l
        /\ \A i, j \in 1 .. Len(new) : i < j => new[i].id < new[j].id
        /\ \A x \in listed : \/ \E i \in 1 .. Len(new) : new[i].id = x.id
                             \/ Len(new) = l /\ \A i \in 1 .. Len(new) : new[i].id < x.id
    <2>1. \A x \in listed : x.id \in Nat
      BY <1>1, <1>3
    <2> QED  BY <1>1, <1>2, <2>1, SortedIs DEF l
  <1> HIDE DEF new
  <1>5. ToSet(new) \subseteq listed /\ IsSeq(new) /\ \A i \in 1 .. Len(new) : new[i] \in ToSet(new)
    BY <1>4, SeqIs DEF ToSet
  <1>6. IsFiniteSet(all) /\ \A x \in all : x.id \in TodoIDs /\ x.id \in Nat
    <2>1. IsFiniteSet(ToSet(new)) /\ IsFiniteSet(ToSet(old)) /\ left \in SUBSET ToSet(old)
      BY <1>5, ValuesFinite
    <2>2. \A x \in ToSet(old) : x.id \in TodoIDs
      BY DEF TodosKnown, TodoIs
    <2>3. \A x \in all : x.id \in TodoIDs
      BY <1>1, <1>5, <2>2
    <2> HIDE DEF left
    <2>4. IsFiniteSet(left)
      BY <2>1, FS_Subset
    <2>5. IsFiniteSet(all)
      BY <2>1, <2>4, FS_Union
    <2> QED  BY <1>3, <2>3, <2>5
  <1>7. d = SortedBounded(all)
    BY DEF MergeTodos
  <1> HIDE DEF all, d
  <1>8. /\ d \in Seq(all) /\ Len(d) <= l
        /\ \A i, j \in 1 .. Len(d) : i < j => d[i].id < d[j].id
        /\ \A x \in all : \/ \E i \in 1 .. Len(d) : d[i].id = x.id
                          \/ Len(d) = l /\ \A i \in 1 .. Len(d) : d[i].id < x.id
    BY <1>6, <1>7, SortedIs DEF l
  <1>9. PICK k \in 1 .. Len(d) : d[k] = t
    <2>1. t \in ToSet(d)
      BY DEF d, new
    <2> QED  BY <1>8, <2>1 DEF ToSet
  <1>10. t \in all /\ t.id \in TodoIDs /\ t.id \in Nat
    BY <1>6, <1>8, <1>9
  <1>11. CASE t \in ToSet(new)
    BY <1>1, <1>5, <1>10, <1>11 DEF TodoIs
  <1>12. CASE t \in left /\ todos[t.id] # "absent"
    <2>1. PICK x \in listed : x.id = t.id
      BY <1>1, <1>10, <1>12
    <2>2. \A i \in 1 .. Len(new) : new[i].id # t.id
      BY <1>5, <1>12
    <2>3. Len(new) = l /\ \A i \in 1 .. Len(new) : new[i].id < t.id
      BY <1>4, <2>1, <2>2
    <2>4. \A i \in 1 .. l : \E j \in 1 .. Len(d) : d[j].id = new[i].id
      <3> TAKE i \in 1 .. l
      <3>1. new[i] \in all /\ new[i].id < t.id /\ new[i].id \in Nat
        <4>1. new[i] \in ToSet(new)
          BY <1>5, <2>3
        <4>2. new[i] \in all
          BY <4>1 DEF all
        <4> QED  BY <1>6, <2>3, <4>2
      <3>2. ~(d[k].id < new[i].id)
        BY <1>9, <1>10, <3>1
      <3> QED  BY <1>8, <3>1, <3>2
    <2>5. k \in Nat /\ k <= Len(new) /\ k <= Len(d) /\ k \in 1 .. l /\ k \in 1 .. k
      <3> DEFINE n == Len(d)
      <3>1. n \in Nat /\ n <= l /\ k \in 1 .. n
        BY <1>8
      <3> HIDE DEF n
      <3>2. k \in Nat /\ k <= l /\ k <= n /\ k \in 1 .. l /\ k \in 1 .. k
        BY <1>3, <3>1
      <3> QED  BY <2>3, <3>2 DEF n
    <2>6. \A i \in 1 .. k : \E j \in 1 .. Len(d) : d[j].id = new[i].id
      BY <1>3, <2>4, <2>5
    <2>7. new \in Seq(all)
      <3>1. \A i \in 1 .. Len(new) : new[i] \in all
        BY <1>5 DEF all
      <3> QED  BY <1>4, <3>1
    <2>8. d[k].id <= new[k].id
      <3>1. \A i \in 1 .. k : d[i].id <= new[i].id
        BY <1>4, <1>6, <1>8, <2>5, <2>6, <2>7, NotBehind
      <3> QED  BY <2>5, <3>1
    <2>9. new[k].id < t.id /\ new[k].id \in Nat
      <3>1. k \in 1 .. Len(new)
        BY <2>3, <2>5
      <3>2. new[k] \in all
        BY <1>5, <3>1 DEF all
      <3> QED  BY <1>6, <2>3, <3>1, <3>2
    <2> QED  BY <1>9, <1>10, <2>8, <2>9
  <1> QED  BY <1>10, <1>11, <1>12 DEF all, TodoIs

LEMMA SuffixValues ==
    ASSUME NEW s, IsSeq(s), NEW t, IsSeq(t), IsSuffix(s, t)
    PROVE  ToSet(s) \subseteq ToSet(t)
  <1> DEFINE X == ToSet(s)
             Y == ToSet(t)
             u == Reverse(s)
             v == Reverse(t)
             a == Len(s)
             b == Len(t)
  <1>1. s \in Seq(X) /\ t \in Seq(Y) /\ DOMAIN s = 1 .. a /\ DOMAIN t = 1 .. b /\ a \in Nat /\ b \in Nat
    BY SeqDomain DEF IsSeq
  <1> HIDE DEF X, Y
  <1>2. /\ u \in Seq(X) /\ Len(u) = a /\ \A i \in 1 .. a : u[i] = s[a - i + 1]
        /\ v \in Seq(Y) /\ Len(v) = b /\ \A i \in 1 .. b : v[i] = t[b - i + 1]
    BY <1>1, ReverseAt
  <1> HIDE DEF u, v, a, b
  <1>3. a <= b /\ SubSeq(u, 1, a) = SubSeq(v, 1, a)
    BY <1>2 DEF IsSuffix, IsPrefix, u, v
  <1>4. \A i \in 1 .. a : u[i] = v[i]
    <2> TAKE i \in 1 .. a
    <2>1. SubSeq(u, 1, a)[i] = u[i]
      BY <1>1, <1>2
    <2>2. SubSeq(v, 1, a)[i] = v[i]
      BY <1>1, <1>2, <1>3
    <2> QED  BY <1>3, <2>1, <2>2
  <1>5. \A i \in 1 .. a : \E j \in 1 .. b : s[i] = t[j]
    <2> TAKE i \in 1 .. a
    <2> DEFINE k == a - i + 1
               j == b - k + 1
    <2>1. k \in 1 .. a /\ k \in 1 .. b /\ a - k + 1 = i /\ j \in 1 .. b
      BY <1>1, <1>3
    <2> HIDE DEF k
    <2>2. s[i] = u[k] /\ v[k] = t[j]
      BY <1>2, <2>1
    <2> QED  BY <1>4, <2>1, <2>2
  <1> QED  BY <1>1, <1>5 DEF ToSet, X

ChainInv ==
    /\ LedgerInv
    /\ \A i \in Summaries(messages) : TodosKnown(messages[i].value.todos)
    /\ Ample => ChainSound(messages)

LEMMA PriorTodos ==
    ASSUME ChainInv
    PROVE  IsSeq(Prior.todos) /\ TodosKnown(Prior.todos)
  <1>1. IsData(Prior) /\ PriorPosition \in Nat
    BY PriorIsData DEF ChainInv
  <1>2. "todos" \in Sections
    BY LimitsAre
  <1>3. IsSeq(Prior.todos)
    BY <1>1, <1>2 DEF IsData
  <1>4. CASE PriorPosition = 0
    <2>1. Prior.todos = <<>>
      BY <1>2, <1>4 DEF Prior, NoValues
    <2>2. ToSet(<<>>) = {}
      BY DEF ToSet
    <2> QED  BY <1>3, <2>1, <2>2 DEF TodosKnown
  <1>5. CASE PriorPosition # 0
    <2>1. DOMAIN messages = 1 .. Len(messages) /\ Len(messages) \in Nat
      BY SeqDomain DEF ChainInv, LedgerInv
    <2>2. Trusted \cup {0} \in SUBSET (0 .. Len(messages)) /\ Trusted \cup {0} # {}
      BY <2>1 DEF Trusted
    <2>3. PriorPosition \in Trusted \cup {0}
      BY <2>1, <2>2, BoundedMax DEF PriorPosition
    <2>4. PriorPosition \in Summaries(messages)
      BY <1>5, <2>3 DEF Trusted, Summaries
    <2> QED  BY <1>3, <1>5, <2>4 DEF ChainInv, Prior
  <1> QED  BY <1>4, <1>5

LEMMA MergedTodos ==
    ASSUME ChainInv
    PROVE  \A t \in ToSet(Merged.todos) : TodoIs(t) /\ todos[t.id] \in {t.status, "absent"}
  <1>1. Merged.todos = MergeTodos(Prior.todos, ListedTodos)
    BY LimitsAre DEF Merged
  <1> DEFINE old == Prior.todos
  <1>2. IsSeq(old) /\ TodosKnown(old)
    BY PriorTodos
  <1> HIDE DEF old
  <1>3. \A t \in ToSet(MergeTodos(old, ListedTodos)) : TodoIs(t) /\ todos[t.id] \in {t.status, "absent"}
    BY <1>2, ListedWins
  <1> QED  BY <1>1, <1>3 DEF old

\* A message more keeps the chain, when a summary among them carries the session.
LEMMA ChainMessage ==
    ASSUME ChainInv, LedgerInv', NEW kind, NEW value,
           messages' = Append(messages, LedgerMessage(kind, value)), UNCHANGED budget,
           kind = "summary" => TodosKnown(value.todos),
           kind = "summary" /\ Ample /\ OverlapsUpTo(messages, Len(messages))
             /\ Gap(messages, Len(messages) + 1) <= LedgerWindow => Carries(messages, value)
    PROVE  ChainInv'
  <1> DEFINE m == LedgerMessage(kind, value)
             X == ToSet(messages')
             ms == messages
             new == Append(ms, m)
  <1>1. m.kind = kind /\ m.value = value
    BY DEF LedgerMessage
  <1>2. new \in Seq(X) /\ (\A x \in X : MessageIs(x)) /\ messages' = new
    <2>1. IsSeq(messages') /\ \A x \in ToSet(messages') : MessageIs(x)
      <3>1. IsSeq(messages)' /\ (\A x \in ToSet(messages) : MessageIs(x))'
        BY DEF LedgerInv
      <3> QED  BY <3>1
    <2> QED  BY <2>1 DEF IsSeq
  <1>3. ms \in Seq(X) /\ m \in X
    <2>1. IsSeq(ms)
      BY DEF ChainInv, LedgerInv
    <2> DEFINE Y == ToSet(ms)
    <2>2. ms \in Seq(Y) /\ Len(ms) \in Nat
      BY <2>1 DEF IsSeq
    <2> HIDE DEF Y, m, X, ms
    <2>3. /\ Len(new) = Len(ms) + 1 /\ new[Len(ms) + 1] = m
          /\ \A i \in 1 .. Len(ms) : new[i] = ms[i]
      BY <2>2
    <2> HIDE DEF new
    <2>4. \A i \in 1 .. Len(ms) + 1 : new[i] \in X
      BY <1>2, <2>3
    <2>5. \A i \in 1 .. Len(ms) : i \in 1 .. Len(ms) + 1
      BY <2>2
    <2>6. \A i \in 1 .. Len(ms) : ms[i] \in X
      BY <2>3, <2>4, <2>5
    <2>7. Len(ms) + 1 \in 1 .. Len(ms) + 1
      BY <2>2
    <2> QED  BY <2>2, <2>3, <2>4, <2>6, <2>7
  <1> HIDE DEF m, X
  <1>4. /\ \A i \in 1 .. Len(ms) : new[i] = ms[i]
        /\ Summaries(ms) \subseteq 1 .. Len(ms) /\ new[Len(ms) + 1] = m
        /\ Summaries(new) = Summaries(ms) \cup {i \in {Len(ms) + 1} : m.kind = "summary"}
    BY <1>3, AppendKeeps
  <1>5. \A i \in Summaries(new) : TodosKnown(new[i].value.todos)
    <2> TAKE i \in Summaries(new)
    <2>1. CASE i \in Summaries(ms)
      <3>1. TodosKnown(ms[i].value.todos) /\ new[i] = ms[i]
        BY <1>4, <2>1 DEF ChainInv
      <3> HIDE DEF new, ms
      <3> QED  BY <3>1
    <2>2. CASE i = Len(ms) + 1 /\ m.kind = "summary"
      <3>1. new[i] = m /\ TodosKnown(m.value.todos)
        BY <1>1, <1>4, <2>2
      <3> HIDE DEF new, ms
      <3> QED  BY <3>1
    <2> HIDE DEF new, ms
    <2> QED  BY <1>4, <2>1, <2>2
  <1>6. Ample => ChainSound(new)
    <2> SUFFICES ASSUME Ample PROVE ChainSound(new)
      OBVIOUS
    <2>1. ChainSound(ms)
      BY DEF ChainInv
    <2>2. ASSUME m.kind = "summary", OverlapsUpTo(ms, Len(ms)), Gap(ms, Len(ms) + 1) <= LedgerWindow
          PROVE  Carries(new, m.value)
      <3>1. Carries(ms, m.value)
        BY <1>1, <2>2
      <3> HIDE DEF ms
      <3> QED  BY <1>2, <1>3, <2>2, <3>1, SummaryCarries
    <2> HIDE DEF ms
    <2> QED  BY <1>3, <2>1, <2>2, ChainGrows
  <1> HIDE DEF new, ms
  <1>7. (\A i \in Summaries(messages) : TodosKnown(messages[i].value.todos))'
    <2>1. \A i \in Summaries(messages') : TodosKnown(messages'[i].value.todos)
      BY <1>2, <1>5
    <2> QED  BY <2>1
  <1>8. (Ample => ChainSound(messages))'
    <2>1. Ample' => Ample
      BY DEF Ample
    <2>2. Ample' => ChainSound(messages')
      BY <1>2, <1>6, <2>1
    <2> QED  BY <2>2
  <1> QED  BY <1>7, <1>8 DEF ChainInv

LEMMA ChainStep == ChainInv /\ [LedgerNext]_ledgervars => ChainInv'
  <1> SUFFICES ASSUME ChainInv, [LedgerNext]_ledgervars PROVE ChainInv'
    OBVIOUS
  <1>1. LedgerInv /\ LedgerInv'
    BY LedgerStep DEF ChainInv
  <1>2. ASSUME NEW r \in Requests, Ask(r) PROVE ChainInv'
    <2>1. messages' = Append(messages, LedgerMessage("user", r)) /\ UNCHANGED budget
      BY <1>2 DEF Ask
    <2> QED  BY <1>1, <2>1, ChainMessage
  <1>3. ASSUME NEW e \in Results, RunTool(e) PROVE ChainInv'
    <2>1. messages' = Append(messages, LedgerMessage("tool", e)) /\ UNCHANGED budget
      BY <1>3 DEF RunTool
    <2> QED  BY <1>1, <2>1, ChainMessage
  <1>4. CASE CompactsRaw
    <2>1. messages' = Append(messages, LedgerMessage("native", 0)) /\ UNCHANGED budget
      BY <1>4 DEF CompactsRaw
    <2> QED  BY <1>1, <2>1, ChainMessage
  <1>5. CASE Compacts
    <2> DEFINE full == Merged
               d == Fit(full)
    <2>1. messages' = Append(messages, LedgerMessage("summary", d)) /\ UNCHANGED budget
      BY <1>5 DEF Compacts
    <2>2. IsData(full) /\ FitsUpTo(full, d, 9)
      BY <1>1, BudgetIs, MergedIsData, FitIs
    <2>3. Ample => d = full
      BY <1>1, AmpleFits
    <2>4. \A t \in ToSet(full.todos) : TodoIs(t)
      BY MergedTodos
    <2>5. Ample /\ OverlapsUpTo(messages, Len(messages)) /\ Gap(messages, Len(messages) + 1) <= LedgerWindow
            => Carries(messages, full)
      BY <1>1, CompactionCarries DEF ChainInv
    <2> HIDE DEF full, d
    <2>6. TodosKnown(d.todos)
      <3>1. "todos" \in Sections /\ "todos" # "next_actions"
        BY LimitsAre
      <3>2. IsSeq(d.todos) /\ IsSeq(full.todos) /\ IsSuffix(d.todos, full.todos)
        BY <2>2, <3>1 DEF FitsUpTo, IsData, Part
      <3>3. ToSet(d.todos) \subseteq ToSet(full.todos)
        BY <3>2, SuffixValues
      <3> QED  BY <2>4, <3>3 DEF TodosKnown
    <2>7. Ample /\ OverlapsUpTo(messages, Len(messages)) /\ Gap(messages, Len(messages) + 1) <= LedgerWindow
            => Carries(messages, d)
      BY <2>3, <2>5
    <2> QED  BY <1>1, <2>1, <2>6, <2>7, ChainMessage
  <1>6. CASE (\E i \in TodoIDs, status \in {"absent", "pending", "completed"} : SetTodo(i, status))
             \/ UNCHANGED ledgervars
    <2>1. messages' = messages /\ budget' = budget
      BY <1>6 DEF SetTodo, ledgervars
    <2>2. (\A i \in Summaries(messages) : TodosKnown(messages[i].value.todos))'
      <3>1. \A i \in Summaries(messages') : TodosKnown(messages'[i].value.todos)
        BY <2>1 DEF ChainInv
      <3> QED  BY <3>1
    <2>3. (Ample => ChainSound(messages))'
      <3>1. Ample' => Ample
        BY <2>1 DEF Ample
      <3>2. Ample' => ChainSound(messages')
        BY <2>1, <3>1 DEF ChainInv
      <3> QED  BY <3>2
    <2> QED  BY <1>1, <2>2, <2>3 DEF ChainInv
  <1> QED  BY <1>2, <1>3, <1>4, <1>5, <1>6 DEF LedgerNext

LEMMA ChainInitial == LedgerInit => ChainInv
  <1> SUFFICES ASSUME LedgerInit PROVE ChainInv
    OBVIOUS
  <1>1. messages = <<>> /\ budget \in Budgets
    BY DEF LedgerInit
  <1>2. IsSeq(messages) /\ ToSet(messages) = {}
    BY <1>1, NoneSeq DEF ToSet
  <1>3. LedgerInv
    BY <1>1, <1>2 DEF LedgerInv
  <1>4. Summaries(messages) = {}
    BY <1>1 DEF Summaries
  <1> QED  BY <1>3, <1>4 DEF ChainInv, ChainSound

\* Whatever is asked, done, listed and compacted, for any limits, sizes and budgets: when
\* nothing had to be cut and no message left the window before a ledger had it, the next
\* ledger has the last values of the whole session (README.md:309), unless a value came
\* twice.  A todo that the session still lists never shows a status it no longer has.
THEOREM ChainIsCovered == LedgerSpec => []ChainCovers
  <1>1. ChainInv => ChainCovers
    <2> SUFFICES ASSUME ChainInv PROVE ChainCovers
      OBVIOUS
    <2> DEFINE d == Merged
    <2>1. \A t \in ToSet(d.todos) : todos[t.id] \in {t.status, "absent"}
      BY MergedTodos
    <2>2. Ample /\ WindowsOverlap => Carries(messages, d)
      <3> SUFFICES ASSUME Ample, WindowsOverlap PROVE Carries(messages, d)
        OBVIOUS
      <3>1. LedgerInv /\ ChainSound(messages)
        BY DEF ChainInv
      <3>2. Len(messages) \in Nat
        BY <3>1, SeqDomain DEF LedgerInv
      <3>3. OverlapsUpTo(messages, Len(messages)) /\ Gap(messages, Len(messages) + 1) <= LedgerWindow
        BY <3>1, <3>2, OverlapsAre
      <3> QED  BY <3>1, <3>3, CompactionCarries
    <2> HIDE DEF d
    <2>3. Carries(messages, d) =>
            LET turns == ValuesOf(messages, "user")
                results(status) == Outcomes(ValuesOf(messages, "tool"), status)
                chained(k, values, limit) == IsInjective(values) => d[k] = LastOf(values, limit)
            IN /\ chained("recent_requests", turns, Min({RequestTurns, Limits.recent_requests}))
               /\ chained("constraints", RulesOf(turns), Limits.constraints)
               /\ chained("evidence", results("completed"), Limits.evidence)
               /\ chained("errors", results("error"), Limits.errors)
      BY DEF Carries, LastWhenOnce
    <2> QED  BY <2>1, <2>2, <2>3 DEF ChainCovers, d
  <1> QED  BY <1>1, ChainInitial, ChainStep, PTL DEF LedgerSpec

==============================================================================
