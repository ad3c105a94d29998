---------------------------- MODULE ServiceProofs ----------------------------
(***************************************************************************)
(* Proofs about the services that answer listeners, for any number of      *)
(* requests, users and tracks and all durations: the catalogue's cache,    *)
(* Stream Authorization, the recommendation sets, the profiles and the     *)
(* social graph.                                                           *)
(***************************************************************************)
EXTENDS MCServices, StreamAuth, OrderingProofs

-----------------------------------------------------------------------------
(* The catalogue's cache *)

ReadRecord == [pc : {"idle", "lookup", "load", "store", "served", "missing"}, key : CacheKeys,
               val : 0..MaxVersion, age : 0..Older, must : BOOLEAN]

CacheTypes ==
  /\ row \in [CatalogTables -> 0..MaxVersion]
  /\ ageOf \in [CatalogTables -> [1..MaxVersion -> 0..Older]]
  /\ cacheOf \in [CacheKeys -> [val : 0..MaxVersion, ttl : 0..CacheTTL]]
  /\ write \in [pc : {"idle", "written"}, on : CatalogTables, drop : SUBSET CacheKeys]
  /\ read \in [CacheReaders -> ReadRecord]

\* If version v of an entry is replaced, it was replaced at most n ago.
ReplacedWithin(k, v, n) == v < row[TableOf(k)] => ageOf[TableOf(k)][v + 1] <= n

\* An entry was right when it was loaded, at most a request's time before it
\* was stored, and an entity that was not found is not stored.
EntryKnows(k) ==
  cacheOf[k].ttl > 0 =>
    /\ ReplacedWithin(k, cacheOf[k].val, CacheTTL - cacheOf[k].ttl + RequestTimeout)
    /\ Found(k, cacheOf[k].val)

\* What a reader has loaded was right when its request had begun, and what was
\* there when it began still is.
ReaderKnows(r) ==
  LET q == read[r] IN
  /\ q.pc = "store" => ReplacedWithin(q.key, q.val, q.age)
  /\ q.pc \in {"store", "served"} => Found(q.key, q.val)
  /\ q.must => row[TableOf(q.key)] # 0
  /\ q.pc = "missing" => ~q.must

\* A transaction replaces a version that is not the last.
WriterKnows == write.pc = "written" => row[write.on] < MaxVersion

CacheInv ==
  /\ CacheTypes
  /\ \A k \in CacheKeys : EntryKnows(k)
  /\ \A r \in CacheReaders : ReaderKnows(r)
  /\ WriterKnows

\* Every cache has a table, and Load reads it.
LEMMA LoadIsRow ==
  ASSUME NEW k \in CacheKeys
  PROVE  TableOf(k) \in CatalogTables /\ Load(k) = row[TableOf(k)]
BY DEF CacheKeys, CatalogTables, TableOf, Load, ArtistGet, AlbumGet, TrackGet, ListByAlbum

\* The initial state satisfies the invariant.
LEMMA CacheInvInit == CatalogReadsInit => CacheInv
<1> SUFFICES ASSUME CatalogReadsInit PROVE CacheInv
  OBVIOUS
<1> USE CacheAssumption
<1>1. Older \in Nat
  BY DEF Older
<1>2. CacheTypes
  BY <1>1 DEF CatalogReadsInit, CacheTypes, ReadRecord, NotCached, NoRead, CacheKeys, CatalogTables
<1>3. QED
  BY <1>2 DEF CatalogReadsInit, CacheInv, EntryKnows, ReaderKnows, WriterKnows, NotCached, NoRead

\* A step of one reader keeps the others' knowledge.
LEMMA ReaderStep ==
  ASSUME CacheInv, NEW r \in CacheReaders, NEW q \in ReadRecord,
         read' = [read EXCEPT ![r] = q], WritesUnchanged,
         /\ q.pc = "store" => ReplacedWithin(q.key, q.val, q.age)
         /\ q.pc \in {"store", "served"} => Found(q.key, q.val)
         /\ q.must => row[TableOf(q.key)] # 0
         /\ q.pc = "missing" => ~q.must,
         cacheOf' \in [CacheKeys -> [val : 0..MaxVersion, ttl : 0..CacheTTL]],
         \A k \in CacheKeys : EntryKnows(k)'
  PROVE  CacheInv'
<1>1. read' \in [CacheReaders -> ReadRecord] /\ read'[r] = q
      /\ \A o \in CacheReaders \ {r} : read'[o] = read[o]
  BY DEF CacheInv, CacheTypes
<1>2. row' = row /\ ageOf' = ageOf /\ write' = write
  BY DEF WritesUnchanged
<1>3. CacheTypes'
  BY <1>1, <1>2 DEF CacheInv, CacheTypes
<1>4. ASSUME NEW o \in CacheReaders PROVE ReaderKnows(o)'
  <2>1. CASE o = r
    BY <1>1, <1>2, <2>1 DEF ReaderKnows, ReplacedWithin, Found
  <2>2. CASE o # r
    BY <1>1, <1>2, <2>2 DEF CacheInv, ReaderKnows, ReplacedWithin, Found
  <2>3. QED
    BY <2>1, <2>2
<1>5. QED
  BY <1>2, <1>3, <1>4 DEF CacheInv, WriterKnows

\* With time an entry's rest and the age of its version move together.
LEMMA TickKeepsCache == CacheInv /\ Tick => CacheInv'
<1> SUFFICES ASSUME CacheInv, Tick PROVE CacheInv'
  OBVIOUS
<1> USE CacheAssumption
<1>1. Older = CacheTTL + RequestTimeout /\ Older \in Nat
  BY DEF Older
<1>2. \A n \in 0..Older : Later1(n) \in 0..Older /\ n <= Later1(n) /\ Later1(n) <= n + 1
                          /\ \A m \in 0..Older : n <= m => Later1(n) <= Later1(m)
  BY <1>1 DEF Later1
<1>3. CacheTypes
  BY DEF CacheInv
<1>4. ageOf' \in [CatalogTables -> [1..MaxVersion -> 0..Older]]
      /\ \A t \in CatalogTables, v \in 1..MaxVersion : ageOf'[t][v] = Later1(ageOf[t][v])
  BY <1>2, <1>3 DEF Tick, CacheTypes
<1>5. row' = row /\ write' = write
  BY DEF Tick
<1>6. cacheOf' \in [CacheKeys -> [val : 0..MaxVersion, ttl : 0..CacheTTL]]
      /\ \A k \in CacheKeys : cacheOf'[k].ttl > 0 =>
           cacheOf[k].ttl = cacheOf'[k].ttl + 1 /\ cacheOf'[k].val = cacheOf[k].val
  <2>1. ASSUME NEW k \in CacheKeys
        PROVE  LET c == IF cacheOf[k].ttl > 1 THEN [cacheOf[k] EXCEPT !.ttl = @ - 1] ELSE NotCached IN
               /\ c \in [val : 0..MaxVersion, ttl : 0..CacheTTL]
               /\ c.ttl > 0 => cacheOf[k].ttl = c.ttl + 1 /\ c.val = cacheOf[k].val
    <3>1. cacheOf[k] \in [val : 0..MaxVersion, ttl : 0..CacheTTL]
      BY <1>3 DEF CacheTypes
    <3>2. QED
      BY <3>1 DEF NotCached
  <2>2. QED
    BY <2>1 DEF Tick
<1>7. read' \in [CacheReaders -> ReadRecord]
      /\ \A r \in CacheReaders : /\ read'[r].pc = read[r].pc /\ read'[r].key = read[r].key
                                 /\ read'[r].val = read[r].val /\ read'[r].must = read[r].must
                                 /\ read[r].pc # "idle" => read'[r].age = Later1(read[r].age)
  <2>1. ASSUME NEW r \in CacheReaders
        PROVE  LET q == IF read[r].pc = "idle" THEN read[r] ELSE [read[r] EXCEPT !.age = Later1(@)] IN
               /\ q \in ReadRecord /\ q.pc = read[r].pc /\ q.key = read[r].key
               /\ q.val = read[r].val /\ q.must = read[r].must
               /\ read[r].pc # "idle" => q.age = Later1(read[r].age)
    <3>1. read[r] \in ReadRecord
      BY <1>3 DEF CacheTypes
    <3>2. Later1(read[r].age) \in 0..Older
      BY <1>2, <3>1 DEF ReadRecord
    <3>3. QED
      BY <3>1, <3>2, Zenon DEF ReadRecord
  <2>2. QED
    BY <2>1 DEF Tick
<1>8. \A k \in CacheKeys : TableOf(k) \in CatalogTables
  BY LoadIsRow
<1>9. ASSUME NEW k \in CacheKeys, NEW v \in 0..MaxVersion, NEW n \in 0..Older,
             ReplacedWithin(k, v, n)
      PROVE  v < row[TableOf(k)] => ageOf'[TableOf(k)][v + 1] <= Later1(n)
  <2> SUFFICES ASSUME v < row[TableOf(k)] PROVE ageOf'[TableOf(k)][v + 1] <= Later1(n)
    OBVIOUS
  <2>1. row[TableOf(k)] \in 0..MaxVersion
    BY <1>3, <1>8 DEF CacheTypes
  <2>2. v + 1 \in 1..MaxVersion
    BY <2>1
  <2>3. ageOf[TableOf(k)][v + 1] \in 0..Older /\ ageOf[TableOf(k)][v + 1] <= n
    BY <1>3, <1>8, <1>9, <2>2, SMTT(30) DEF CacheTypes, ReplacedWithin
  <2>4. QED
    BY <1>2, <1>4, <1>8, <2>2, <2>3
<1>10. ASSUME NEW k \in CacheKeys PROVE EntryKnows(k)'
  <2> SUFFICES ASSUME cacheOf'[k].ttl > 0
               PROVE  /\ cacheOf'[k].val < row[TableOf(k)] =>
                           ageOf'[TableOf(k)][cacheOf'[k].val + 1] <= CacheTTL - cacheOf'[k].ttl + RequestTimeout
                      /\ Found(k, cacheOf'[k].val)
    BY <1>5 DEF EntryKnows, ReplacedWithin, TableOf, Found
  <2> DEFINE v == cacheOf[k].val
             n == CacheTTL - cacheOf[k].ttl + RequestTimeout
  <2>1. v \in 0..MaxVersion /\ cacheOf[k].ttl \in 1..CacheTTL /\ cacheOf[k].ttl = cacheOf'[k].ttl + 1
        /\ cacheOf'[k].val = v /\ cacheOf'[k].ttl \in 0..CacheTTL
    BY <1>3, <1>6 DEF CacheTypes
  <2>2. n \in 0..Older /\ Later1(n) <= CacheTTL - cacheOf'[k].ttl + RequestTimeout
    BY <1>1, <1>2, <2>1
  <2>3. ReplacedWithin(k, v, n) /\ Found(k, v)
    BY <2>1 DEF CacheInv, EntryKnows
  <2> HIDE DEF v, n
  <2>4. v < row[TableOf(k)] => ageOf'[TableOf(k)][v + 1] <= Later1(n)
    BY <1>9, <2>1, <2>2, <2>3
  <2>5. v < row[TableOf(k)] => ageOf'[TableOf(k)][v + 1] \in Nat
    <3>1. row[TableOf(k)] \in 0..MaxVersion
      BY <1>3, <1>8 DEF CacheTypes
    <3>2. QED
      BY <1>4, <1>8, <2>1, <3>1
  <2>6. Later1(n) \in Nat
    BY <1>1, <1>2, <2>2
  <2>7. QED
    BY <2>1, <2>2, <2>3, <2>4, <2>5, <2>6
<1>11. ASSUME NEW r \in CacheReaders PROVE ReaderKnows(r)'
  <2> DEFINE q == read[r]
  <2>1. q \in ReadRecord /\ ReaderKnows(r)
    BY <1>3 DEF CacheTypes, CacheInv
  <2>2. q.key \in CacheKeys /\ q.val \in 0..MaxVersion /\ q.age \in 0..Older
    BY <2>1 DEF ReadRecord
  <2>3. q.pc = "store" => (q.val < row[TableOf(q.key)] => ageOf'[TableOf(q.key)][q.val + 1] <= Later1(q.age))
    BY <1>9, <2>1, <2>2 DEF ReaderKnows
  <2>4. QED
    BY <1>5, <1>7, <2>1, <2>3 DEF ReaderKnows, ReplacedWithin, TableOf, Found
<1>12. QED
  BY <1>3, <1>4, <1>5, <1>6, <1>7, <1>10, <1>11 DEF CacheInv, CacheTypes, WriterKnows

\* Writing a row and dropping entries leave what readers and entries know.
LEMMA WriteKeepsCache ==
  ASSUME CacheInv, UNCHANGED <<row, ageOf, read>>,
         write' \in [pc : {"idle", "written"}, on : CatalogTables, drop : SUBSET CacheKeys],
         write'.pc = "written" => row[write'.on] < MaxVersion,
         \/ cacheOf' = cacheOf
         \/ \E k \in CacheKeys : cacheOf' = [cacheOf EXCEPT ![k] = NotCached]
  PROVE  CacheInv'
<1> USE CacheAssumption
<1>1. cacheOf' \in [CacheKeys -> [val : 0..MaxVersion, ttl : 0..CacheTTL]]
      /\ \A k \in CacheKeys : cacheOf'[k] = cacheOf[k] \/ cacheOf'[k] = NotCached
  <2>1. NotCached \in [val : 0..MaxVersion, ttl : 0..CacheTTL]
    BY DEF NotCached
  <2>2. cacheOf \in [CacheKeys -> [val : 0..MaxVersion, ttl : 0..CacheTTL]]
    BY DEF CacheInv, CacheTypes
  <2>3. QED
    BY <2>1, <2>2
<1>2. CacheTypes'
  BY <1>1 DEF CacheInv, CacheTypes
<1>3. \A k \in CacheKeys : EntryKnows(k)'
  BY <1>1 DEF CacheInv, EntryKnows, ReplacedWithin, Found, TableOf, NotCached
<1>4. \A r \in CacheReaders : ReaderKnows(r)'
  BY DEF CacheInv, ReaderKnows, ReplacedWithin, Found, TableOf
<1>5. QED
  BY <1>2, <1>3, <1>4 DEF CacheInv, WriterKnows

\* A commit replaces the current version now.
LEMMA CommitKeepsCache == CacheInv /\ StoreCommit => CacheInv'
<1> SUFFICES ASSUME CacheInv, StoreCommit PROVE CacheInv'
  OBVIOUS
<1> USE CacheAssumption
<1> DEFINE t == write.on
           n == row[t] + 1
<1>1. CacheTypes /\ t \in CatalogTables /\ Older \in Nat
  BY DEF CacheInv, CacheTypes, Older
<1>2. row[t] \in 0..MaxVersion /\ n \in 1..MaxVersion
  BY <1>1 DEF CacheInv, CacheTypes, WriterKnows, StoreCommit
<1> HIDE DEF n
<1>3. row' \in [CatalogTables -> 0..MaxVersion] /\ row'[t] = n
      /\ \A s \in CatalogTables \ {t} : row'[s] = row[s]
  BY <1>1, <1>2 DEF StoreCommit, CacheTypes, n
<1>4. ageOf' = [ageOf EXCEPT ![t][n] = 0]
  BY DEF StoreCommit, n
<1>5. ageOf' \in [CatalogTables -> [1..MaxVersion -> 0..Older]]
      /\ \A s \in CatalogTables, v \in 1..MaxVersion :
           ageOf'[s][v] = IF s = t /\ v = n THEN 0 ELSE ageOf[s][v]
  <2>1. ageOf \in [CatalogTables -> [1..MaxVersion -> 0..Older]] /\ ageOf[t] \in [1..MaxVersion -> 0..Older]
    BY <1>1 DEF CacheTypes
  <2>2. [ageOf[t] EXCEPT ![n] = 0] \in [1..MaxVersion -> 0..Older]
    BY <1>1, <1>2, <2>1
  <2>3. QED
    BY <1>1, <1>2, <1>4, <2>1, <2>2
<1>6. write' \in [pc : {"idle", "written"}, on : CatalogTables, drop : SUBSET CacheKeys] /\ write'.pc = "idle"
  BY <1>1 DEF StoreCommit, CacheTypes
<1>7. cacheOf' = cacheOf /\ read' = read
  BY DEF StoreCommit
<1>8. CacheTypes'
  BY <1>1, <1>3, <1>5, <1>6, <1>7 DEF CacheTypes
<1>9. ASSUME NEW k \in CacheKeys, NEW v \in 0..MaxVersion, NEW a \in Nat, ReplacedWithin(k, v, a)
      PROVE  v < row'[TableOf(k)] => ageOf'[TableOf(k)][v + 1] <= a
  <2>1. TableOf(k) \in CatalogTables /\ row[TableOf(k)] \in 0..MaxVersion /\ row'[TableOf(k)] \in 0..MaxVersion
    BY <1>1, <1>3, LoadIsRow DEF CacheTypes
  <2>2. CASE TableOf(k) # t \/ v + 1 # n
    BY <1>2, <1>3, <1>5, <1>9, <2>1, <2>2, SMTT(30) DEF ReplacedWithin, n
  <2>3. CASE TableOf(k) = t /\ v + 1 = n
    BY <1>2, <1>5, <2>1, <2>3
  <2>4. QED
    BY <2>2, <2>3
<1>10. ASSUME NEW k \in CacheKeys PROVE EntryKnows(k)'
  <2> SUFFICES ASSUME cacheOf[k].ttl > 0
               PROVE  /\ cacheOf[k].val < row'[TableOf(k)] =>
                           ageOf'[TableOf(k)][cacheOf[k].val + 1] <= CacheTTL - cacheOf[k].ttl + RequestTimeout
                      /\ Found(k, cacheOf[k].val)
    BY <1>7 DEF EntryKnows, ReplacedWithin, TableOf, Found
  <2>1. cacheOf[k].val \in 0..MaxVersion /\ CacheTTL - cacheOf[k].ttl + RequestTimeout \in Nat
    BY <1>1 DEF CacheTypes
  <2>2. QED
    BY <1>9, <2>1 DEF CacheInv, EntryKnows
<1>11. ASSUME NEW r \in CacheReaders PROVE ReaderKnows(r)'
  <2> DEFINE q == read[r]
  <2>1. q \in ReadRecord /\ ReaderKnows(r)
    BY <1>1 DEF CacheTypes, CacheInv
  <2>2. q.key \in CacheKeys /\ q.val \in 0..MaxVersion /\ q.age \in Nat
    BY <1>1, <2>1 DEF ReadRecord
  <2>3. q.pc = "store" => (q.val < row'[TableOf(q.key)] => ageOf'[TableOf(q.key)][q.val + 1] <= q.age)
    BY <1>9, <2>1, <2>2 DEF ReaderKnows
  <2>4. row[TableOf(q.key)] # 0 => row'[TableOf(q.key)] # 0
    BY <1>2, <1>3, <2>2, LoadIsRow
  <2>5. QED
    BY <1>7, <2>1, <2>3, <2>4 DEF ReaderKnows, ReplacedWithin, TableOf, Found
<1>12. QED
  BY <1>6, <1>8, <1>10, <1>11 DEF CacheInv, WriterKnows

\* Every step of a reader keeps the invariant: what it stores was current a
\* request's time ago.
LEMMA ReadKeepsCache ==
  ASSUME CacheInv, NEW r \in CacheReaders,
         (\E k \in CacheKeys : StartRead(r, k)) \/ Lookup(r) \/ LoadRow(r) \/ StoreRead(r) \/ EndRead(r)
  PROVE  CacheInv'
<1> USE CacheAssumption
<1> DEFINE q == read[r]
<1>1. CacheTypes /\ q \in ReadRecord /\ ReaderKnows(r) /\ Older \in Nat
  BY DEF CacheInv, CacheTypes, Older
<1>2. ASSUME cacheOf' = cacheOf, WritesUnchanged
      PROVE  /\ cacheOf' \in [CacheKeys -> [val : 0..MaxVersion, ttl : 0..CacheTTL]]
             /\ \A k \in CacheKeys : EntryKnows(k)'
  BY <1>1, <1>2 DEF CacheTypes, WritesUnchanged, CacheInv, EntryKnows, ReplacedWithin, Found, TableOf
<1>3. q.key \in CacheKeys /\ TableOf(q.key) \in CatalogTables /\ Load(q.key) = row[TableOf(q.key)]
      /\ row[TableOf(q.key)] \in 0..MaxVersion
  BY <1>1, LoadIsRow DEF ReadRecord, CacheTypes
<1>4. ASSUME NEW k \in CacheKeys, StartRead(r, k) PROVE CacheInv'
  <2> DEFINE new == [pc |-> "lookup", key |-> k, val |-> 0, age |-> 0, must |-> Load(k) # 0]
  <2>1. new \in ReadRecord
    BY <1>1 DEF ReadRecord
  <2>2. new.pc = "lookup" /\ (new.must => row[TableOf(new.key)] # 0)
    BY LoadIsRow
  <2>3. read' = [read EXCEPT ![r] = new] /\ WritesUnchanged /\ cacheOf' = cacheOf
    BY <1>4 DEF StartRead, ReadStep
  <2> HIDE DEF new
  <2>4. QED
    BY <1>2, <2>1, <2>2, <2>3, ReaderStep
<1>5. CASE Lookup(r)
  <2> DEFINE c == cacheOf[q.key]
             hit == [q EXCEPT !.pc = "served", !.val = c.val]
             miss == [q EXCEPT !.pc = "load"]
  <2>1. WritesUnchanged /\ cacheOf' = cacheOf
    BY <1>5 DEF Lookup
  <2>2. CASE c.ttl > 0 /\ read' = [read EXCEPT ![r] = hit]
    <3>1. c.val \in 0..MaxVersion /\ Found(q.key, c.val)
      BY <1>1, <1>3, <2>2 DEF CacheTypes, CacheInv, EntryKnows
    <3>2. hit \in ReadRecord /\ hit.pc = "served" /\ hit.val = c.val /\ hit.key = q.key /\ hit.must = q.must
      BY <1>1, <3>1, Zenon DEF ReadRecord
    <3> HIDE DEF hit
    <3>3. QED
      BY <1>1, <1>2, <2>1, <2>2, <3>1, <3>2, ReaderStep DEF ReaderKnows
  <2>3. CASE read' = [read EXCEPT ![r] = miss]
    <3>1. miss \in ReadRecord /\ miss.pc = "load" /\ miss.key = q.key /\ miss.must = q.must
      BY <1>1, Zenon DEF ReadRecord
    <3> HIDE DEF miss
    <3>2. QED
      BY <1>1, <1>2, <2>1, <2>3, <3>1, ReaderStep DEF ReaderKnows
  <2>4. QED
    BY <1>5, <2>2, <2>3 DEF Lookup, ReadStep
<1>6. CASE LoadRow(r)
  <2> DEFINE v == Load(q.key)
             new == [q EXCEPT !.pc = IF Found(q.key, v) THEN "store" ELSE "missing", !.val = v]
  <2>1. WritesUnchanged /\ cacheOf' = cacheOf /\ read' = [read EXCEPT ![r] = new]
    BY <1>6 DEF LoadRow, ReadStep
  <2>2. new \in ReadRecord /\ new.pc = (IF Found(q.key, v) THEN "store" ELSE "missing")
        /\ new.val = v /\ new.key = q.key /\ new.must = q.must /\ new.age = q.age
    BY <1>1, <1>3, Zenon DEF ReadRecord
  <2> HIDE DEF new
  <2>3. ReplacedWithin(new.key, new.val, new.age)
    BY <1>3, <2>2 DEF ReplacedWithin
  <2>4. new.pc = "missing" => ~new.must
    BY <1>1, <1>3, <2>2 DEF ReaderKnows, Found
  <2>5. QED
    BY <1>1, <1>2, <2>1, <2>2, <2>3, <2>4, ReaderStep DEF ReaderKnows
<1>7. CASE StoreRead(r)
  <2> DEFINE new == [q EXCEPT !.pc = "served"]
  <2>1. WritesUnchanged /\ read' = [read EXCEPT ![r] = new] /\ q.pc = "store" /\ q.age <= RequestTimeout
    BY <1>7 DEF StoreRead, ReadStep, InTime
  <2>2. new \in ReadRecord /\ new.pc = "served" /\ new.val = q.val /\ new.key = q.key /\ new.must = q.must
    BY <1>1, Zenon DEF ReadRecord
  <2> HIDE DEF new
  <2>3. cacheOf' \in [CacheKeys -> [val : 0..MaxVersion, ttl : 0..CacheTTL]]
        /\ \A k \in CacheKeys : EntryKnows(k)'
    <3>1. CASE cacheOf' = cacheOf
      BY <1>2, <2>1, <3>1
    <3>2. CASE cacheOf' = [cacheOf EXCEPT ![q.key] = [val |-> q.val, ttl |-> CacheTTL]]
      <4>1. q.val \in 0..MaxVersion /\ q.age \in 0..Older
        BY <1>1 DEF ReadRecord
      <4>2. cacheOf' \in [CacheKeys -> [val : 0..MaxVersion, ttl : 0..CacheTTL]]
            /\ cacheOf'[q.key] = [val |-> q.val, ttl |-> CacheTTL]
            /\ \A k \in CacheKeys \ {q.key} : cacheOf'[k] = cacheOf[k]
        BY <1>1, <1>3, <3>2, <4>1 DEF CacheTypes
      <4>3. ReplacedWithin(q.key, q.val, q.age) /\ Found(q.key, q.val)
        BY <1>1, <2>1 DEF ReaderKnows
      <4>4. q.val < row[TableOf(q.key)] =>
              ageOf[TableOf(q.key)][q.val + 1] <= CacheTTL - CacheTTL + RequestTimeout
        <5> DEFINE table == TableOf(q.key)
        <5>1. row[table] \in 0..MaxVersion /\ ageOf[table] \in [1..MaxVersion -> 0..Older]
          BY <1>1, <1>3 DEF CacheTypes
        <5> HIDE DEF table
        <5>2. q.val < row[table] => q.val + 1 \in 1..MaxVersion
          BY <4>1, <5>1, CacheAssumption
        <5>3. q.val < row[table] => ageOf[table][q.val + 1] \in 0..Older
          BY <5>1, <5>2
        <5>4. QED
          BY <2>1, <4>1, <4>3, <5>3 DEF ReplacedWithin, table
      <4>5. EntryKnows(q.key) /\ \A k \in CacheKeys : EntryKnows(k)
        BY <1>3 DEF CacheInv
      <4>6. ASSUME NEW k \in CacheKeys PROVE EntryKnows(k)'
        <5>1. CASE k = q.key
          BY <2>1, <4>2, <4>3, <4>4, <5>1 DEF EntryKnows, ReplacedWithin, Found, TableOf, WritesUnchanged
        <5>2. CASE k # q.key
          BY <2>1, <4>2, <4>5, <5>2 DEF EntryKnows, ReplacedWithin, Found, TableOf, WritesUnchanged
        <5>3. QED
          BY <5>1, <5>2
      <4>7. QED
        BY <4>2, <4>6
    <3>3. QED
      BY <1>7, <3>1, <3>2 DEF StoreRead, CacheSet
  <2>4. QED
    BY <1>1, <2>1, <2>2, <2>3, ReaderStep DEF ReaderKnows
<1>8. CASE EndRead(r)
  <2>1. WritesUnchanged /\ cacheOf' = cacheOf /\ read' = [read EXCEPT ![r] = NoRead]
    BY <1>8 DEF EndRead, ReadStep
  <2>2. NoRead \in ReadRecord /\ NoRead.pc = "idle" /\ ~NoRead.must
    BY <1>1 DEF NoRead, ReadRecord, CacheKeys, CatalogTables
  <2>3. QED
    BY <1>2, <2>1, <2>2, ReaderStep
<1>9. QED
  BY <1>4, <1>5, <1>6, <1>7, <1>8

\* The invariant is inductive.
LEMMA CacheInvNext == CacheInv /\ [CatalogReadsNext]_catalogReadVars => CacheInv'
<1> SUFFICES ASSUME CacheInv, [CatalogReadsNext]_catalogReadVars PROVE CacheInv'
  OBVIOUS
<1> USE CacheAssumption
<1>1. CacheTypes
  BY DEF CacheInv
<1>2. CASE CreateArtist \/ CreateAlbum \/ CreateTrack \/ ModifyTrack
  <2>1. PICK t \in CatalogTables, d \in SUBSET CacheKeys : Begin(t, d) /\ row[t] < MaxVersion
    <3>1. row["artist"] \in 0..MaxVersion /\ row["album"] \in 0..MaxVersion /\ row["track"] \in 0..MaxVersion
      BY <1>1 DEF CacheTypes, CatalogTables
    <3>2. {"artist", "album", "track"} = CatalogTables /\ {{}, {"tracks"}, {"track", "tracks"}} \subseteq SUBSET CacheKeys
      BY DEF CatalogTables, CacheKeys
    <3>3. QED
      BY <1>2, <3>1, <3>2 DEF CreateArtist, CreateAlbum, CreateTrack, ModifyTrack
  <2>2. QED
    BY <2>1, WriteKeepsCache DEF Begin
<1>3. ASSUME NEW k \in CacheKeys, Invalidate(k) PROVE CacheInv'
  BY <1>1, <1>3, WriteKeepsCache DEF Invalidate, CacheTypes, CacheInv, WriterKnows
<1>4. CASE StoreFails
  BY <1>1, <1>4, WriteKeepsCache DEF StoreFails, CacheTypes
<1>5. CASE UNCHANGED catalogReadVars
  BY <1>1, <1>5, WriteKeepsCache DEF catalogReadVars, CacheTypes, CacheInv, WriterKnows
<1>6. QED
  BY <1>2, <1>3, <1>4, <1>5, TickKeepsCache, CommitKeepsCache, ReadKeepsCache DEF CatalogReadsNext

\* The read-through cache of Catalog: for any TTL and request timeout and any
\* number of readers, a replaced row is served no longer than both together,
\* and what was there when a request began is found.
THEOREM CacheIsHonest == CatalogReadsSpec => []CacheHonest
<1>1. CacheInv => CacheHonest
  <2> SUFFICES ASSUME CacheInv PROVE StalenessBounded /\ CreatedIsFound
    BY DEF CacheHonest
  <2> USE CacheAssumption
  <2>1. ASSUME NEW k \in CacheKeys, cacheOf[k].ttl > 0, cacheOf[k].val < Load(k)
        PROVE  ageOf[TableOf(k)][cacheOf[k].val + 1] < CacheTTL + RequestTimeout
    <3>1. cacheOf[k].ttl \in 0..CacheTTL /\ cacheOf[k].val \in 0..MaxVersion
          /\ row[TableOf(k)] \in 0..MaxVersion /\ Load(k) = row[TableOf(k)] /\ TableOf(k) \in CatalogTables
      BY LoadIsRow DEF CacheInv, CacheTypes
    <3>2. ageOf[TableOf(k)][cacheOf[k].val + 1] <= CacheTTL - cacheOf[k].ttl + RequestTimeout
      BY <2>1, <3>1 DEF CacheInv, EntryKnows, ReplacedWithin
    <3>3. ageOf[TableOf(k)][cacheOf[k].val + 1] \in Nat
      BY <2>1, <3>1 DEF CacheInv, CacheTypes, Older
    <3>4. QED
      BY <2>1, <3>1, <3>2, <3>3
  <2>2. CreatedIsFound
    BY DEF CreatedIsFound, CacheInv, ReaderKnows, Found
  <2>3. QED
    BY <2>1, <2>2 DEF StalenessBounded
<1>2. QED
  BY CacheInvInit, CacheInvNext, <1>1, PTL DEF CatalogReadsSpec

-----------------------------------------------------------------------------
(* Stream Authorization *)

TrackStatuses == {"PROCESSING", "READY", "BLOCKED", "DELETED"}
StreamRecord ==
  [pc : {"idle", "status", "store", "variants", "choose", "answer"}, wants : Nat, since : Nat,
   read : TrackStatuses \cup {"none"}, seen : SUBSET Bitrates, left : SUBSET Bitrates,
   whole : BOOLEAN, status : Nat, granted : Nat]

StreamTypes ==
  /\ streamClock \in Nat
  /\ trackStatus \in [status : TrackStatuses, since : Nat]
  /\ variants \in SUBSET Bitrates
  /\ statusCache \in [status : TrackStatuses \cup {"none"}, expires : Nat]
  /\ variantCache \in {{}, Bitrates}
  /\ stream \in [Streams -> StreamRecord]

Blocked == trackStatus.status # "READY"
Asking(q) == q.pc \in {"status", "store", "variants", "choose"}

\* A cached READY of a track that is blocked now was read before the block by
\* a request that may have taken its whole time to store it.
StatusCacheKnows ==
  /\ trackStatus.since <= streamClock
  /\ statusCache.expires <= streamClock + StatusTTL
  /\ statusCache.status = "READY" /\ Blocked =>
       statusCache.expires <= trackStatus.since + StreamTimeout + StatusTTL

\* The cached variants are all of them, and there.
VariantCacheKnows == variantCache # {} => variants = Bitrates

\* What request q knows of the status ...
StatusKnown(q) ==
  /\ q.since <= streamClock
  /\ Asking(q) => streamClock <= q.since + StreamTimeout
  /\ q.pc = "store" /\ q.read = "READY" /\ Blocked => q.since <= trackStatus.since
  /\ (q.pc \in {"variants", "choose"} \/ q.granted # 0) /\ Blocked =>
       q.since <= trackStatus.since + StatusTTL + StreamTimeout

\* ... and of the variants.
VariantsKnown(q) ==
  /\ q.granted # 0 => q.pc = "answer"
  /\ q.seen \subseteq variants
  /\ q.whole => variants = Bitrates
  /\ q.whole /\ q.pc = "variants" => Bitrates = q.seen \cup q.left
  /\ q.whole /\ q.pc = "choose" => q.seen = Bitrates
  /\ q.granted # 0 => /\ q.granted \in variants
                      /\ q.whole => q.granted = ChooseVariant(q.wants, Bitrates)

StreamKnows(q) == StatusKnown(q) /\ VariantsKnown(q)

StreamInv ==
  /\ StreamTypes
  /\ StatusCacheKnows
  /\ VariantCacheKnows
  /\ \A r \in Streams : StreamKnows(stream[r])

\* The variant that is chosen is one of those available.
LEMMA ChosenIsAvailable ==
  ASSUME NEW available \in SUBSET Bitrates, available # {}, NEW wants \in Nat
  PROVE  ChooseVariant(wants, available) \in available
<1> DEFINE fitting == {q \in available : q <= wants}
           above == {wants - q : q \in fitting}
<1>1. available \subseteq Nat
  BY StreamAssumption
<1>2. CASE fitting # {}
  <2>1. above \subseteq Nat /\ above # {}
    <3>1. PICK q : q \in fitting
      BY <1>2
    <3>2. wants - q \in above
      BY <3>1
    <3>3. above \subseteq Nat
      BY <1>1
    <3>4. QED
      BY <3>2, <3>3
  <2>2. PICK d \in above : \A e \in above : d <= e
    BY <2>1, LeastExists
  <2>3. PICK q \in fitting : d = wants - q
    OBVIOUS
  <2>4. \A p \in fitting : q >= p
    <3> SUFFICES ASSUME NEW p \in fitting PROVE q >= p
      OBVIOUS
    <3>1. wants - p \in above /\ p \in Nat /\ q \in Nat
      BY <1>1
    <3>2. d <= wants - p
      BY <2>2, <3>1
    <3>3. QED
      BY <2>3, <3>1, <3>2
  <2> HIDE DEF fitting, above
  <2>5. Max(fitting) \in fitting
    BY <2>3, <2>4 DEF Max
  <2>6. ChooseVariant(wants, available) = Max(fitting)
    BY <1>2 DEF ChooseVariant, fitting
  <2>7. QED
    BY <2>5, <2>6 DEF fitting
<1>3. CASE fitting = {}
  <2>1. PICK q \in available : \A p \in available : q <= p
    BY <1>1, LeastExists
  <2>2. Min(available) \in available
    BY <2>1 DEF Min
  <2>3. QED
    BY <1>3, <2>2 DEF ChooseVariant
<1>4. QED
  BY <1>2, <1>3

\* The initial state satisfies the invariant.
LEMMA StreamInvInit == StreamInit => StreamInv
<1> SUFFICES ASSUME StreamInit PROVE StreamInv
  OBVIOUS
<1> USE StreamAssumption
<1>1. NoStream \in StreamRecord
  BY DEF NoStream, StreamRecord
<1>2. StreamTypes
  BY <1>1 DEF StreamInit, StreamTypes, TrackStatuses
<1>3. \A r \in Streams : stream[r] = NoStream
  BY DEF StreamInit
<1>4. \A r \in Streams : StreamKnows(stream[r])
  BY <1>3 DEF StreamInit, StreamKnows, StatusKnown, VariantsKnown, Asking, NoStream
<1>5. QED
  BY <1>2, <1>4 DEF StreamInit, StreamInv, StatusCacheKnows, VariantCacheKnows

\* A step of one request, which may store the status it read or a complete set
\* of variants.
LEMMA RequestStep ==
  ASSUME StreamInv, NEW r \in Streams, NEW q \in StreamRecord,
         stream' = [stream EXCEPT ![r] = q], WorldUnchanged,
         statusCache' \in [status : TrackStatuses \cup {"none"}, expires : Nat],
         StatusCacheKnows', variantCache' \in {{}, Bitrates}, VariantCacheKnows',
         StreamKnows(q)
  PROVE  StreamInv'
<1>1. stream' \in [Streams -> StreamRecord] /\ stream'[r] = q /\ \A o \in Streams \ {r} : stream'[o] = stream[o]
  BY DEF StreamInv, StreamTypes
<1>2. streamClock' = streamClock /\ trackStatus' = trackStatus /\ variants' = variants
  BY DEF WorldUnchanged
<1>3. StreamTypes'
  BY <1>1, <1>2 DEF StreamInv, StreamTypes
<1>4. ASSUME NEW o \in Streams PROVE StreamKnows(stream[o])'
  <2>1. StreamKnows(stream'[o])
    BY <1>1 DEF StreamInv
  <2>2. StatusKnown(stream[o])'
    BY <1>2, <2>1 DEF StreamKnows, StatusKnown, Asking, Blocked
  <2>3. VariantsKnown(stream[o])'
    BY <1>2, <2>1 DEF StreamKnows, VariantsKnown, ChooseVariant
  <2>4. QED
    BY <2>2, <2>3 DEF StreamKnows
<1>5. QED
  BY <1>3, <1>4 DEF StreamInv

\* A request that reads the caches leaves them as they are.
LEMMA ReadingStep ==
  ASSUME StreamInv, NEW r \in Streams, NEW q \in StreamRecord, StreamKnows(q),
         stream' = [stream EXCEPT ![r] = q], WorldUnchanged, UNCHANGED <<statusCache, variantCache>>
  PROVE  StreamInv'
<1>1. /\ statusCache' \in [status : TrackStatuses \cup {"none"}, expires : Nat]
      /\ variantCache' \in {{}, Bitrates}
  BY DEF StreamInv, StreamTypes
<1>2. StatusCacheKnows' /\ VariantCacheKnows'
  BY DEF StreamInv, StatusCacheKnows, VariantCacheKnows, WorldUnchanged, Blocked
<1>3. QED
  BY <1>1, <1>2, RequestStep

\* An error ends a request without a grant.
LEMMA DeniedKnows ==
  ASSUME StreamInv, NEW r \in Streams, stream[r].pc # "answer", NEW err
  PROVE  Denied(r, err) \in StreamRecord /\ StreamKnows(Denied(r, err))
<1> DEFINE q == stream[r]
           new == [q EXCEPT !.pc = "answer", !.status = StreamFailure(err)]
<1>1. q \in StreamRecord /\ StreamKnows(q)
  BY DEF StreamInv, StreamTypes
<1>2. StreamFailure(err) \in Nat
  BY DEF StreamFailure
<1>3. /\ new \in StreamRecord /\ new.pc = "answer" /\ new.granted = q.granted /\ new.since = q.since
      /\ new.seen = q.seen /\ new.whole = q.whole
  BY <1>1, <1>2, ZenonT(30) DEF StreamRecord
<1>4. new = Denied(r, err)
  BY DEF Denied
<1>5. StreamKnows(new)
  <2> HIDE DEF new
  <2>1. QED
    BY <1>1, <1>3 DEF StreamKnows, StatusKnown, VariantsKnown, Asking
<1>6. QED
  BY <1>3, <1>4, <1>5

\* With a READY that is not older than the caches allow, a request goes on.
LEMMA PlayableKnows ==
  ASSUME StreamInv, NEW r \in Streams, stream[r].pc \in {"status", "store"},
         NEW s \in TrackStatuses \cup {"none"},
         s = "READY" /\ Blocked => stream[r].since <= trackStatus.since + StatusTTL + StreamTimeout
  PROVE  Playable(r, s) \in StreamRecord /\ StreamKnows(Playable(r, s))
<1> DEFINE q == stream[r]
           new == [q EXCEPT !.pc = "variants", !.left = Bitrates]
<1>1. q \in StreamRecord /\ StreamKnows(q)
  BY DEF StreamInv, StreamTypes
<1>2. CASE s # "READY"
  <2>1. CheckPlayable(s) # "nil"
    BY <1>2 DEF CheckPlayable, TrackStatuses
  <2>2. Playable(r, s) = Denied(r, CheckPlayable(s))
    BY <2>1 DEF Playable
  <2>3. QED
    BY <2>2, DeniedKnows
<1>3. CASE s = "READY"
  <2>1. Playable(r, s) = new
    BY <1>3 DEF Playable, CheckPlayable
  <2>2. /\ new \in StreamRecord /\ new.pc = "variants" /\ new.granted = q.granted /\ new.since = q.since
        /\ new.seen = q.seen /\ new.whole = q.whole /\ new.left = Bitrates
    BY <1>1, ZenonT(30) DEF StreamRecord
  <2>3. q.seen \subseteq Bitrates
    BY <1>1 DEF StreamRecord
  <2> HIDE DEF new
  <2>4. StreamKnows(new)
    BY <1>1, <1>3, <2>2, <2>3 DEF StreamKnows, StatusKnown, VariantsKnown, Asking
  <2>5. QED
    BY <2>1, <2>2, <2>4
<1>4. QED
  BY <1>2, <1>3

\* Time, the transcoder and Catalog keep what the caches and requests know.
LEMMA WorldKeepsStreams ==
  ASSUME StreamInv,
         \/ StreamTick
         \/ \E q \in Bitrates : StoreVariant(q)
         \/ \E s \in {"READY", "BLOCKED", "DELETED"} : CatalogSets(s)
  PROVE  StreamInv'
<1> USE StreamAssumption
<1>1. StreamTypes /\ \A r \in Streams : stream[r] \in StreamRecord /\ stream[r].since \in Nat /\ StreamKnows(stream[r])
  BY DEF StreamInv, StreamTypes, StreamRecord
<1>2. CASE StreamTick
  <2>1. /\ streamClock' = streamClock + 1
        /\ UNCHANGED <<trackStatus, variants, statusCache, variantCache, stream>>
    BY <1>2 DEF StreamTick
  <2>2. ASSUME NEW r \in Streams PROVE StreamKnows(stream[r])'
    <3>1. Asking(stream[r]) => streamClock - stream[r].since < StreamTimeout
      BY <1>2 DEF StreamTick, Asking
    <3>2. streamClock \in Nat
      BY <1>1 DEF StreamTypes
    <3>3. StatusKnown(stream[r])'
      BY <1>1, <2>1, <3>1, <3>2 DEF StreamKnows, StatusKnown, Asking, Blocked
    <3>4. VariantsKnown(stream[r])'
      BY <1>1, <2>1 DEF StreamKnows, VariantsKnown, ChooseVariant
    <3>5. QED
      BY <3>3, <3>4 DEF StreamKnows
  <2>3. StreamTypes'
    BY <1>1, <2>1 DEF StreamTypes
  <2>4. StatusCacheKnows'
    BY <1>1, <2>1 DEF StreamInv, StatusCacheKnows, StreamTypes, Blocked
  <2>5. QED
    BY <2>1, <2>2, <2>3, <2>4 DEF StreamInv, VariantCacheKnows
<1>3. ASSUME NEW b \in Bitrates, StoreVariant(b) PROVE StreamInv'
  <2>1. /\ variants' = variants \cup {b}
        /\ UNCHANGED <<streamClock, trackStatus, statusCache, variantCache, stream>>
    BY <1>3 DEF StoreVariant
  <2>2. StreamTypes'
    BY <1>1, <2>1 DEF StreamTypes
  <2>3. variants = Bitrates => variants' = Bitrates
    BY <2>1
  <2>4. ASSUME NEW r \in Streams PROVE StreamKnows(stream[r])'
    BY <1>1, <2>1, <2>3 DEF StreamKnows, StatusKnown, VariantsKnown, Asking, Blocked, ChooseVariant
  <2>5. QED
    BY <2>1, <2>2, <2>3, <2>4 DEF StreamInv, VariantCacheKnows, StatusCacheKnows, Blocked
<1>4. ASSUME NEW s \in {"READY", "BLOCKED", "DELETED"}, CatalogSets(s) PROVE StreamInv'
  <2>1. /\ trackStatus' = [status |-> s, since |-> IF "READY" \in {s, trackStatus.status} THEN streamClock
                                                   ELSE trackStatus.since]
        /\ UNCHANGED <<streamClock, variants, statusCache, variantCache, stream>>
    BY <1>4 DEF CatalogSets
  <2>2. StreamTypes'
    BY <1>1, <2>1 DEF StreamTypes, TrackStatuses
  <2>3. /\ trackStatus'.since <= streamClock /\ trackStatus.since \in Nat /\ streamClock \in Nat
        /\ Blocked' => \/ trackStatus'.since = streamClock
                       \/ Blocked /\ trackStatus'.since = trackStatus.since
    BY <1>1, <2>1 DEF StreamInv, StatusCacheKnows, Blocked, StreamTypes
  <2>4. StatusCacheKnows'
    <3>1. statusCache.expires \in Nat
      BY <1>1 DEF StreamTypes
    <3>2. QED
      BY <2>1, <2>3, <3>1 DEF StreamInv, StatusCacheKnows
  <2>5. ASSUME NEW r \in Streams PROVE StreamKnows(stream[r])'
    <3>1. stream'[r] = stream[r] /\ stream[r].since \in Nat /\ StreamKnows(stream[r])
      BY <1>1, <2>1
    <3>2. StatusKnown(stream[r])'
      BY <2>1, <2>3, <3>1 DEF StreamKnows, StatusKnown, Asking
    <3>3. VariantsKnown(stream[r])'
      BY <2>1, <3>1 DEF StreamKnows, VariantsKnown, ChooseVariant
    <3>4. QED
      BY <3>2, <3>3 DEF StreamKnows
  <2>6. QED
    BY <2>1, <2>2, <2>4, <2>5 DEF StreamInv, VariantCacheKnows
<1>5. QED
  BY <1>2, <1>3, <1>4

\* Every step of a request keeps the invariant.
LEMMA RequestKeepsStreams ==
  ASSUME StreamInv, NEW r \in Streams,
         \/ \E q \in Bitrates \cup {0} : Authorize(r, q)
         \/ StatusHit(r)
         \/ \E down \in BOOLEAN : StatusLoad(r, down) \/ StatusSet(r, down)
         \/ VariantsHit(r) \/ StatVariant(r) \/ VariantsSet(r)
         \/ Grant(r) \/ StreamFails(r) \/ StreamAnswered(r)
  PROVE  StreamInv'
<1> USE StreamAssumption
<1> DEFINE q == stream[r]
<1>1. StreamTypes /\ q \in StreamRecord /\ StreamKnows(q) /\ NoStream \in StreamRecord
  BY DEF StreamInv, StreamTypes, StreamRecord, NoStream
<1>2. /\ q.since \in Nat /\ q.wants \in Nat /\ q.read \in TrackStatuses \cup {"none"} /\ q.granted \in Nat
      /\ q.seen \subseteq Bitrates /\ q.left \subseteq Bitrates /\ streamClock \in Nat
      /\ trackStatus.since \in Nat /\ statusCache.expires \in Nat
      /\ statusCache.status \in TrackStatuses \cup {"none"}
      /\ variants \subseteq Bitrates /\ variantCache \in {{}, Bitrates}
  BY <1>1 DEF StreamRecord, StreamTypes
<1>3. ASSUME NEW b \in Bitrates \cup {0}, Authorize(r, b) PROVE StreamInv'
  <2> DEFINE new == [NoStream EXCEPT !.pc = "status", !.since = streamClock, !.whole = variants = Bitrates,
                                     !.wants = IF b = 0 THEN DefaultQuality ELSE b]
  <2>1. /\ new \in StreamRecord /\ new.pc = "status" /\ new.since = streamClock
        /\ new.whole = (variants = Bitrates) /\ new.granted = 0 /\ new.seen = {}
    <3>1. (IF b = 0 THEN DefaultQuality ELSE b) \in Nat
      OBVIOUS
    <3>2. QED
      BY <1>1, <1>2, <3>1, ZenonT(30) DEF StreamRecord, NoStream
  <2>2. stream' = [stream EXCEPT ![r] = new] /\ WorldUnchanged /\ UNCHANGED <<statusCache, variantCache>>
    BY <1>3 DEF Authorize, StreamStep
  <2> HIDE DEF new
  <2>3. StatusKnown(new)
    BY <1>2, <2>1 DEF StatusKnown, Asking
  <2>4. new.whole => variants = Bitrates
    BY <2>1, Zenon
  <2>5. VariantsKnown(new)
    BY <2>1, <2>4 DEF VariantsKnown
  <2>6. QED
    BY <2>1, <2>2, <2>3, <2>5, ReadingStep DEF StreamKnows
<1>4. CASE StatusHit(r)
  <2>1. /\ statusCache.status # "none" /\ streamClock < statusCache.expires /\ q.pc = "status"
        /\ stream' = [stream EXCEPT ![r] = Playable(r, statusCache.status)]
        /\ WorldUnchanged /\ UNCHANGED <<statusCache, variantCache>>
    BY <1>4 DEF StatusHit, StreamStep
  <2>2. statusCache.status = "READY" /\ Blocked => q.since <= trackStatus.since + StatusTTL + StreamTimeout
    BY <1>1, <1>2, <2>1 DEF StreamInv, StatusCacheKnows, StreamKnows, StatusKnown
  <2>3. Playable(r, statusCache.status) \in StreamRecord /\ StreamKnows(Playable(r, statusCache.status))
    BY <1>2, <2>1, <2>2, PlayableKnows
  <2>4. QED
    BY <2>1, <2>3, ReadingStep
<1>5. ASSUME NEW down \in BOOLEAN, StatusLoad(r, down) PROVE StreamInv'
  <2> DEFINE new == [q EXCEPT !.pc = "store", !.read = trackStatus.status]
  <2>1. q.pc = "status" /\ stream' = [stream EXCEPT ![r] = new] /\ WorldUnchanged
        /\ UNCHANGED <<statusCache, variantCache>>
    BY <1>5 DEF StatusLoad, StreamStep
  <2>2. trackStatus.status \in TrackStatuses \cup {"none"}
    BY <1>1 DEF StreamTypes
  <2>3. /\ new \in StreamRecord /\ new.pc = "store" /\ new.read = trackStatus.status /\ new.since = q.since
        /\ new.granted = q.granted /\ new.seen = q.seen /\ new.whole = q.whole
    BY <1>1, <2>2, ZenonT(30) DEF StreamRecord
  <2> HIDE DEF new
  <2>4. StreamKnows(new)
    BY <1>1, <2>1, <2>3 DEF StreamKnows, StatusKnown, VariantsKnown, Asking, Blocked
  <2>5. QED
    BY <2>1, <2>3, <2>4, ReadingStep
<1>6. ASSUME NEW down \in BOOLEAN, StatusSet(r, down) PROVE StreamInv'
  <2>1. /\ q.pc = "store" /\ stream' = [stream EXCEPT ![r] = Playable(r, q.read)]
        /\ WorldUnchanged /\ variantCache' = variantCache
        /\ \/ statusCache' = statusCache
           \/ statusCache' = [status |-> q.read, expires |-> streamClock + StatusTTL]
    BY <1>6 DEF StatusSet, StreamStep
  <2>2. q.read = "READY" /\ Blocked => q.since <= trackStatus.since
    BY <1>1, <2>1 DEF StreamKnows, StatusKnown
  <2>3. Playable(r, q.read) \in StreamRecord /\ StreamKnows(Playable(r, q.read))
    BY <1>2, <2>1, <2>2, PlayableKnows
  <2>4. streamClock <= q.since + StreamTimeout
    BY <1>1, <2>1 DEF StreamKnows, StatusKnown, Asking
  <2>5. statusCache' \in [status : TrackStatuses \cup {"none"}, expires : Nat]
    BY <1>1, <1>2, <2>1 DEF StreamTypes
  <2>6. StatusCacheKnows'
    <3>1. streamClock' = streamClock /\ trackStatus' = trackStatus
      BY <2>1 DEF WorldUnchanged
    <3>2. CASE statusCache' = statusCache
      BY <3>1, <3>2 DEF StreamInv, StatusCacheKnows, Blocked
    <3>3. CASE statusCache' = [status |-> q.read, expires |-> streamClock + StatusTTL]
      <4>1. statusCache'.status = q.read /\ statusCache'.expires = streamClock + StatusTTL
        BY <3>3
      <4>2. trackStatus.since <= streamClock
        BY DEF StreamInv, StatusCacheKnows
      <4>3. QED
        BY <1>2, <2>2, <2>4, <3>1, <4>1, <4>2 DEF StatusCacheKnows, Blocked
    <3>4. QED
      BY <2>1, <3>2, <3>3
  <2>7. variantCache' \in {{}, Bitrates} /\ VariantCacheKnows'
    BY <1>2, <2>1 DEF StreamInv, VariantCacheKnows, WorldUnchanged
  <2>8. QED
    BY <2>1, <2>3, <2>5, <2>6, <2>7, RequestStep
<1>7. CASE VariantsHit(r)
  <2> DEFINE new == [q EXCEPT !.pc = "choose", !.seen = variantCache]
  <2>1. /\ q.pc = "variants" /\ variantCache # {} /\ stream' = [stream EXCEPT ![r] = new]
        /\ WorldUnchanged /\ UNCHANGED <<statusCache, variantCache>>
    BY <1>7 DEF VariantsHit, StreamStep
  <2>2. /\ new \in StreamRecord /\ new.pc = "choose" /\ new.seen = variantCache /\ new.since = q.since
        /\ new.granted = q.granted /\ new.whole = q.whole
    BY <1>1, <1>2, ZenonT(30) DEF StreamRecord
  <2>3. variantCache = Bitrates /\ variants = Bitrates
    BY <1>2, <2>1 DEF StreamInv, VariantCacheKnows
  <2> HIDE DEF new
  <2>4. StreamKnows(new)
    BY <1>1, <2>1, <2>2, <2>3 DEF StreamKnows, StatusKnown, VariantsKnown, Asking
  <2>5. QED
    BY <2>1, <2>2, <2>4, ReadingStep
<1>8. CASE StatVariant(r)
  <2> DEFINE m == Min(q.left)
             new == [q EXCEPT !.left = @ \ {m}, !.seen = @ \cup (variants \cap {m})]
  <2>1. /\ q.pc = "variants" /\ stream' = [stream EXCEPT ![r] = new]
        /\ WorldUnchanged /\ UNCHANGED <<statusCache, variantCache>>
    BY <1>8 DEF StatVariant, StreamStep
  <2> HIDE DEF m
  <2>2. (q.left \ {m}) \subseteq Bitrates /\ (q.seen \cup (variants \cap {m})) \subseteq Bitrates
    BY <1>2
  <2>3. /\ new \in StreamRecord /\ new.pc = q.pc /\ new.left = q.left \ {m}
        /\ new.seen = q.seen \cup (variants \cap {m}) /\ new.since = q.since
        /\ new.granted = q.granted /\ new.whole = q.whole
    BY <1>1, <2>2, ZenonT(30) DEF StreamRecord
  <2> HIDE DEF new
  <2>4. StatusKnown(new)
    BY <1>1, <2>1, <2>3 DEF StreamKnows, StatusKnown, Asking
  <2>5. VariantsKnown(new)
    <3>1. q.whole => Bitrates = q.seen \cup q.left /\ variants = Bitrates
      BY <1>1, <2>1 DEF StreamKnows, VariantsKnown
    <3>2. q.seen \subseteq variants /\ q.granted = 0
      BY <1>1, <2>1 DEF StreamKnows, VariantsKnown
    <3>3. new.whole => Bitrates = new.seen \cup new.left
      BY <1>2, <2>3, <3>1
    <3>4. QED
      BY <1>2, <2>1, <2>3, <3>1, <3>2, <3>3 DEF VariantsKnown
  <2>6. QED
    BY <2>1, <2>3, <2>4, <2>5, ReadingStep DEF StreamKnows
<1>9. CASE VariantsSet(r)
  <2> DEFINE new == [q EXCEPT !.pc = "choose"]
  <2>1. /\ q.left = {} /\ q.pc = "variants" /\ stream' = [stream EXCEPT ![r] = new]
        /\ WorldUnchanged /\ statusCache' = statusCache
        /\ variantCache' = IF q.seen = Bitrates THEN q.seen ELSE variantCache
    BY <1>9 DEF VariantsSet, StreamStep
  <2>2. /\ new \in StreamRecord /\ new.pc = "choose" /\ new.seen = q.seen /\ new.since = q.since
        /\ new.granted = q.granted /\ new.whole = q.whole
    BY <1>1, ZenonT(30) DEF StreamRecord
  <2> HIDE DEF new
  <2>3. StreamKnows(new)
    BY <1>1, <2>1, <2>2 DEF StreamKnows, StatusKnown, VariantsKnown, Asking
  <2>4. statusCache' \in [status : TrackStatuses \cup {"none"}, expires : Nat] /\ StatusCacheKnows'
    BY <1>1, <2>1 DEF StreamTypes, StreamInv, StatusCacheKnows, Blocked, WorldUnchanged
  <2>5. q.seen \subseteq variants
    BY <1>1 DEF StreamKnows, VariantsKnown
  <2>6. variantCache' \in {{}, Bitrates} /\ VariantCacheKnows'
    BY <1>2, <2>1, <2>5 DEF StreamInv, VariantCacheKnows, WorldUnchanged
  <2>7. QED
    BY <2>1, <2>2, <2>3, <2>4, <2>6, RequestStep
<1>10. CASE Grant(r)
  <2>1. q.pc = "choose" /\ WorldUnchanged /\ UNCHANGED <<statusCache, variantCache>>
    BY <1>10 DEF Grant, StreamStep
  <2>2. CASE q.seen = {}
    <3>1. stream' = [stream EXCEPT ![r] = Denied(r, "ErrNoVariant")]
      BY <1>10, <2>2 DEF Grant, StreamStep
    <3>2. QED
      BY <2>1, <3>1, DeniedKnows, ReadingStep
  <2>3. CASE q.seen # {}
    <3> DEFINE best == ChooseVariant(q.wants, q.seen)
               new == [q EXCEPT !.pc = "answer", !.status = 200, !.granted = best]
    <3>1. stream' = [stream EXCEPT ![r] = new]
      BY <1>10, <2>3 DEF Grant, StreamStep
    <3>2. best \in q.seen /\ best \in Nat
      BY <1>2, <2>3, ChosenIsAvailable
    <3> HIDE DEF best
    <3>3. /\ new \in StreamRecord /\ new.pc = "answer" /\ new.seen = q.seen /\ new.since = q.since
          /\ new.granted = best /\ new.whole = q.whole /\ new.wants = q.wants
      <4> DEFINE mid == [q EXCEPT !.pc = "answer", !.status = 200]
      <4>1. /\ mid \in StreamRecord /\ mid.pc = "answer" /\ mid.seen = q.seen /\ mid.since = q.since
            /\ mid.whole = q.whole /\ mid.wants = q.wants
        BY <1>1, ZenonT(30) DEF StreamRecord
      <4>2. new = [mid EXCEPT !.granted = best]
        BY <1>1 DEF StreamRecord
      <4> HIDE DEF mid, new
      <4>3. QED
        BY <3>2, <4>1, <4>2, ZenonT(30) DEF StreamRecord
    <3> HIDE DEF new
    <3>4. StatusKnown(new)
      BY <1>1, <2>1, <3>3 DEF StreamKnows, StatusKnown, Asking
    <3>5. VariantsKnown(new)
      BY <1>1, <2>1, <3>2, <3>3 DEF StreamKnows, VariantsKnown, best
    <3>6. QED
      BY <2>1, <3>1, <3>3, <3>4, <3>5, ReadingStep DEF StreamKnows
  <2>4. QED
    BY <2>2, <2>3
<1>11. CASE StreamFails(r)
  <2>1. /\ q.pc # "answer" /\ stream' = [stream EXCEPT ![r] = Denied(r, "dependency")]
        /\ WorldUnchanged /\ UNCHANGED <<statusCache, variantCache>>
    BY <1>11 DEF StreamFails, StreamStep
  <2>2. QED
    BY <2>1, DeniedKnows, ReadingStep
<1>12. CASE StreamAnswered(r)
  <2>1. stream' = [stream EXCEPT ![r] = NoStream] /\ WorldUnchanged /\ UNCHANGED <<statusCache, variantCache>>
    BY <1>12 DEF StreamAnswered, StreamStep
  <2>2. StreamKnows(NoStream)
    BY <1>2 DEF StreamKnows, StatusKnown, VariantsKnown, Asking, NoStream
  <2>3. QED
    BY <1>1, <2>1, <2>2, ReadingStep
<1>13. QED
  BY <1>3, <1>4, <1>5, <1>6, <1>7, <1>8, <1>9, <1>10, <1>11, <1>12

\* Stream Authorization, for any TTL and timeout: a block takes effect within
\* both, and a request made when all variants were stored gets the best one.
THEOREM GrantsAreCurrent == StreamSpec => []GrantsCurrent
<1>1. StreamInv /\ [StreamNext]_streamVars => StreamInv'
  <2> SUFFICES ASSUME StreamInv, [StreamNext]_streamVars PROVE StreamInv'
    OBVIOUS
  <2>1. CASE UNCHANGED streamVars
    <3>1. UNCHANGED <<streamClock, trackStatus, variants, statusCache, variantCache, stream>>
      BY <2>1 DEF streamVars
    <3>2. StreamTypes' /\ StatusCacheKnows' /\ VariantCacheKnows'
      BY <3>1 DEF StreamInv, StreamTypes, StatusCacheKnows, VariantCacheKnows, Blocked
    <3>3. ASSUME NEW r \in Streams PROVE StreamKnows(stream[r])'
      <4>1. StreamKnows(stream[r])
        BY DEF StreamInv
      <4>2. StatusKnown(stream[r])'
        BY <3>1, <4>1 DEF StreamKnows, StatusKnown, Asking, Blocked
      <4>3. VariantsKnown(stream[r])'
        BY <3>1, <4>1 DEF StreamKnows, VariantsKnown, ChooseVariant
      <4>4. QED
        BY <4>2, <4>3 DEF StreamKnows
    <3>4. QED
      BY <3>2, <3>3 DEF StreamInv
  <2>2. CASE StreamNext
    BY <2>2, WorldKeepsStreams, RequestKeepsStreams DEF StreamNext
  <2>3. QED
    BY <2>1, <2>2
<1>2. StreamInv => GrantsCurrent
  <2> SUFFICES ASSUME StreamInv PROVE BlockTakesEffect /\ BestVariantGranted
    BY DEF GrantsCurrent
  <2>1. BlockTakesEffect
    BY DEF StreamInv, StreamKnows, StatusKnown, Blocked, BlockTakesEffect
  <2>2. BestVariantGranted
    BY DEF StreamInv, StreamKnows, VariantsKnown, BestVariantGranted
  <2>3. QED
    BY <2>1, <2>2
<1>3. QED
  BY StreamInvInit, <1>1, <1>2, PTL DEF StreamSpec

-----------------------------------------------------------------------------
(* The recommendation sets *)

BuildRecord == [pc : {"idle", "signals", "publish"}, age : 0..BuildTime, tracks : SUBSET RecTracks,
                known : SUBSET RecUsers, excluded : SUBSET (RecUsers \X RecTracks), left : SUBSET RecKeys]

RecTypes ==
  /\ playable \in SUBSET RecTracks
  /\ likes \in [RecUsers -> [RecTracks -> 0..Long]]
  /\ others \in [RecUsers -> SUBSET OtherSignals]
  /\ rset \in [RecKeys -> [tracks : SUBSET RecTracks, ttl : 0..SetTTL]]
  /\ build \in [Builders -> BuildRecord]
  /\ sinceBuild \in 0..SetTTL

\* A track of a set that is liked now was liked after the build that wrote the
\* set had read the likes.
SetKnows(u) ==
  rset[u].ttl > 0 => \A t \in rset[u].tracks : likes[u][t] <= SetTTL - rset[u].ttl + BuildTime + 1

\* A track that build d does not exclude was not liked when it read the likes,
\* and the popular set it published is as old as the build at most.
BuildKnows(d) ==
  d.pc = "publish" =>
    /\ \A u \in RecUsers, t \in RecTracks : <<u, t>> \notin d.excluded => likes[u][t] <= d.age + 1
    /\ "popular" \notin d.left => SetTTL <= rset["popular"].ttl + d.age

\* The popular set is there for what is left of its life after a build.
PopularKnows == sinceBuild < SetTTL => SetTTL <= rset["popular"].ttl + sinceBuild + BuildTime

RecInv ==
  /\ RecTypes
  /\ \A u \in RecUsers : SetKnows(u)
  /\ \A b \in Builders : BuildKnows(build[b])
  /\ PopularKnows

\* The initial state satisfies the invariant.
LEMMA RecInvInit == RecommendationsInit => RecInv
<1> SUFFICES ASSUME RecommendationsInit PROVE RecInv
  OBVIOUS
<1> USE RecAssumption
<1>1. Long \in Nat
  BY DEF Long
<1>2. NoSet \in [tracks : SUBSET RecTracks, ttl : 0..SetTTL] /\ NoBuild \in BuildRecord
  BY DEF NoSet, NoBuild, BuildRecord
<1>3. RecTypes
  BY <1>1, <1>2 DEF RecommendationsInit, RecTypes, NotLiked
<1>4. QED
  BY <1>3 DEF RecommendationsInit, RecInv, SetKnows, BuildKnows, PopularKnows, NoSet, NoBuild, RecKeys

\* A step of one builder that publishes nothing.
LEMMA BuilderStep ==
  ASSUME RecInv, NEW b \in Builders, NEW d \in BuildRecord, BuildKnows(d),
         build' = [build EXCEPT ![b] = d], UNCHANGED <<playable, likes, others, rset>>,
         sinceBuild' \in 0..SetTTL, PopularKnows'
  PROVE  RecInv'
<1>1. build' \in [Builders -> BuildRecord] /\ \A a \in Builders : build'[a] = IF a = b THEN d ELSE build[a]
  BY DEF RecInv, RecTypes
<1>2. RecTypes'
  BY <1>1 DEF RecInv, RecTypes
<1>3. \A u \in RecUsers : SetKnows(u)'
  BY DEF RecInv, SetKnows
<1>4. ASSUME NEW a \in Builders PROVE BuildKnows(build[a])'
  <2>1. BuildKnows(build'[a])
    BY <1>1 DEF RecInv
  <2>2. QED
    BY <2>1 DEF BuildKnows
<1>5. QED
  BY <1>2, <1>3, <1>4 DEF RecInv

\* Time ages sets, likes and builds alike.
LEMMA TickKeepsRecs == RecInv /\ RecTick => RecInv'
<1> SUFFICES ASSUME RecInv, RecTick PROVE RecInv'
  OBVIOUS
<1> USE RecAssumption
<1>1. RecTypes /\ Long = SetTTL + BuildTime + 1 /\ Long \in Nat /\ "popular" \in RecKeys
  BY DEF RecInv, Long, RecKeys
<1>2. likes' \in [RecUsers -> [RecTracks -> 0..Long]]
      /\ \A u \in RecUsers, t \in RecTracks : likes'[u][t] <= likes[u][t] + 1
  <2>1. ASSUME NEW u \in RecUsers, NEW t \in RecTracks
        PROVE  LET n == IF likes[u][t] \in 1..(Long - 1) THEN likes[u][t] + 1 ELSE likes[u][t] IN
               n \in 0..Long /\ n <= likes[u][t] + 1
    <3>1. likes[u][t] \in 0..Long
      BY <1>1 DEF RecTypes
    <3>2. QED
      BY <1>1, <3>1
  <2>2. QED
    BY <2>1 DEF RecTick
<1>3. rset' \in [RecKeys -> [tracks : SUBSET RecTracks, ttl : 0..SetTTL]]
      /\ \A k \in RecKeys : /\ rset[k].ttl <= rset'[k].ttl + 1
                            /\ rset'[k].ttl > 0 => /\ rset'[k].tracks = rset[k].tracks
                                                   /\ rset[k].ttl = rset'[k].ttl + 1
  <2>1. ASSUME NEW k \in RecKeys
        PROVE  LET c == IF rset[k].ttl > 1 THEN [rset[k] EXCEPT !.ttl = @ - 1] ELSE NoSet IN
               /\ c \in [tracks : SUBSET RecTracks, ttl : 0..SetTTL]
               /\ rset[k].ttl <= c.ttl + 1
               /\ c.ttl > 0 => c.tracks = rset[k].tracks /\ rset[k].ttl = c.ttl + 1
    <3>1. rset[k] \in [tracks : SUBSET RecTracks, ttl : 0..SetTTL]
      BY <1>1 DEF RecTypes
    <3>2. QED
      BY <3>1 DEF NoSet
  <2>2. QED
    BY <2>1 DEF RecTick
<1>4. build' \in [Builders -> BuildRecord]
      /\ \A b \in Builders : /\ build'[b].pc = build[b].pc /\ build'[b].excluded = build[b].excluded
                             /\ build'[b].left = build[b].left
                             /\ build[b].pc # "idle" => build'[b].age = build[b].age + 1
  <2>1. ASSUME NEW b \in Builders
        PROVE  LET d == IF build[b].pc = "idle" THEN build[b] ELSE [build[b] EXCEPT !.age = @ + 1] IN
               /\ d \in BuildRecord /\ d.pc = build[b].pc /\ d.excluded = build[b].excluded /\ d.left = build[b].left
               /\ build[b].pc # "idle" => d.age = build[b].age + 1
    <3>1. build[b] \in BuildRecord /\ build[b].age < BuildTime
      BY <1>1 DEF RecTypes, RecTick
    <3>2. QED
      BY <3>1 DEF BuildRecord
  <2>2. QED
    BY <2>1 DEF RecTick
<1>5. sinceBuild' \in 0..SetTTL /\ (sinceBuild' < SetTTL => sinceBuild' = sinceBuild + 1)
  BY <1>1 DEF RecTick, RecTypes
<1>6. RecTypes'
  BY <1>1, <1>2, <1>3, <1>4, <1>5 DEF RecTick, RecTypes
<1>7. ASSUME NEW u \in RecUsers PROVE SetKnows(u)'
  <2> SUFFICES ASSUME rset'[u].ttl > 0, NEW t \in rset'[u].tracks
               PROVE  likes'[u][t] <= SetTTL - rset'[u].ttl + BuildTime + 1
    BY DEF SetKnows
  <2>1. u \in RecKeys
    BY DEF RecKeys
  <2>2. t \in rset[u].tracks /\ rset[u].ttl = rset'[u].ttl + 1 /\ rset'[u].ttl \in 0..SetTTL /\ t \in RecTracks
    BY <1>1, <1>3, <2>1 DEF RecTypes
  <2>3. likes[u][t] <= SetTTL - rset[u].ttl + BuildTime + 1
    BY <2>2 DEF RecInv, SetKnows
  <2>4. likes[u][t] \in 0..Long /\ likes'[u][t] \in 0..Long /\ likes'[u][t] <= likes[u][t] + 1
    BY <1>1, <1>2, <2>2 DEF RecTypes
  <2>5. QED
    BY <2>2, <2>3, <2>4
<1>8. ASSUME NEW b \in Builders PROVE BuildKnows(build[b])'
  <2> SUFFICES ASSUME build[b].pc = "publish"
               PROVE  /\ \A u \in RecUsers, t \in RecTracks :
                           <<u, t>> \notin build[b].excluded => likes'[u][t] <= build[b].age + 2
                      /\ "popular" \notin build[b].left => SetTTL <= rset'["popular"].ttl + build[b].age + 1
    <3>1. build[b].age \in Nat
      BY <1>1 DEF RecTypes, BuildRecord
    <3>2. /\ build'[b].pc = build[b].pc /\ build'[b].excluded = build[b].excluded /\ build'[b].left = build[b].left
          /\ build'[b].pc = "publish" => build'[b].age + 1 = build[b].age + 2 /\ build'[b].age = build[b].age + 1
      BY <1>4, <3>1
    <3>3. CASE build[b].pc # "publish"
      BY <3>2, <3>3 DEF BuildKnows
    <3>4. CASE build[b].pc = "publish"
      <4>1. \A n \in Nat : n + build'[b].age = n + build[b].age + 1
        BY <3>1, <3>2, <3>4
      <4>2. rset'["popular"].ttl \in Nat
        BY <1>1, <1>3
      <4>3. QED
        BY <3>2, <3>4, <4>1, <4>2 DEF BuildKnows
    <3>5. QED
      BY <3>3, <3>4
  <2>1. BuildKnows(build[b]) /\ build[b].age \in Nat
    BY <1>1 DEF RecInv, RecTypes, BuildRecord
  <2>2. ASSUME NEW u \in RecUsers, NEW t \in RecTracks, <<u, t>> \notin build[b].excluded
        PROVE  likes'[u][t] <= build[b].age + 2
    <3>1. likes[u][t] <= build[b].age + 1
      BY <2>1, <2>2 DEF BuildKnows
    <3>2. likes[u][t] \in Nat /\ likes'[u][t] \in Nat /\ likes'[u][t] <= likes[u][t] + 1
      BY <1>1, <1>2 DEF RecTypes
    <3>3. QED
      BY <2>1, <3>1, <3>2
  <2>3. ASSUME "popular" \notin build[b].left
        PROVE  SetTTL <= rset'["popular"].ttl + build[b].age + 1
    <3>1. SetTTL <= rset["popular"].ttl + build[b].age
      BY <2>1, <2>3 DEF BuildKnows
    <3>2. rset["popular"].ttl \in Nat /\ rset'["popular"].ttl \in Nat
          /\ rset["popular"].ttl <= rset'["popular"].ttl + 1
      BY <1>1, <1>3 DEF RecTypes
    <3>3. QED
      BY <2>1, <3>1, <3>2
  <2>4. QED
    BY <2>2, <2>3
<1>9. PopularKnows'
  <2>1. /\ rset["popular"].ttl \in Nat /\ rset'["popular"].ttl \in Nat /\ sinceBuild \in Nat
        /\ rset["popular"].ttl <= rset'["popular"].ttl + 1
    BY <1>1, <1>3 DEF RecTypes
  <2>2. QED
    BY <1>5, <2>1 DEF RecInv, PopularKnows
<1>10. QED
  BY <1>6, <1>7, <1>8, <1>9 DEF RecInv

\* A build publishes a set: what it excludes was liked when it read the likes.
LEMMA PublishKeepsRecs ==
  ASSUME RecInv, NEW b \in Builders, NEW k \in RecKeys, PublishSet(b, k)
  PROVE  RecInv'
<1> USE RecAssumption
<1> DEFINE d == build[b]
           new == [d EXCEPT !.left = @ \ {k}]
           written == [tracks |-> SetFor(b, k), ttl |-> SetTTL]
<1>1. RecTypes /\ d \in BuildRecord /\ BuildKnows(d) /\ "popular" \in RecKeys
  BY DEF RecInv, RecTypes, RecKeys
<1>2. /\ d.pc = "publish" /\ UNCHANGED <<sinceBuild, playable, likes, others>>
      /\ rset' = rset \/ rset' = [rset EXCEPT ![k] = written]
      /\ k = "popular" => rset' = [rset EXCEPT ![k] = written]
      /\ build' = [build EXCEPT ![b] = new]
  BY <1>1 DEF PublishSet, RecTypes, Skipped
<1>3. /\ new \in BuildRecord /\ new.pc = "publish" /\ new.excluded = d.excluded /\ new.age = d.age
      /\ new.left = d.left \ {k}
  BY <1>1, <1>2 DEF BuildRecord
<1>4. d.age \in 0..BuildTime /\ d.tracks \subseteq RecTracks
  BY <1>1 DEF BuildRecord
<1>5. SetFor(b, k) \subseteq RecTracks
      /\ (k \in RecUsers => \A t \in SetFor(b, k) : <<k, t>> \notin d.excluded)
  BY <1>4 DEF SetFor
<1> HIDE DEF new
<1>6. /\ rset' \in [RecKeys -> [tracks : SUBSET RecTracks, ttl : 0..SetTTL]]
      /\ \A j \in RecKeys : \/ rset'[j] = rset[j]
                            \/ j = k /\ rset'[j].tracks = SetFor(b, k) /\ rset'[j].ttl = SetTTL
      /\ k = "popular" => rset'["popular"].ttl = SetTTL
  <2>1. written \in [tracks : SUBSET RecTracks, ttl : 0..SetTTL] /\ written.tracks = SetFor(b, k) /\ written.ttl = SetTTL
    BY <1>5
  <2>2. rset \in [RecKeys -> [tracks : SUBSET RecTracks, ttl : 0..SetTTL]]
    BY <1>1 DEF RecTypes
  <2> HIDE DEF written
  <2>3. QED
    BY <1>2, <2>1, <2>2
<1>7. build' \in [Builders -> BuildRecord] /\ \A a \in Builders : build'[a] = IF a = b THEN new ELSE build[a]
  BY <1>1, <1>2, <1>3 DEF RecTypes
<1>8. RecTypes'
  BY <1>1, <1>2, <1>6, <1>7 DEF RecTypes
<1>9. ASSUME NEW u \in RecUsers PROVE SetKnows(u)'
  <2>1. u \in RecKeys
    BY DEF RecKeys
  <2>2. CASE rset'[u] = rset[u]
    BY <1>2, <2>2 DEF RecInv, SetKnows
  <2>3. CASE u = k /\ rset'[u].tracks = SetFor(b, k) /\ rset'[u].ttl = SetTTL
    <3>1. ASSUME NEW t \in SetFor(b, k) PROVE likes[u][t] <= SetTTL - SetTTL + BuildTime + 1
      <4>1. t \in RecTracks /\ <<u, t>> \notin d.excluded
        BY <1>5, <2>3
      <4>2. likes[u][t] <= d.age + 1 /\ likes[u][t] \in 0..Long
        BY <1>1, <1>2, <4>1 DEF BuildKnows, RecTypes
      <4>3. Long \in Nat
        BY DEF Long
      <4>4. QED
        BY <1>4, <4>2, <4>3
    <3>2. QED
      BY <1>2, <2>3, <3>1 DEF SetKnows
  <2>4. QED
    BY <1>6, <2>1, <2>2, <2>3
<1>10. rset["popular"].ttl \in 0..SetTTL /\ rset'["popular"].ttl \in 0..SetTTL
       /\ rset["popular"].ttl <= rset'["popular"].ttl
  BY <1>1, <1>6 DEF RecTypes
<1>11. ASSUME NEW a \in Builders PROVE BuildKnows(build[a])'
  <2>1. build[a] \in BuildRecord /\ BuildKnows(build[a])
    BY <1>1 DEF RecInv, RecTypes
  <2>2. build[a].age \in Nat
    BY <2>1 DEF BuildRecord
  <2>3. CASE a # b
    BY <1>2, <1>7, <1>10, <2>1, <2>2, <2>3 DEF BuildKnows
  <2>4. CASE a = b
    <3>1. "popular" \notin new.left => SetTTL <= rset'["popular"].ttl + new.age
      <4>1. CASE k = "popular"
        BY <1>3, <1>4, <1>6, <4>1
      <4>2. CASE k # "popular"
        BY <1>1, <1>2, <1>3, <1>4, <1>10, <4>2 DEF BuildKnows
      <4>3. QED
        BY <4>1, <4>2
    <3>2. QED
      BY <1>1, <1>2, <1>3, <1>7, <2>4, <3>1 DEF BuildKnows
  <2>5. QED
    BY <2>3, <2>4
<1>12. PopularKnows'
  BY <1>1, <1>2, <1>10 DEF RecInv, PopularKnows, RecTypes
<1>13. QED
  BY <1>8, <1>9, <1>11, <1>12 DEF RecInv

\* The invariant is inductive.
LEMMA RecInvNext == RecInv /\ [RecommendationsNext]_recVars => RecInv'
<1> SUFFICES ASSUME RecInv, [RecommendationsNext]_recVars PROVE RecInv'
  OBVIOUS
<1> USE RecAssumption
<1>1. RecTypes /\ Long \in Nat /\ Long >= 1 /\ NoBuild \in BuildRecord /\ BuildKnows(NoBuild)
  BY DEF RecInv, Long, NoBuild, BuildRecord, BuildKnows
<1>2. ASSUME NEW u \in RecUsers, NEW t \in RecTracks, Like(u, t) PROVE RecInv'
  <2>1. UNCHANGED <<sinceBuild, playable, others, rset, build>>
    BY <1>2 DEF Like
  <2>2. likes' \in [RecUsers -> [RecTracks -> 0..Long]]
        /\ \A v \in RecUsers, s \in RecTracks : likes'[v][s] = likes[v][s] \/ likes'[v][s] \in {0, 1}
    <3>1. likes \in [RecUsers -> [RecTracks -> 0..Long]] /\ likes[u] \in [RecTracks -> 0..Long]
      BY <1>1 DEF RecTypes
    <3>2. PICK n \in {0, 1} : likes' = [likes EXCEPT ![u][t] = n]
      BY <1>2 DEF Like, NotLiked
    <3>3. [likes[u] EXCEPT ![t] = n] \in [RecTracks -> 0..Long]
      BY <1>1, <3>1
    <3>4. QED
      BY <3>1, <3>2, <3>3
  <2>3. RecTypes'
    BY <1>1, <2>1, <2>2 DEF RecTypes
  <2>4. ASSUME NEW v \in RecUsers PROVE SetKnows(v)'
    <3> SUFFICES ASSUME rset[v].ttl > 0, NEW s \in rset[v].tracks
                 PROVE  likes'[v][s] <= SetTTL - rset[v].ttl + BuildTime + 1
      BY <2>1 DEF SetKnows
    <3>1. s \in RecTracks /\ rset[v].ttl \in 0..SetTTL
      BY <1>1 DEF RecTypes, RecKeys
    <3>2. likes[v][s] <= SetTTL - rset[v].ttl + BuildTime + 1
      BY DEF RecInv, SetKnows
    <3>3. QED
      BY <2>2, <3>1, <3>2
  <2>5. ASSUME NEW b \in Builders PROVE BuildKnows(build[b])'
    <3>1. BuildKnows(build[b]) /\ build[b].age \in Nat
      BY <1>1 DEF RecInv, RecTypes, BuildRecord
    <3>2. QED
      BY <2>1, <2>2, <3>1 DEF BuildKnows
  <2>6. QED
    BY <2>1, <2>3, <2>4, <2>5 DEF RecInv, PopularKnows
<1>3. ASSUME NEW t \in RecTracks, CatalogChange(t) PROVE RecInv'
  <2>1. playable' \in SUBSET RecTracks /\ UNCHANGED <<sinceBuild, likes, others, rset, build>>
    BY <1>1, <1>3 DEF CatalogChange, RecTypes
  <2>2. QED
    BY <2>1 DEF RecInv, RecTypes, SetKnows, BuildKnows, PopularKnows
<1>4. ASSUME NEW b \in Builders, ReadCatalog(b) PROVE RecInv'
  <2> DEFINE new == [NoBuild EXCEPT !.pc = "signals", !.tracks = playable]
  <2>1. new \in BuildRecord /\ new.pc = "signals"
    BY <1>1 DEF NoBuild, BuildRecord, RecTypes
  <2>2. build' = [build EXCEPT ![b] = new] /\ UNCHANGED <<sinceBuild, playable, likes, others, rset>>
    BY <1>4 DEF ReadCatalog, BuildStep
  <2> HIDE DEF new
  <2>3. BuildKnows(new)
    BY <2>1 DEF BuildKnows
  <2>4. sinceBuild' \in 0..SetTTL /\ PopularKnows'
    BY <1>1, <2>2 DEF RecInv, RecTypes, PopularKnows
  <2>5. QED
    BY <2>1, <2>2, <2>3, <2>4, BuilderStep
<1>5. ASSUME NEW b \in Builders, ReadSignals(b) PROVE RecInv'
  <2> DEFINE now == {ut \in RecUsers \X RecTracks : ut[2] \in Excluded(ut[1])}
             who == {u \in RecUsers : others[u] # {} \/ Excluded(u) # {}}
             new == [build[b] EXCEPT !.pc = "publish", !.left = RecKeys, !.known = who, !.excluded = now]
  <2>1. build[b] \in BuildRecord
    BY <1>1 DEF RecTypes
  <2>2. \A u \in RecUsers, t \in RecTracks : <<u, t>> \notin now => likes[u][t] = 0
    BY DEF NotLiked, Excluded
  <2>3. now \subseteq RecUsers \X RecTracks /\ who \subseteq RecUsers
    OBVIOUS
  <2>4. build' = [build EXCEPT ![b] = new] /\ UNCHANGED <<sinceBuild, playable, likes, others, rset>>
    BY <1>5 DEF ReadSignals, BuildStep
  <2> HIDE DEF now, who
  <2>5. /\ new \in BuildRecord /\ new.pc = "publish" /\ new.left = RecKeys /\ new.excluded = now
        /\ new.age = build[b].age /\ build[b].age \in Nat
    <3>1. build[b].age \in Nat
      BY <2>1 DEF BuildRecord
    <3>2. QED
      BY <2>1, <2>3, <3>1, Zenon DEF BuildRecord
  <2> HIDE DEF new
  <2>6. BuildKnows(new)
    BY <2>2, <2>5 DEF BuildKnows, RecKeys
  <2>7. sinceBuild' \in 0..SetTTL /\ PopularKnows'
    BY <1>1, <2>4 DEF RecInv, RecTypes, PopularKnows
  <2>8. QED
    BY <2>4, <2>5, <2>6, <2>7, BuilderStep
<1>6. ASSUME NEW b \in Builders, FinishBuild(b) PROVE RecInv'
  <2>1. /\ build[b].left = {} /\ build[b].pc = "publish" /\ sinceBuild' = 0
        /\ build' = [build EXCEPT ![b] = NoBuild] /\ UNCHANGED <<playable, likes, others, rset>>
    BY <1>6 DEF FinishBuild, BuildStep
  <2>2. build[b].age \in 0..BuildTime /\ rset["popular"].ttl \in Nat
    BY <1>1 DEF RecTypes, BuildRecord, RecKeys
  <2>3. SetTTL <= rset["popular"].ttl + build[b].age
    BY <2>1 DEF RecInv, BuildKnows
  <2>4. PopularKnows'
    BY <2>1, <2>2, <2>3 DEF PopularKnows
  <2>5. sinceBuild' \in 0..SetTTL
    BY <2>1
  <2>6. QED
    BY <1>1, <2>1, <2>4, <2>5, BuilderStep
<1>7. ASSUME NEW b \in Builders, BuildFails(b) PROVE RecInv'
  <2>1. build' = [build EXCEPT ![b] = NoBuild] /\ UNCHANGED <<sinceBuild, playable, likes, others, rset>>
    BY <1>7 DEF BuildFails
  <2>2. sinceBuild' \in 0..SetTTL /\ PopularKnows'
    BY <1>1, <2>1 DEF RecInv, RecTypes, PopularKnows
  <2>3. QED
    BY <1>1, <2>1, <2>2, BuilderStep
<1>8. CASE UNCHANGED recVars
  BY <1>8 DEF recVars, RecInv, RecTypes, SetKnows, BuildKnows, PopularKnows
<1>9. ASSUME NEW u \in RecUsers, NEW x \in OtherSignals, OtherSignal(u, x) PROVE RecInv'
  <2>1. PICK o : o = IF x \in others[u] THEN others[u] \ {x} ELSE others[u] \cup {x}
    OBVIOUS
  <2>2. o \subseteq OtherSignals
    BY <1>1, <2>1 DEF RecTypes
  <2>3. others' = [others EXCEPT ![u] = o] /\ UNCHANGED <<sinceBuild, playable, likes, rset, build>>
    BY <1>9, <2>1 DEF OtherSignal
  <2>4. others' \in [RecUsers -> SUBSET OtherSignals]
    BY <1>1, <2>2, <2>3 DEF RecTypes
  <2>5. QED
    BY <2>3, <2>4 DEF RecInv, RecTypes, SetKnows, BuildKnows, PopularKnows
<1>10. QED
  BY <1>2, <1>3, <1>4, <1>5, <1>6, <1>7, <1>8, <1>9, TickKeepsRecs, PublishKeepsRecs DEF RecommendationsNext

\* The recommendation worker and service, for any TTL, build time and number of
\* builders: no track liked for longer than a set and a build live is offered
\* as personal, and after a build that succeeded nobody is left without a set.
THEOREM RecommendationsStayCurrent == RecommendationsSpec => []RecommendationsCurrent
<1>1. RecInv => RecommendationsCurrent
  <2> SUFFICES ASSUME RecInv PROVE LikedLeaves /\ FallsBackToPopular
    BY DEF RecommendationsCurrent
  <2> USE RecAssumption
  <2>1. RecTypes /\ Long \in Nat
    BY DEF RecInv, Long
  <2>2. ASSUME NEW u \in RecUsers, Answer(u).source = "personal", NEW t \in Answer(u).tracks
        PROVE  likes[u][t] <= SetTTL + BuildTime
    <3>1. Stored(u) /\ Answer(u).tracks = rset[u].tracks
      BY <2>2 DEF Answer
    <3>2. rset[u].ttl \in 0..SetTTL /\ rset[u].ttl > 0 /\ t \in rset[u].tracks /\ t \in RecTracks
      BY <2>1, <3>1 DEF RecTypes, RecKeys, Stored
    <3>3. likes[u][t] <= SetTTL - rset[u].ttl + BuildTime + 1 /\ likes[u][t] \in 0..Long
      BY <2>1, <3>2 DEF RecInv, SetKnows, RecTypes
    <3>4. QED
      BY <2>1, <3>2, <3>3
  <2>3. FallsBackToPopular
    <3> SUFFICES ASSUME sinceBuild < SetTTL - BuildTime, NEW u \in RecUsers \cup {Guest}
                 PROVE  Answer(u).source # "none"
      BY DEF FallsBackToPopular
    <3>1. rset["popular"].ttl \in Nat /\ sinceBuild \in Nat
      BY <2>1 DEF RecTypes, RecKeys
    <3>2. Stored("popular")
      BY <3>1 DEF RecInv, PopularKnows, Stored
    <3>3. QED
      BY <3>2 DEF Answer
  <2>4. QED
    BY <2>2, <2>3 DEF LikedLeaves
<1>2. QED
  BY RecInvInit, RecInvNext, <1>1, PTL DEF RecommendationsSpec

-----------------------------------------------------------------------------
(* Profiles *)

TextSet == Texts \cup {""}
ProfileRecord == [name : Usernames \cup {0}, shown : TextSet, bio : TextSet]
CarriedRecord == [name : Usernames \cup {0}, shown : TextSet]
CallPcs == {"idle", "insert", "inserting", "update", "record", "answer"}
CallOps == {"none", "register", "patch"}
CallStatuses == {0, 200, 404, 409, 422, 500}
Attempts == 0..MaxUsernameAttempts
CallRecord ==
  [pc : CallPcs, op : CallOps, user : Accounts \cup {""}, p : ProfileRecord, attempt : Attempts,
   status : CallStatuses]

ProfileTypes ==
  /\ profile \in [Accounts -> ProfileRecord]
  /\ profileEvents \in Seq([user : Accounts, p : CarriedRecord])
  /\ acked \in SUBSET Accounts
  /\ call \in [ProfileCalls -> CallRecord]

Working(q) == q.pc \in {"insert", "inserting", "update", "record"}

\* A profile has a username, and so has what call q writes; a registration
\* that has its row written is of an account without a profile.
CallKnows(q) ==
  /\ Working(q) => q.user \in Accounts /\ q.p.name # 0 /\ q.op # "none"
  /\ q.pc \in {"insert", "inserting"} => q.op = "register" /\ q.attempt # 0
  /\ q.pc = "update" => q.op = "patch"
  /\ q.pc = "record" /\ q.op = "register" => profile[q.user] = NoProfile

\* Of one account only one open transaction has the row.
OneWriter ==
  \A c, d \in ProfileCalls :
    call[c].pc = "record" /\ call[d].pc = "record" /\ call[c].user = call[d].user => c = d

ProfileInv ==
  /\ ProfileTypes
  /\ \A u \in Accounts : profile[u] # NoProfile => profile[u].name # 0
  /\ \A i \in 1..Len(profileEvents) : profileEvents[i].p.name # 0
  /\ \A c \in ProfileCalls : CallKnows(call[c])
  /\ OneWriter
  /\ EventsReplayProfiles
  /\ AcknowledgedHasProfile

\* A call that is not at work knows nothing.
LEMMA NoCallTyped == NoCall \in CallRecord /\ NoCall.pc = "idle" /\ CallKnows(NoCall)
<1> USE ProfileAssumption
<1>1. NoProfile \in ProfileRecord
  BY DEF NoProfile, ProfileRecord, TextSet
<1>2. QED
  BY <1>1 DEF NoCall, CallRecord, CallPcs, CallOps, CallStatuses, Attempts, CallKnows, Working

\* What the steps of a call assign to its fields.
LEMMA NewFields ==
  /\ "insert" \in CallPcs /\ "inserting" \in CallPcs /\ "update" \in CallPcs
  /\ "record" \in CallPcs /\ "answer" \in CallPcs
  /\ "register" \in CallOps /\ "patch" \in CallOps
  /\ 200 \in CallStatuses /\ 1 \in Attempts
BY ProfileAssumption DEF CallPcs, CallOps, CallStatuses, Attempts

\* The initial state satisfies the invariant.
LEMMA ProfileInvInit == ProfileInit => ProfileInv
<1> SUFFICES ASSUME ProfileInit PROVE ProfileInv
  OBVIOUS
<1>1. NoProfile \in ProfileRecord
  BY DEF NoProfile, ProfileRecord, TextSet
<1>2. profileEvents = <<>> /\ Len(profileEvents) = 0 /\ acked = {}
      /\ profile = [u \in Accounts |-> NoProfile] /\ call = [c \in ProfileCalls |-> NoCall]
  BY DEF ProfileInit
<1>3. ProfileTypes
  BY <1>1, <1>2, NoCallTyped DEF ProfileTypes
<1>4. \A c \in ProfileCalls : call[c] = NoCall
  BY <1>2
<1>5. (\A c \in ProfileCalls : CallKnows(call[c])) /\ OneWriter
  BY <1>4, NoCallTyped DEF OneWriter
<1>6. QED
  BY <1>2, <1>3, <1>5 DEF ProfileInv, EventsReplayProfiles, AcknowledgedHasProfile

\* A step of one call that commits nothing.
LEMMA CallMoves ==
  ASSUME ProfileInv, NEW c \in ProfileCalls, NEW q \in CallRecord, CallKnows(q),
         call' = [call EXCEPT ![c] = q], ProfilesUnchanged,
         q.pc = "record" => \A d \in ProfileCalls \ {c} : call[d].pc = "record" => call[d].user # q.user,
         \/ acked' = acked
         \/ \E u \in Accounts : acked' = acked \cup {u} /\ profile[u] # NoProfile
  PROVE  ProfileInv'
<1>1. call' \in [ProfileCalls -> CallRecord] /\ call'[c] = q
      /\ \A d \in ProfileCalls \ {c} : call'[d] = call[d]
  BY DEF ProfileInv, ProfileTypes
<1>2. profile' = profile /\ profileEvents' = profileEvents
  BY DEF ProfilesUnchanged
<1>3. ProfileTypes'
  BY <1>1, <1>2 DEF ProfileInv, ProfileTypes
<1>4. ASSUME NEW d \in ProfileCalls PROVE CallKnows(call[d])'
  <2>1. CallKnows(call'[d])
    BY <1>1 DEF ProfileInv
  <2>2. QED
    BY <1>2, <2>1 DEF CallKnows, Working
<1>5. OneWriter'
  BY <1>1 DEF ProfileInv, OneWriter
<1>6. AcknowledgedHasProfile'
  BY <1>2 DEF ProfileInv, AcknowledgedHasProfile
<1>7. EventsReplayProfiles'
  BY <1>2 DEF ProfileInv, EventsReplayProfiles
<1>8. QED
  BY <1>2, <1>3, <1>4, <1>5, <1>6, <1>7 DEF ProfileInv

\* The commit writes the row and its event, and ends the call.
LEMMA CommitKeepsProfiles ==
  ASSUME ProfileInv, NEW c \in ProfileCalls, CommitProfile(c)
  PROVE  ProfileInv'
<1> DEFINE q == call[c]
           e == [user |-> q.user, p |-> Carried(q.p)]
<1>1. q \in CallRecord /\ CallKnows(q) /\ q.pc = "record"
  BY DEF ProfileInv, ProfileTypes, CommitProfile
<1>2. q.user \in Accounts /\ q.p \in ProfileRecord /\ q.p.name # 0 /\ q.op \in {"register", "patch"}
  BY <1>1 DEF CallKnows, Working, CallRecord, CallOps
<1>3. /\ profileEvents' = Append(profileEvents, e)
      /\ profile' = [profile EXCEPT ![q.user] = q.p]
  BY DEF CommitProfile, ProfileUpdated
<1>4. /\ profile' \in [Accounts -> ProfileRecord] /\ profile'[q.user] = q.p
      /\ \A u \in Accounts \ {q.user} : profile'[u] = profile[u]
  BY <1>2, <1>3 DEF ProfileInv, ProfileTypes
<1>5. q.p # NoProfile
  <2>1. NoProfile.name = 0
    BY DEF NoProfile
  <2>2. QED
    BY <1>2, <2>1
<1>6. PICK new \in CallRecord : /\ call' = [call EXCEPT ![c] = new] /\ ~Working(new)
                                /\ new.pc # "record"
  <2>1. CASE q.op = "register"
    <3>1. call' = [call EXCEPT ![c] = NoCall]
      BY <2>1 DEF CommitProfile, Acknowledge, CallStep
    <3>2. QED
      BY <3>1, NoCallTyped DEF Working
  <2>2. CASE q.op # "register"
    <3>1. call' = [call EXCEPT ![c] = ProfileReply("nil")]
      BY <2>2 DEF CommitProfile, CallStep
    <3>2. ProfileReply("nil") = [NoCall EXCEPT !.pc = "answer", !.status = 200]
      BY DEF ProfileReply, ProfileStatus
    <3>3. [NoCall EXCEPT !.pc = "answer", !.status = 200] \in CallRecord
          /\ [NoCall EXCEPT !.pc = "answer", !.status = 200].pc = "answer"
      BY NoCallTyped, NewFields DEF CallRecord
    <3>4. QED
      BY <3>1, <3>2, <3>3 DEF Working
  <2>3. QED
    BY <2>1, <2>2
<1>7. call' \in [ProfileCalls -> CallRecord] /\ call'[c] = new
      /\ \A d \in ProfileCalls \ {c} : call'[d] = call[d]
  BY <1>6 DEF ProfileInv, ProfileTypes
<1>8. acked' = acked \/ acked' = acked \cup {q.user}
  BY DEF CommitProfile, Acknowledge
<1>20. Carried(q.p) \in CarriedRecord /\ Carried(q.p).name # 0
  BY <1>2 DEF Carried, CarriedRecord, ProfileRecord
<1>9. e \in [user : Accounts, p : CarriedRecord] /\ profileEvents \in Seq([user : Accounts, p : CarriedRecord])
  BY <1>2, <1>20 DEF ProfileInv, ProfileTypes
<1> HIDE DEF e
<1>10. /\ profileEvents' \in Seq([user : Accounts, p : CarriedRecord])
       /\ Len(profileEvents) \in Nat /\ Len(profileEvents') = Len(profileEvents) + 1
       /\ profileEvents'[Len(profileEvents) + 1] = e
       /\ \A i \in 1..Len(profileEvents) : profileEvents'[i] = profileEvents[i]
  BY <1>3, <1>9
<1>11. ProfileTypes'
  BY <1>2, <1>4, <1>7, <1>8, <1>10 DEF ProfileInv, ProfileTypes
<1>12. \A u \in Accounts : profile'[u] # NoProfile => profile'[u].name # 0
  BY <1>2, <1>4 DEF ProfileInv
<1>13. e.user = q.user /\ e.p = Carried(q.p)
  BY DEF e
<1>14. \A i \in 1..Len(profileEvents') : profileEvents'[i].p.name # 0
  BY <1>20, <1>10, <1>13 DEF ProfileInv
<1>15. ASSUME NEW d \in ProfileCalls PROVE CallKnows(call[d])'
  <2>1. CASE d = c
    BY <1>6, <1>7, <2>1 DEF CallKnows, Working
  <2>2. CASE d # c
    <3>1. call'[d] = call[d] /\ CallKnows(call[d])
      BY <1>7, <2>2 DEF ProfileInv
    <3>2. call[d].pc = "record" => call[d].user \in Accounts \ {q.user}
      BY <1>1, <2>2, <3>1 DEF ProfileInv, OneWriter, CallKnows, Working
    <3>3. QED
      BY <1>4, <3>1, <3>2 DEF CallKnows, Working
  <2>3. QED
    BY <2>1, <2>2
<1>16. OneWriter'
  BY <1>6, <1>7 DEF ProfileInv, OneWriter
<1>17. EventsReplayProfiles'
  <2> SUFFICES ASSUME NEW u \in Accounts
               PROVE  LET of == {i \in 1..Len(profileEvents') : profileEvents'[i].user = u} IN
                      /\ of = {} => profile'[u] = NoProfile
                      /\ \A i \in of : (\A j \in of : j <= i) => Carried(profile'[u]) = profileEvents'[i].p
    BY DEF EventsReplayProfiles
  <2> DEFINE n == Len(profileEvents) + 1
             old == {i \in 1..Len(profileEvents) : profileEvents[i].user = u}
             of == {i \in 1..Len(profileEvents') : profileEvents'[i].user = u}
  <2>1. CASE u = q.user
    <3>1. n \in of /\ \A i \in of : i <= n
      BY <1>10, <1>13, <2>1
    <3>2. \A i \in of : (\A j \in of : j <= i) => i = n
      BY <1>10, <3>1
    <3>3. QED
      BY <1>4, <1>10, <1>13, <2>1, <3>1, <3>2
  <2>2. CASE u # q.user
    <3>1. of = old
      BY <1>10, <1>13, <2>2
    <3>2. \A i \in old : profileEvents'[i] = profileEvents[i]
      BY <1>10
    <3>3. /\ old = {} => profile[u] = NoProfile
          /\ \A i \in old : (\A j \in old : j <= i) => Carried(profile[u]) = profileEvents[i].p
      BY DEF ProfileInv, EventsReplayProfiles
    <3> HIDE DEF of, old
    <3>4. /\ of = {} => profile'[u] = NoProfile
          /\ \A i \in of : (\A j \in of : j <= i) => Carried(profile'[u]) = profileEvents'[i].p
      BY <1>4, <2>2, <3>1, <3>2, <3>3
    <3>5. QED
      BY <3>4 DEF of
  <2>3. QED
    BY <2>1, <2>2
<1>18. AcknowledgedHasProfile'
  <2>1. \A u \in acked : profile[u] # NoProfile /\ u \in Accounts
    BY DEF ProfileInv, AcknowledgedHasProfile, ProfileTypes
  <2>2. QED
    BY <1>2, <1>4, <1>5, <1>8, <2>1 DEF AcknowledgedHasProfile
<1>19. QED
  BY <1>11, <1>12, <1>14, <1>15, <1>16, <1>17, <1>18 DEF ProfileInv

\* Every step of a call keeps the invariant.
LEMMA CallKeepsProfiles ==
  ASSUME ProfileInv, NEW c \in ProfileCalls, ProfileCall(c)
  PROVE  ProfileInv'
<1> USE ProfileAssumption
<1> DEFINE q == call[c]
<1>1. ProfileTypes /\ q \in CallRecord /\ CallKnows(q) /\ NoProfile \in ProfileRecord
  BY DEF ProfileInv, ProfileTypes, ProfileRecord, NoProfile, TextSet
<1>2. ASSUME Acknowledge(c, "nil"), ProfilesUnchanged, q.user \in Accounts, profile[q.user] # NoProfile
      PROVE  ProfileInv'
  BY <1>2, NoCallTyped, CallMoves DEF Acknowledge, CallStep
<1>3. ASSUME NEW err, err # "nil", Acknowledge(c, err), ProfilesUnchanged PROVE ProfileInv'
  BY <1>3, NoCallTyped, CallMoves DEF Acknowledge, CallStep
<1>4. ASSUME NEW err, call' = [call EXCEPT ![c] = ProfileReply(err)], ProfilesUnchanged, UNCHANGED acked
      PROVE  ProfileInv'
  <2> DEFINE new == [NoCall EXCEPT !.pc = "answer", !.status = ProfileStatus(err)]
  <2>1. ProfileStatus(err) \in CallStatuses
    BY DEF ProfileStatus, CallStatuses
  <2>2. new \in CallRecord /\ new.pc = "answer"
    BY <2>1, NoCallTyped, NewFields DEF CallRecord
  <2>3. call' = [call EXCEPT ![c] = new]
    BY <1>4 DEF ProfileReply
  <2> HIDE DEF new
  <2>4. CallKnows(new)
    BY <2>2 DEF CallKnows, Working
  <2>5. QED
    BY <1>4, <2>2, <2>3, <2>4, CallMoves
<1>5. ASSUME NEW u \in Accounts, UserRegistered(c, u) PROVE ProfileInv'
  <2> DEFINE new == [NoCall EXCEPT !.pc = "insert", !.op = "register", !.user = u,
                                   !.p = FromRegistration, !.attempt = 1]
  <2>1. FromRegistration \in ProfileRecord /\ FromRegistration.name # 0
    <3>1. 1 \in Usernames
      OBVIOUS
    <3>2. FromRegistration = [NoProfile EXCEPT !.name = 1]
      BY DEF FromRegistration
    <3>3. QED
      BY <1>1, <3>1, <3>2 DEF ProfileRecord
  <2>2. new \in CallRecord /\ new.pc = "insert" /\ new.op = "register" /\ new.user = u
        /\ new.p = FromRegistration /\ new.attempt = 1
    BY <2>1, NoCallTyped, NewFields DEF CallRecord
  <2>3. call' = [call EXCEPT ![c] = new] /\ ProfilesUnchanged /\ acked' = acked
    BY <1>5 DEF UserRegistered, CallStep
  <2> HIDE DEF new
  <2>4. CallKnows(new)
    BY <2>1, <2>2 DEF CallKnows, Working
  <2>5. QED
    BY <2>2, <2>3, <2>4, CallMoves
<1>6. ASSUME NEW u \in Accounts, NEW sent, NEW n \in Usernames, NEW x \in Texts, NEW valid,
             Update(c, u, sent, n, x, valid)
      PROVE  ProfileInv'
  <2> DEFINE p == ApplyChanges(profile[u], sent, n, x)
             new == [NoCall EXCEPT !.pc = "update", !.op = "patch", !.user = u, !.p = p]
  <2>1. ProfilesUnchanged /\ UNCHANGED acked
    BY <1>6 DEF Update
  <2>2. CASE call' = [call EXCEPT ![c] = new] /\ profile[u] # NoProfile
    <3>1. profile[u] \in ProfileRecord /\ profile[u].name # 0
      BY <1>1, <2>2 DEF ProfileInv, ProfileTypes
    <3>2. p \in ProfileRecord /\ p.name # 0
      BY <3>1 DEF ApplyChanges, ProfileRecord, TextSet
    <3> HIDE DEF p
    <3>3. new \in CallRecord /\ new.pc = "update" /\ new.op = "patch" /\ new.user = u /\ new.p = p
      BY <3>2, NoCallTyped, NewFields DEF CallRecord
    <3> HIDE DEF new
    <3>4. CallKnows(new)
      BY <3>2, <3>3 DEF CallKnows, Working
    <3>5. QED
      BY <2>1, <2>2, <3>3, <3>4, CallMoves
  <2>3. CASE \E err \in {"ErrProfileNotFound", "ValidationError", "nil"} :
               call' = [call EXCEPT ![c] = ProfileReply(err)]
    BY <1>4, <2>1, <2>3
  <2>4. QED
    BY <1>6, <2>2, <2>3 DEF Update, CallStep
<1>7. CASE CreateIfAbsent(c)
  <2> DEFINE new == [q EXCEPT !.pc = "inserting"]
  <2>1. q.pc = "insert" /\ ProfilesUnchanged /\ q.user \in Accounts
    BY <1>1, <1>7 DEF CreateIfAbsent, CallKnows, Working
  <2>2. CASE profile[q.user] # NoProfile
    BY <1>2, <1>7, <2>1, <2>2 DEF CreateIfAbsent
  <2>3. CASE profile[q.user] = NoProfile
    <3>1. call' = [call EXCEPT ![c] = new] /\ acked' = acked
      BY <1>7, <2>3 DEF CreateIfAbsent, CallStep
    <3>2. new \in CallRecord /\ new.pc = "inserting" /\ new.op = q.op /\ new.user = q.user /\ new.p = q.p
          /\ new.attempt = q.attempt
      BY <1>1, NewFields DEF CallRecord
    <3> HIDE DEF new
    <3>3. CallKnows(new)
      BY <1>1, <2>1, <3>2 DEF CallKnows, Working
    <3>4. QED
      BY <2>1, <3>1, <3>2, <3>3, CallMoves
  <2>4. QED
    BY <2>2, <2>3
<1>8. ASSUME q.pc \in {"inserting", "update"}, ProfilesUnchanged, acked' = acked,
             ~InFlight(c, q.user, q.p.name), call' = [call EXCEPT ![c] = [q EXCEPT !.pc = "record"]],
             q.pc = "inserting" => profile[q.user] = NoProfile
      PROVE  ProfileInv'
  <2> DEFINE new == [q EXCEPT !.pc = "record"]
  <2>1. new \in CallRecord /\ new.pc = "record" /\ new.op = q.op /\ new.user = q.user /\ new.p = q.p
    BY <1>1, NewFields DEF CallRecord
  <2>2. call' = [call EXCEPT ![c] = new]
    BY <1>8
  <2> HIDE DEF new
  <2>3. CallKnows(new)
    BY <1>1, <1>8, <2>1 DEF CallKnows, Working
  <2>4. \A d \in ProfileCalls \ {c} : call[d].pc = "record" => call[d].user # new.user
    BY <1>8, <2>1 DEF InFlight
  <2>5. QED
    BY <1>8, <2>1, <2>2, <2>3, <2>4, CallMoves
<1>9. CASE Insert(c)
  <2>1. q.pc = "inserting" /\ ProfilesUnchanged /\ ~InFlight(c, q.user, q.p.name)
        /\ q.user \in Accounts /\ q.op = "register" /\ q.p.name # 0
    BY <1>1, <1>9 DEF Insert, CallKnows, Working
  <2>2. CASE profile[q.user] # NoProfile /\ Acknowledge(c, "nil")
    BY <1>2, <2>1, <2>2
  <2>3. CASE NextAttempt(c)
    <3> DEFINE n == q.attempt + 1
               new == [q EXCEPT !.pc = "insert", !.attempt = n, !.p = Suffixed(@, n)]
    <3>1. CASE n <= MaxUsernameAttempts
      <4>9. q.attempt \in Attempts /\ q.p \in ProfileRecord
        BY <1>1 DEF CallRecord
      <4>1. q.p \in ProfileRecord /\ n \in 1..MaxUsernameAttempts /\ n \in Attempts
        BY <3>1, <4>9 DEF Attempts
      <4>2. Suffixed(q.p, n) \in ProfileRecord /\ Suffixed(q.p, n).name = n /\ n # 0
        BY <4>1 DEF Suffixed, ProfileRecord
      <4>3. call' = [call EXCEPT ![c] = new] /\ acked' = acked
        BY <2>3, <3>1 DEF NextAttempt, CallStep
      <4>4. new \in CallRecord /\ new.pc = "insert" /\ new.op = q.op /\ new.user = q.user
            /\ new.p = Suffixed(q.p, n) /\ new.attempt = n
        BY <1>1, <4>1, <4>2, NewFields DEF CallRecord
      <4> HIDE DEF new
      <4>5. CallKnows(new)
        BY <2>1, <4>2, <4>4 DEF CallKnows, Working
      <4>6. QED
        BY <2>1, <4>3, <4>4, <4>5, CallMoves
    <3>2. CASE ~(n <= MaxUsernameAttempts)
      BY <1>3, <2>1, <2>3, <3>2 DEF NextAttempt
    <3>3. QED
      BY <3>1, <3>2
  <2>4. CASE /\ profile[q.user] = NoProfile
             /\ CallStep(c, "inserting", [q EXCEPT !.pc = "record"]) /\ UNCHANGED acked
    BY <1>8, <2>1, <2>4 DEF CallStep
  <2>5. QED
    BY <1>9, <2>2, <2>3, <2>4 DEF Insert
<1>10. CASE UpdateRow(c)
  <2>1. q.pc = "update" /\ ProfilesUnchanged /\ acked' = acked /\ ~InFlight(c, q.user, q.p.name)
    BY <1>10 DEF UpdateRow, CallStep
  <2>2. \/ call' = [call EXCEPT ![c] = ProfileReply("ErrUsernameTaken")]
        \/ call' = [call EXCEPT ![c] = [q EXCEPT !.pc = "record"]]
    BY <1>10 DEF UpdateRow, CallStep
  <2>3. QED
    BY <1>4, <1>8, <2>1, <2>2
<1>11. CASE ProfileTxFails(c)
  BY <1>3, <1>4, <1>11 DEF ProfileTxFails, CallStep
<1>12. CASE ProfileAnswered(c)
  BY <1>12, NoCallTyped, CallMoves DEF ProfileAnswered, CallStep
<1>13. QED
  BY <1>5, <1>6, <1>7, <1>9, <1>10, <1>11, <1>12, CommitKeepsProfiles DEF ProfileCall

\* A step that changes an existing profile is the commit of its owner's request.
LEMMA OnlyTheOwner ==
  ASSUME ProfileInv, ProfileNext, NEW u \in Accounts, profile[u] # NoProfile, profile'[u] # profile[u]
  PROVE  \E c \in ProfileCalls : call[c].op = "patch" /\ call[c].user = u /\ call[c].pc = "record"
<1>1. PICK c \in ProfileCalls : ProfileCall(c)
  BY DEF ProfileNext
<1>2. CommitProfile(c)
  BY <1>1 DEF ProfileCall, UserRegistered, Update, CreateIfAbsent, Insert, UpdateRow, ProfileTxFails,
              ProfileAnswered, ProfilesUnchanged
<1>3. call[c] \in CallRecord /\ CallKnows(call[c]) /\ call[c].pc = "record"
  BY <1>2 DEF ProfileInv, ProfileTypes, CommitProfile
<1>4. call[c].user = u
  BY <1>2 DEF CommitProfile, ProfileInv, ProfileTypes
<1>5. call[c].op = "patch"
  BY <1>3, <1>4 DEF CallKnows, Working, CallRecord, CallOps
<1>6. QED
  BY <1>3, <1>4, <1>5

\* A step of a call keeps the invariant.
LEMMA ProfileInvNext == ProfileInv /\ [ProfileNext]_profileVars => ProfileInv'
<1> SUFFICES ASSUME ProfileInv, [ProfileNext]_profileVars PROVE ProfileInv'
  OBVIOUS
<1>1. CASE ProfileNext
  BY <1>1, CallKeepsProfiles DEF ProfileNext
<1>2. CASE UNCHANGED profileVars
  <2>1. /\ profile' = profile /\ profileEvents' = profileEvents
        /\ acked' = acked /\ call' = call
    BY <1>2 DEF profileVars
  <2>2. \A c \in ProfileCalls : CallKnows(call[c])'
    BY <2>1 DEF ProfileInv, CallKnows, Working
  <2>3. ProfileTypes' /\ OneWriter' /\ EventsReplayProfiles' /\ AcknowledgedHasProfile'
    BY <2>1 DEF ProfileInv, ProfileTypes, OneWriter, EventsReplayProfiles, AcknowledgedHasProfile
  <2>4. QED
    BY <2>1, <2>2, <2>3 DEF ProfileInv
<1>3. QED
  BY <1>1, <1>2

\* The User Profile service, for any number of accounts, handlers and requests
\* and any number of username attempts: the last event of an account tells the
\* username and what is shown as its row has them (it carries no bio), an
\* acknowledged registration has left a profile, and a profile that exists is
\* only changed by its owner's request.
THEOREM ProfilesAreKept == ProfileSpec => ProfilesKept
<1>1. ProfileInv => EventsReplayProfiles /\ AcknowledgedHasProfile
  BY DEF ProfileInv
<1> DEFINE Owned == \A u \in Accounts : profile[u] # NoProfile /\ profile'[u] # profile[u]
             => \E c \in ProfileCalls : call[c].op = "patch" /\ call[c].user = u /\ call[c].pc = "record"
<1>2. ProfileInv /\ [ProfileNext]_profileVars => [Owned]_profileVars
  BY OnlyTheOwner
<1>3. QED
  BY ProfileInvInit, ProfileInvNext, <1>1, <1>2, PTL DEF ProfileSpec, ProfilesKept, OnlyOwnerChanges

-----------------------------------------------------------------------------
(* The social graph *)

ReqPcs == {"idle", "directory", "statement", "existing", "rows", "answer"}
ReqOps == {"none", "follow", "unfollow"}
ReqStatuses == {0, 204, 404, 422, 503}
ReqEdges == Edges \cup {<<>>}
Instants == 0..LastInstant
Held == SUBSET (Edges \cup {<<s>> : s \in Subjects})
ReqRecord == [pc : ReqPcs, op : ReqOps, edge : ReqEdges, at : Instants, held : Held, status : ReqStatuses]
CountRecord == [followers : Int, users : Int, artists : Int]
EventRecord == [type : {"followed", "unfollowed"}, edge : Edges]

SocialTypes ==
  /\ follows \in [Edges -> Instants]
  /\ counters \in [Subjects -> CountRecord]
  /\ socialEvents \in Seq(EventRecord)
  /\ socialReq \in [SocialReqs -> ReqRecord]

\* A follow that has its key found no edge and has a time to give it; an
\* unfollow that has the row found an edge.  Both hold the edge's key, and
\* nothing is held outside a transaction that has it.
ReqKnows(q) ==
  /\ q.pc \in {"directory", "statement", "existing", "rows"} => q.edge \in Edges
  /\ q.pc = "directory" => q.op = "follow"
  /\ q.pc \in {"statement", "rows"} /\ q.op = "follow" => q.at # 0
  /\ q.pc = "rows" => q.edge \in q.held /\ (q.op = "follow" <=> follows[q.edge] = 0)
  /\ q.pc # "rows" => q.held = {}

\* Of one edge only one open transaction has the key.
OneHolder ==
  \A r, o \in SocialReqs :
    socialReq[r].pc = "rows" /\ socialReq[o].pc = "rows" /\ socialReq[r].edge = socialReq[o].edge => r = o

SocialInv ==
  /\ SocialTypes
  /\ \A r \in SocialReqs : ReqKnows(socialReq[r])
  /\ OneHolder
  /\ CountersMatchEdges
  /\ EventsReplayGraph

\* What Bump adds, and where.
LEMMA BumpAdds ==
  ASSUME NEW c \in [Subjects -> CountRecord], NEW e \in Edges, NEW n \in Int, NEW new, new = Bump(c, e, n)
  PROVE  /\ new \in [Subjects -> CountRecord]
         /\ \A s \in Subjects :
              /\ new[s].followers = c[s].followers + (IF s = e[2] THEN n ELSE 0)
              /\ new[s].users = c[s].users + (IF s = e[1] /\ IsUser(e[2]) THEN n ELSE 0)
              /\ new[s].artists = c[s].artists + (IF s = e[1] /\ ~IsUser(e[2]) THEN n ELSE 0)
<1>1. e[1] \in Subjects /\ e[2] \in Subjects
  BY DEF Edges, Subjects
<1> DEFINE c1 == [c EXCEPT ![e[2]].followers = @ + n]
           c2 == [c1 EXCEPT ![e[1]].users = IF IsUser(e[2]) THEN @ + n ELSE @]
           c3 == [c2 EXCEPT ![e[1]].artists = IF IsUser(e[2]) THEN @ ELSE @ + n]
<1>2. new = c3
  BY ZenonT(30) DEF Bump
<1>3. /\ c1 \in [Subjects -> CountRecord]
      /\ \A s \in Subjects :
           /\ c1[s].followers = c[s].followers + (IF s = e[2] THEN n ELSE 0)
           /\ c1[s].users = c[s].users /\ c1[s].artists = c[s].artists
  BY <1>1 DEF CountRecord
<1> HIDE DEF c1
<1>4. /\ c2 \in [Subjects -> CountRecord]
      /\ \A s \in Subjects :
           /\ c2[s].users = c1[s].users + (IF s = e[1] /\ IsUser(e[2]) THEN n ELSE 0)
           /\ c2[s].followers = c1[s].followers /\ c2[s].artists = c1[s].artists
  BY <1>1, <1>3 DEF CountRecord
<1> HIDE DEF c2
<1>5. /\ c3 \in [Subjects -> CountRecord]
      /\ \A s \in Subjects :
           /\ c3[s].artists = c2[s].artists + (IF s = e[1] /\ ~IsUser(e[2]) THEN n ELSE 0)
           /\ c3[s].followers = c2[s].followers /\ c3[s].users = c2[s].users
  BY <1>1, <1>4 DEF CountRecord
<1> HIDE DEF c3
<1>6. QED
  BY <1>2, <1>3, <1>4, <1>5

\* The rows of a list are finitely many.
LEMMA ListsFinite ==
  ASSUME SocialTypes, NEW s \in Subjects, NEW users \in BOOLEAN
  PROVE  /\ IsFiniteSet({u \in Listeners : follows[<<u, s>>] # 0})
         /\ s \in Listeners => IsFiniteSet(FollowingRows(s, users))
<1> USE SocialAssumption
<1>1. IsFiniteSet(Instants) /\ IsFiniteSet(Subjects)
  <2>1. IsFiniteSet(0..LastInstant)
    BY FS_Interval
  <2>2. IsFiniteSet(Listeners \cup Artists)
    BY FS_Union
  <2>3. QED
    BY <2>1, <2>2 DEF Instants, Subjects
<1>2. IsFiniteSet(Instants \X Subjects)
  BY <1>1, FS_Product
<1>3. s \in Listeners => FollowingRows(s, users) \subseteq Instants \X Subjects
  <2> SUFFICES ASSUME s \in Listeners, NEW x \in FollowingRows(s, users) PROVE x \in Instants \X Subjects
    OBVIOUS
  <2>1. PICK t \in Subjects : x = <<follows[<<s, t>>], t>>
    BY DEF FollowingRows
  <2>2. <<s, t>> \in Edges
    BY DEF Edges
  <2>3. QED
    BY <2>1, <2>2 DEF SocialTypes
<1>4. QED
  BY <1>2, <1>3, FS_Subset

\* A commit adds one edge or removes one, and changes the counters of its two
\* ends by as much.
LEMMA CountersFollow ==
  ASSUME SocialTypes, CountersMatchEdges, NEW e \in Edges, NEW v \in Instants, NEW n \in Int,
         follows' = [follows EXCEPT ![e] = v], counters' = Bump(counters, e, n),
         \/ follows[e] = 0 /\ v # 0 /\ n = 1
         \/ follows[e] # 0 /\ v = 0 /\ n = -1
  PROVE  CountersMatchEdges'
<1>1. PICK a \in Listeners, b \in Subjects : e = <<a, b>>
  BY DEF Edges
<1>2. a \in Subjects /\ e[1] = a /\ e[2] = b
  BY <1>1 DEF Subjects
<1>3. /\ follows \in [Edges -> Instants] /\ follows'[<<a, b>>] = v
      /\ \A u \in Listeners, t \in Subjects : <<u, t>> # <<a, b>> => follows'[<<u, t>>] = follows[<<u, t>>]
  BY <1>1 DEF SocialTypes, Edges
<1>4. \A s \in Subjects :
        /\ counters'[s].followers = counters[s].followers + (IF s = b THEN n ELSE 0)
        /\ counters'[s].users = counters[s].users + (IF s = a /\ IsUser(b) THEN n ELSE 0)
        /\ counters'[s].artists = counters[s].artists + (IF s = a /\ ~IsUser(b) THEN n ELSE 0)
        /\ counters[s].followers \in Int /\ counters[s].users \in Int /\ counters[s].artists \in Int
  <2>1. counters \in [Subjects -> CountRecord]
    BY DEF SocialTypes
  <2>2. \A s \in Subjects : counters[s].followers \in Int /\ counters[s].users \in Int /\ counters[s].artists \in Int
    BY <2>1 DEF CountRecord
  <2>3. QED
    BY <1>2, <2>1, <2>2, BumpAdds
<1>5. ASSUME NEW s \in Subjects
      PROVE  Cardinality({u \in Listeners : follows'[<<u, s>>] # 0})
               = Cardinality({u \in Listeners : follows[<<u, s>>] # 0}) + (IF s = b THEN n ELSE 0)
  <2> DEFINE old == {u \in Listeners : follows[<<u, s>>] # 0}
             new == {u \in Listeners : follows'[<<u, s>>] # 0}
  <2>1. IsFiniteSet(old) /\ Cardinality(old) \in Nat
    BY ListsFinite, FS_CardinalityType
  <2>2. CASE s # b
    <3>1. new = old
      BY <1>3, <2>2
    <3> HIDE DEF old, new
    <3>2. Cardinality(new) = Cardinality(old) + 0
      BY <2>1, <3>1
    <3>3. QED
      BY <2>2, <3>2 DEF old, new
  <2>3. CASE s = b /\ n = 1
    <3>1. new = old \cup {a} /\ a \notin old
      BY <1>1, <1>3, <2>3
    <3> HIDE DEF old, new
    <3>2. Cardinality(new) = Cardinality(old) + 1
      BY <2>1, <3>1, FS_AddElement
    <3>3. QED
      BY <2>3, <3>2 DEF old, new
  <2>4. CASE s = b /\ n = -1
    <3>1. new = old \ {a} /\ a \in old
      BY <1>1, <1>3, <2>4
    <3> HIDE DEF old, new
    <3>2. Cardinality(new) = Cardinality(old) - 1
      BY <2>1, <3>1, FS_RemoveElement
    <3>3. QED
      BY <2>1, <2>4, <3>2 DEF old, new
  <2>5. QED
    BY <2>2, <2>3, <2>4
<1>6. ASSUME NEW s \in Listeners, NEW users \in BOOLEAN
      PROVE  Cardinality(FollowingRows(s, users)')
               = Cardinality(FollowingRows(s, users)) + (IF s = a /\ IsUser(b) = users THEN n ELSE 0)
  <2> DEFINE old == FollowingRows(s, users)
             new == {<<follows'[<<s, t>>], t>> :
                       t \in {x \in Subjects : IsUser(x) = users /\ follows'[<<s, x>>] # 0}}
  <2>1. FollowingRows(s, users)' = new
    BY DEF FollowingRows
  <2>2. IsFiniteSet(old) /\ Cardinality(old) \in Nat
    BY ListsFinite, FS_CardinalityType DEF Subjects
  <2>3. CASE ~(s = a /\ IsUser(b) = users)
    <3>1. \A t \in Subjects : IsUser(t) = users => follows'[<<s, t>>] = follows[<<s, t>>]
      BY <1>3, <2>3
    <3>2. new = old
      BY <3>1 DEF FollowingRows
    <3> HIDE DEF old, new
    <3>3. Cardinality(new) = Cardinality(old) + 0
      BY <2>2, <3>2
    <3>4. QED
      BY <2>1, <2>3, <3>3 DEF old
  <2>4. CASE s = a /\ IsUser(b) = users
    <3>1. \A t \in Subjects \ {b} : follows'[<<s, t>>] = follows[<<s, t>>]
      BY <1>3, <2>4
    <3>2. CASE n = 1
      <4>1. follows[<<s, b>>] = 0 /\ follows'[<<s, b>>] = v /\ v # 0
        BY <1>1, <1>3, <2>4, <3>2
      <4>2. new = old \cup {<<v, b>>}
        BY <2>4, <3>1, <4>1 DEF FollowingRows
      <4>3. <<v, b>> \notin old
        BY <2>4, <4>1 DEF FollowingRows
      <4> HIDE DEF old, new
      <4>4. Cardinality(new) = Cardinality(old) + 1
        BY <2>2, <4>2, <4>3, FS_AddElement
      <4>5. QED
        BY <2>1, <2>4, <3>2, <4>4 DEF old
    <3>3. CASE n = -1
      <4>1. follows[<<s, b>>] # 0 /\ follows'[<<s, b>>] = 0
        BY <1>1, <1>3, <2>4, <3>3
      <4>2. new = old \ {<<follows[<<s, b>>], b>>}
        <5>1. ASSUME NEW x \in new PROVE x \in old \ {<<follows[<<s, b>>], b>>}
          <6>1. PICK t \in Subjects : /\ IsUser(t) = users /\ follows'[<<s, t>>] # 0
                                      /\ x = <<follows'[<<s, t>>], t>>
            BY <5>1
          <6>2. t # b
            BY <4>1, <6>1
          <6>3. QED
            BY <3>1, <6>1, <6>2 DEF FollowingRows
        <5>2. ASSUME NEW x \in old \ {<<follows[<<s, b>>], b>>} PROVE x \in new
          <6>1. PICK t \in Subjects : /\ IsUser(t) = users /\ follows[<<s, t>>] # 0
                                      /\ x = <<follows[<<s, t>>], t>>
            BY <5>2 DEF FollowingRows
          <6>2. t # b
            BY <5>2, <6>1
          <6>3. QED
            BY <3>1, <6>1, <6>2
        <5>3. QED
          BY <5>1, <5>2
      <4>3. <<follows[<<s, b>>], b>> \in old
        BY <2>4, <4>1 DEF FollowingRows
      <4> HIDE DEF old, new
      <4>4. Cardinality(new) = Cardinality(old) - 1
        BY <2>2, <4>2, <4>3, FS_RemoveElement
      <4>5. QED
        BY <2>1, <2>2, <2>4, <3>3, <4>4 DEF old
    <3>4. QED
      BY <3>2, <3>3
  <2>5. QED
    BY <2>3, <2>4
<1>7. ASSUME NEW s \in Subjects
      PROVE  counters'[s].followers = Cardinality({u \in Listeners : follows'[<<u, s>>] # 0})
  <2>1. counters[s].followers = Cardinality({u \in Listeners : follows[<<u, s>>] # 0})
    BY DEF CountersMatchEdges, Counts
  <2>2. QED
    BY <1>4, <1>5, <2>1
<1>8. ASSUME NEW s \in Listeners
      PROVE  /\ counters'[s].users = Cardinality(FollowingRows(s, TRUE)')
             /\ counters'[s].artists = Cardinality(FollowingRows(s, FALSE)')
  <2>1. /\ counters[s].users = Cardinality(FollowingRows(s, TRUE))
        /\ counters[s].artists = Cardinality(FollowingRows(s, FALSE))
    BY DEF CountersMatchEdges, Counts, IsUser, Subjects
  <2>2. /\ Cardinality(FollowingRows(s, TRUE)')
             = Cardinality(FollowingRows(s, TRUE)) + (IF s = a /\ IsUser(b) THEN n ELSE 0)
        /\ Cardinality(FollowingRows(s, FALSE)')
             = Cardinality(FollowingRows(s, FALSE)) + (IF s = a /\ ~IsUser(b) THEN n ELSE 0)
    <3>1. (IsUser(b) = TRUE) = IsUser(b) /\ (IsUser(b) = FALSE) = ~IsUser(b)
      BY DEF IsUser
    <3>2. QED
      BY <1>6, <3>1
  <2>3. s \in Subjects
    BY DEF Subjects
  <2>4. QED
    BY <1>4, <2>1, <2>2, <2>3
<1>9. QED
  BY <1>7, <1>8 DEF CountersMatchEdges, Counts, IsUser

\* The event of a commit continues those of its edge, and says what it did.
LEMMA EventsFollow ==
  ASSUME SocialTypes, EventsReplayGraph, NEW e \in Edges, NEW v \in Instants, NEW ev \in EventRecord,
         ev.edge = e, (ev.type = "followed") <=> follows[e] = 0, (ev.type = "followed") <=> v # 0,
         follows' = [follows EXCEPT ![e] = v], socialEvents' = Append(socialEvents, ev)
  PROVE  EventsReplayGraph'
<1> DEFINE n == Len(socialEvents) + 1
<1>1. follows'[e] = v /\ \A x \in Edges \ {e} : follows'[x] = follows[x]
  BY DEF SocialTypes
<1>2. socialEvents \in Seq(EventRecord)
  BY DEF SocialTypes
<1>3. /\ Len(socialEvents) \in Nat /\ Len(socialEvents') = n
      /\ socialEvents'[n] = ev
      /\ \A i \in 1..Len(socialEvents) : socialEvents'[i] = socialEvents[i]
  BY <1>2
<1> SUFFICES ASSUME NEW x \in Edges
             PROVE  LET of == {i \in 1..Len(socialEvents') : socialEvents'[i].edge = x} IN
                    /\ \A i \in of : (\A j \in of : i <= j) => socialEvents'[i].type = "followed"
                    /\ \A i, j \in of : (i < j /\ \A k \in of : k <= i \/ j <= k)
                         => (socialEvents'[i].type = "followed") # (socialEvents'[j].type = "followed")
                    /\ (follows'[x] # 0)
                         = (\E i \in of : socialEvents'[i].type = "followed" /\ \A j \in of : j <= i)
  BY DEF EventsReplayGraph, EventsOf, IsFollow, Consecutive
<1> DEFINE old == {i \in 1..Len(socialEvents) : socialEvents[i].edge = x}
           of == {i \in 1..Len(socialEvents') : socialEvents'[i].edge = x}
           F(i) == socialEvents[i].type = "followed"
           G(i) == socialEvents'[i].type = "followed"
<1>4. /\ \A i \in old : (\A j \in old : i <= j) => F(i)
      /\ \A i, j \in old : (i < j /\ \A k \in old : k <= i \/ j <= k) => F(i) # F(j)
      /\ (follows[x] # 0) = (\E i \in old : F(i) /\ \A j \in old : j <= i)
  BY DEF EventsReplayGraph, EventsOf, IsFollow, Consecutive
<1>5. \A i \in old : i \in Nat /\ i < n /\ G(i) = F(i)
  BY <1>3
<1>6. CASE x # e
  <2>1. of = old
    BY <1>3, <1>6
  <2> HIDE DEF of, old, F, G
  <2>2. /\ \A i \in of : (\A j \in of : i <= j) => G(i)
        /\ \A i, j \in of : (i < j /\ \A k \in of : k <= i \/ j <= k) => G(i) # G(j)
        /\ (follows'[x] # 0) = (\E i \in of : G(i) /\ \A j \in of : j <= i)
    <3>1. follows'[x] = follows[x]
      BY <1>1, <1>6
    <3>2. \A i \in old : G(i) <=> F(i)
      BY <1>5 DEF F, G
    <3>3. \A i \in of : (\A j \in of : i <= j) => G(i)
      BY <1>4, <2>1, <3>2
    <3>4. \A i, j \in of : (i < j /\ \A k \in of : k <= i \/ j <= k) => G(i) # G(j)
      BY <1>4, <1>5, <2>1
    <3>5. (\E i \in of : G(i) /\ \A j \in of : j <= i) <=> (\E i \in old : F(i) /\ \A j \in old : j <= i)
      BY <2>1, <3>2
    <3>6. QED
      BY <1>4, <3>1, <3>3, <3>4, <3>5
  <2>3. QED
    BY <2>2 DEF of, G
<1>7. CASE x = e
  <2>1. of = old \cup {n} /\ n \in Nat
    BY <1>3, <1>7
  <2>2. G(n) = (follows[x] = 0) /\ G(n) = (follows'[x] # 0)
    BY <1>1, <1>3, <1>7
  <2> HIDE DEF of, old, F, G, n
  <2>3. ASSUME NEW i \in of, \A j \in of : i <= j PROVE G(i)
    <3>1. CASE i = n
      <4>1. old = {}
        BY <1>5, <2>1, <2>3, <3>1
      <4>2. follows[x] = 0
        BY <1>4, <4>1
      <4>3. QED
        BY <2>2, <3>1, <4>2
    <3>2. CASE i # n
      BY <1>4, <1>5, <2>1, <2>3, <3>2
    <3>3. QED
      BY <3>1, <3>2
  <2>4. ASSUME NEW i \in of, NEW j \in of, i < j, \A k \in of : k <= i \/ j <= k PROVE G(i) # G(j)
    <3>1. i \in old
      BY <1>5, <2>1, <2>4
    <3>2. CASE j = n
      <4>1. \A k \in old : k <= i
        BY <1>5, <2>1, <2>4, <3>2
      <4>2. \A k \in old : (\A l \in old : l <= k) => k = i
        BY <1>5, <3>1, <4>1
      <4>3. F(i) = (follows[x] # 0)
        BY <1>4, <3>1, <4>1, <4>2 DEF F
      <4>4. QED
        BY <1>5, <2>2, <3>1, <3>2, <4>3
    <3>3. CASE j # n
      <4>1. j \in old /\ \A k \in old : k <= i \/ j <= k
        BY <2>1, <2>4, <3>3
      <4>2. F(i) # F(j)
        BY <1>4, <2>4, <3>1, <4>1
      <4>3. QED
        BY <1>5, <3>1, <4>1, <4>2
    <3>4. QED
      BY <3>2, <3>3
  <2>5. (follows'[x] # 0) = (\E i \in of : G(i) /\ \A j \in of : j <= i)
    <3>1. n \in of /\ \A j \in of : j <= n
      BY <1>5, <2>1
    <3>2. \A i \in of : (\A j \in of : j <= i) => i = n
      BY <1>5, <2>1, <3>1
    <3>3. QED
      BY <2>2, <3>1, <3>2 DEF G
  <2>6. QED
    BY <2>3, <2>4, <2>5 DEF of, G
<1>8. QED
  BY <1>6, <1>7

\* Steps that leave the rows alone.
LEMMA GraphStays ==
  ASSUME CountersMatchEdges, EventsReplayGraph,
         follows' = follows, counters' = counters, socialEvents' = socialEvents
  PROVE  CountersMatchEdges' /\ EventsReplayGraph'
<1>1. \A s, users : FollowingRows(s, users)' = FollowingRows(s, users)
  BY DEF FollowingRows
<1>2. CountersMatchEdges'
  BY <1>1 DEF CountersMatchEdges, Counts
<1>3. \A e : EventsOf(e)' = EventsOf(e)
  BY DEF EventsOf
<1>4. \A i : IsFollow(i)' = IsFollow(i)
  BY DEF IsFollow
<1>5. EventsReplayGraph'
  BY <1>3, <1>4 DEF EventsReplayGraph, Consecutive
<1>6. QED
  BY <1>2, <1>5

\* A step of one request that commits nothing.
LEMMA RequestMoves ==
  ASSUME SocialInv, NEW r \in SocialReqs, NEW q \in ReqRecord, ReqKnows(q),
         socialReq' = [socialReq EXCEPT ![r] = q], GraphUnchanged,
         q.pc = "rows" => \A o \in SocialReqs \ {r} : socialReq[o].pc = "rows" => socialReq[o].edge # q.edge
  PROVE  SocialInv'
<1>1. socialReq' \in [SocialReqs -> ReqRecord] /\ socialReq'[r] = q
      /\ \A o \in SocialReqs \ {r} : socialReq'[o] = socialReq[o]
  BY DEF SocialInv, SocialTypes
<1>2. follows' = follows /\ counters' = counters /\ socialEvents' = socialEvents
  BY DEF GraphUnchanged
<1>3. SocialTypes'
  BY <1>1, <1>2 DEF SocialInv, SocialTypes
<1>4. ASSUME NEW o \in SocialReqs PROVE ReqKnows(socialReq[o])'
  <2>1. ReqKnows(socialReq'[o])
    BY <1>1 DEF SocialInv
  <2>2. QED
    BY <1>2, <2>1 DEF ReqKnows
<1>5. OneHolder'
  BY <1>1 DEF SocialInv, OneHolder
<1>6. CountersMatchEdges' /\ EventsReplayGraph'
  BY <1>2, GraphStays DEF SocialInv
<1>7. QED
  BY <1>3, <1>4, <1>5, <1>6 DEF SocialInv

\* What the steps of a request assign to its fields.
LEMMA NewRequestFields ==
  /\ "directory" \in ReqPcs /\ "statement" \in ReqPcs /\ "existing" \in ReqPcs
  /\ "rows" \in ReqPcs /\ "answer" \in ReqPcs /\ "follow" \in ReqOps /\ "unfollow" \in ReqOps
  /\ NoRequest \in ReqRecord /\ NoRequest.pc = "idle" /\ NoRequest.held = {}
<1> USE SocialAssumption
<1>1. 0 \in Instants /\ {} \in Held /\ <<>> \in ReqEdges
  BY DEF Instants, Held, ReqEdges
<1>2. QED
  BY <1>1 DEF ReqPcs, ReqOps, ReqStatuses, ReqRecord, NoRequest

\* An answered request knows nothing any more.
LEMMA AnswerTyped ==
  ASSUME NEW r \in SocialReqs, NEW err
  PROVE  /\ Answered(r, err) \in ReqRecord /\ Answered(r, err).pc = "answer" /\ Answered(r, err).held = {}
         /\ ReqKnows(Answered(r, err))
<1> DEFINE st == IF socialReq[r].op = "unfollow" THEN UnfollowStatus(err) ELSE FollowStatus(err)
           new == [NoRequest EXCEPT !.pc = "answer", !.status = st]
<1>1. st \in ReqStatuses
  BY DEF UnfollowStatus, FollowStatus, ReqStatuses
<1>2. Answered(r, err) = new
  BY DEF Answered
<1> HIDE DEF st
<1>3. new \in ReqRecord /\ new.pc = "answer" /\ new.held = {}
  BY <1>1, NewRequestFields DEF ReqRecord
<1> HIDE DEF new
<1>4. QED
  BY <1>2, <1>3 DEF ReqKnows

\* The commit changes the edge, its counters and the events, and ends the request.
LEMMA CommitKeepsGraph ==
  ASSUME SocialInv, NEW r \in SocialReqs, CommitChange(r)
  PROVE  SocialInv'
<1> USE SocialAssumption
<1> DEFINE q == socialReq[r]
           e == q.edge
           f == q.op = "follow"
           v == IF f THEN q.at ELSE 0
           ev == [type |-> IF f THEN "followed" ELSE "unfollowed", edge |-> e]
           n == IF f THEN 1 ELSE -1
<1>1. q \in ReqRecord /\ ReqKnows(q) /\ q.pc = "rows" /\ SocialTypes
  BY DEF SocialInv, SocialTypes, CommitChange, CommitReady
<1>2. q.at \in Instants /\ 0 \in Instants
  BY <1>1 DEF ReqRecord, Instants
<1>3. e \in Edges /\ (f => q.at # 0) /\ (f <=> follows[e] = 0)
  BY <1>1 DEF ReqKnows
<1>4. /\ follows' = [follows EXCEPT ![e] = v]
      /\ counters' = Bump(counters, e, n)
      /\ socialEvents' = Append(socialEvents, ev)
      /\ socialReq' = [socialReq EXCEPT ![r] = Answered(r, "nil")]
  BY DEF CommitChange, BumpFollow, BumpUnfollow, Published, Step
<1>5. ev \in EventRecord /\ ev.edge = e /\ (ev.type = "followed" <=> f)
  BY <1>3 DEF EventRecord
<1>6. /\ v \in Instants /\ n \in Int
      /\ \/ follows[e] = 0 /\ v # 0 /\ n = 1
         \/ follows[e] # 0 /\ v = 0 /\ n = -1
  BY <1>2, <1>3
<1>7. f <=> v # 0
  BY <1>3
<1> HIDE DEF q, e, f, v, ev, n
<1>8. CountersMatchEdges'
  BY <1>1, <1>3, <1>4, <1>6, CountersFollow DEF SocialInv
<1>9. EventsReplayGraph'
  BY <1>1, <1>3, <1>4, <1>5, <1>6, <1>7, EventsFollow DEF SocialInv
<1>10. /\ follows' \in [Edges -> Instants]
       /\ \A x \in Edges \ {e} : follows'[x] = follows[x]
  BY <1>1, <1>3, <1>4, <1>6 DEF SocialTypes
<1>11. counters' \in [Subjects -> CountRecord]
  BY <1>1, <1>3, <1>4, <1>6, BumpAdds DEF SocialTypes
<1>12. socialEvents' \in Seq(EventRecord)
  BY <1>1, <1>4, <1>5 DEF SocialTypes
<1>13. /\ socialReq' \in [SocialReqs -> ReqRecord]
       /\ socialReq'[r].pc = "answer" /\ socialReq'[r].held = {}
       /\ \A o \in SocialReqs \ {r} : socialReq'[o] = socialReq[o]
  <2> DEFINE new == Answered(r, "nil")
  <2>1. new \in ReqRecord /\ new.pc = "answer" /\ new.held = {}
    BY AnswerTyped
  <2> HIDE DEF new
  <2>2. socialReq' = [socialReq EXCEPT ![r] = new]
    BY <1>4 DEF new
  <2>3. QED
    BY <1>1, <2>1, <2>2 DEF SocialTypes
<1>14. ASSUME NEW o \in SocialReqs PROVE ReqKnows(socialReq[o])'
  <2>1. CASE o = r
    BY <1>13, <2>1 DEF ReqKnows
  <2>2. CASE o # r
    <3>1. socialReq'[o] = socialReq[o] /\ ReqKnows(socialReq[o])
      BY <1>13, <2>2 DEF SocialInv
    <3>2. socialReq[o].pc = "rows" => socialReq[o].edge \in Edges \ {e}
      BY <1>1, <2>2, <3>1 DEF SocialInv, OneHolder, ReqKnows, q, e
    <3>3. QED
      BY <1>10, <3>1, <3>2 DEF ReqKnows
  <2>3. QED
    BY <2>1, <2>2
<1>15. OneHolder'
  BY <1>13 DEF SocialInv, OneHolder
<1>16. SocialTypes'
  BY <1>10, <1>11, <1>12, <1>13 DEF SocialTypes
<1>17. QED
  BY <1>8, <1>9, <1>14, <1>15, <1>16 DEF SocialInv

\* Every step of a request keeps the invariant.
LEMMA RequestKeepsGraph ==
  ASSUME SocialInv, NEW r \in SocialReqs, SocialRequest(r)
  PROVE  SocialInv'
<1> USE SocialAssumption
<1> DEFINE q == socialReq[r]
<1>1. SocialTypes /\ q \in ReqRecord /\ ReqKnows(q)
  BY DEF SocialInv, SocialTypes
<1>2. ASSUME NEW err, socialReq' = [socialReq EXCEPT ![r] = Answered(r, err)], GraphUnchanged PROVE SocialInv'
  <2> DEFINE new == Answered(r, err)
  <2>1. new \in ReqRecord /\ new.pc = "answer" /\ ReqKnows(new)
    BY AnswerTyped
  <2>2. socialReq' = [socialReq EXCEPT ![r] = new]
    BY <1>2
  <2> HIDE DEF new
  <2>3. QED
    BY <1>2, <2>1, <2>2, RequestMoves
<1>3. ASSUME NEW u \in Listeners, NEW t \in Subjects, Follow(r, u, t) PROVE SocialInv'
  <2> DEFINE new == [NoRequest EXCEPT !.op = "follow", !.edge = <<u, t>>, !.pc = "directory"]
  <2>1. <<u, t>> \in Edges /\ <<u, t>> \in ReqEdges
    BY DEF Edges, ReqEdges
  <2>2. new \in ReqRecord /\ new.pc = "directory" /\ new.op = "follow" /\ new.edge = <<u, t>> /\ new.held = {}
    BY <2>1, NewRequestFields DEF ReqRecord
  <2>3. GraphUnchanged /\ (\/ socialReq' = [socialReq EXCEPT ![r] = Answered(r, "ErrSelfFollow")]
                           \/ socialReq' = [socialReq EXCEPT ![r] = new])
    BY <1>3 DEF Follow, Step
  <2> HIDE DEF new
  <2>4. ReqKnows(new)
    BY <2>1, <2>2 DEF ReqKnows
  <2>5. QED
    BY <1>2, <2>2, <2>3, <2>4, RequestMoves
<1>4. ASSUME NEW u \in Listeners, NEW t \in Subjects, Unfollow(r, u, t) PROVE SocialInv'
  <2> DEFINE new == [NoRequest EXCEPT !.op = "unfollow", !.edge = <<u, t>>, !.pc = "statement"]
  <2>1. <<u, t>> \in Edges /\ <<u, t>> \in ReqEdges
    BY DEF Edges, ReqEdges
  <2>2. new \in ReqRecord /\ new.pc = "statement" /\ new.op = "unfollow" /\ new.edge = <<u, t>> /\ new.held = {}
    BY <2>1, NewRequestFields DEF ReqRecord
  <2>3. GraphUnchanged /\ socialReq' = [socialReq EXCEPT ![r] = new]
    BY <1>4 DEF Unfollow, Step
  <2> HIDE DEF new
  <2>4. ReqKnows(new)
    BY <2>1, <2>2 DEF ReqKnows
  <2>5. QED
    BY <2>2, <2>3, <2>4, RequestMoves
<1>5. ASSUME NEW err, Exists(r, err) PROVE SocialInv'
  <2>1. CASE err = "nil"
    <3>1. PICK at \in 1..LastInstant :
            Step(r, "directory", [q EXCEPT !.pc = "statement", !.at = at])
      BY <1>5, <2>1 DEF Exists
    <3> DEFINE new == [q EXCEPT !.pc = "statement", !.at = at]
    <3>2. at \in Instants /\ at # 0 /\ q.pc = "directory" /\ q.edge \in Edges /\ q.held = {} /\ GraphUnchanged
      <4>1. at \in Instants /\ at # 0
        BY DEF Instants
      <4>2. q.pc = "directory" /\ GraphUnchanged
        BY <1>5, <3>1 DEF Step, Exists
      <4>3. QED
        BY <1>1, <4>1, <4>2 DEF ReqKnows
    <3>3. new \in ReqRecord /\ new.pc = "statement" /\ new.at = at /\ new.edge = q.edge /\ new.held = {}
      BY <1>1, <3>2, NewRequestFields DEF ReqRecord
    <3>4. socialReq' = [socialReq EXCEPT ![r] = new]
      BY <3>1 DEF Step
    <3> HIDE DEF new
    <3>5. ReqKnows(new)
      BY <3>2, <3>3 DEF ReqKnows
    <3>6. QED
      BY <3>2, <3>3, <3>4, <3>5, RequestMoves
  <2>2. CASE err # "nil"
    BY <1>2, <1>5, <2>2 DEF Exists, Step
  <2>3. QED
    BY <2>1, <2>2
<1>6. ASSUME q.pc = "statement", Free(q.edge, r), GraphUnchanged, q.op = "follow" <=> follows[q.edge] = 0,
             socialReq' = [socialReq EXCEPT ![r] = [q EXCEPT !.pc = "rows", !.held = {q.edge}]]
      PROVE  SocialInv'
  <2> DEFINE new == [q EXCEPT !.pc = "rows", !.held = {q.edge}]
  <2>1. q.edge \in Edges /\ {q.edge} \in Held /\ (q.op = "follow" => q.at # 0)
    BY <1>1, <1>6 DEF ReqKnows, Held
  <2>2. /\ new \in ReqRecord /\ new.pc = "rows" /\ new.op = q.op /\ new.edge = q.edge /\ new.at = q.at
        /\ new.held = {q.edge}
    BY <1>1, <2>1, NewRequestFields DEF ReqRecord
  <2>3. socialReq' = [socialReq EXCEPT ![r] = new]
    BY <1>6
  <2> HIDE DEF new
  <2>4. ReqKnows(new)
    BY <1>6, <2>1, <2>2 DEF ReqKnows
  <2>5. \A o \in SocialReqs \ {r} : socialReq[o].pc = "rows" => socialReq[o].edge # new.edge
    <3>1. \A o \in SocialReqs : socialReq[o].pc = "rows" => socialReq[o].edge \in socialReq[o].held
      BY DEF SocialInv, ReqKnows
    <3>2. QED
      BY <1>6, <2>2, <3>1 DEF Free
  <2>6. QED
    BY <1>6, <2>2, <2>3, <2>4, <2>5, RequestMoves
<1>7. CASE InsertEdge(r)
  <2> DEFINE new == [q EXCEPT !.pc = "existing"]
  <2>1. /\ q.op = "follow" /\ q.pc = "statement" /\ Free(q.edge, r) /\ GraphUnchanged
        /\ q.edge \in Edges /\ q.held = {}
    BY <1>1, <1>7 DEF InsertEdge, Step, ReqKnows
  <2>2. CASE follows[q.edge] = 0
    BY <1>6, <1>7, <2>1, <2>2 DEF InsertEdge, Step
  <2>3. CASE follows[q.edge] # 0
    <3>1. new \in ReqRecord /\ new.pc = "existing" /\ new.edge = q.edge /\ new.held = {}
      BY <1>1, <2>1, NewRequestFields DEF ReqRecord
    <3>2. socialReq' = [socialReq EXCEPT ![r] = new]
      BY <1>7, <2>3 DEF InsertEdge, Step
    <3> HIDE DEF new
    <3>3. ReqKnows(new)
      BY <2>1, <3>1 DEF ReqKnows
    <3>4. QED
      BY <2>1, <3>1, <3>2, <3>3, RequestMoves
  <2>4. QED
    BY <2>2, <2>3
<1>8. CASE ReadExisting(r)
  BY <1>2, <1>8 DEF ReadExisting, Step
<1>9. CASE DeleteEdge(r)
  BY <1>2, <1>6, <1>9 DEF DeleteEdge, Step
<1>10. CASE Respond(r)
  BY <1>10, NewRequestFields, RequestMoves DEF Respond, Step, ReqKnows
<1>11. ASSUME NEW s \in Subjects, CounterRow(r, <<s>>) PROVE SocialInv'
  <2> DEFINE held == q.held \cup {<<s>>}
             new == [q EXCEPT !.held = held]
  <2>1. q.held \in Held /\ held \in Held
    <3>1. q.held \in Held
      BY <1>1 DEF ReqRecord
    <3>2. QED
      BY <3>1 DEF Held
  <2>2. q.pc = "rows" /\ GraphUnchanged /\ socialReq' = [socialReq EXCEPT ![r] = new]
    BY <1>11 DEF CounterRow, RowReady, Step
  <2>3. q.edge \in held
    BY <1>1, <2>2 DEF ReqKnows
  <2> HIDE DEF held
  <2>4. /\ new \in ReqRecord /\ new.pc = q.pc /\ new.op = q.op /\ new.edge = q.edge /\ new.at = q.at
        /\ new.held = held
    BY <1>1, <2>1 DEF ReqRecord
  <2> HIDE DEF new
  <2>5. ReqKnows(new)
    <3>1. new.pc = "rows" /\ new.edge \in new.held
      BY <2>2, <2>3, <2>4
    <3>2. ReqKnows(q)
      BY <1>1
    <3>3. /\ q.edge \in Edges
          /\ q.op = "follow" => q.at # 0
          /\ q.op = "follow" <=> follows[q.edge] = 0
      BY <2>2, <3>2 DEF ReqKnows
    <3>4. /\ new.edge \in Edges
          /\ new.op = "follow" => new.at # 0
          /\ new.op = "follow" <=> follows[new.edge] = 0
      BY <2>4, <3>3, Zenon
    <3>5. QED
      BY <3>1, <3>4 DEF ReqKnows
  <2>6. \A o \in SocialReqs \ {r} : socialReq[o].pc = "rows" => socialReq[o].edge # new.edge
    BY <2>2, <2>4 DEF SocialInv, OneHolder
  <2>7. QED
    BY <2>2, <2>4, <2>5, <2>6, RequestMoves
<1>12. CASE SocialTxFails(r) \/ DeadlockVictim(r)
  BY <1>2, <1>12 DEF DeadlockVictim, SocialTxFails, Step
<1>13. QED
  BY <1>3, <1>4, <1>5, <1>7, <1>8, <1>9, <1>10, <1>11, <1>12, CommitKeepsGraph DEF SocialRequest

\* The initial state satisfies the invariant.
LEMMA SocialInvInit == SocialInit => SocialInv
<1> USE SocialAssumption
<1> SUFFICES ASSUME SocialInit PROVE SocialInv
  OBVIOUS
<1>1. /\ follows = [e \in Edges |-> 0] /\ socialEvents = <<>> /\ Len(socialEvents) = 0
      /\ counters = [s \in Subjects |-> [followers |-> 0, users |-> 0, artists |-> 0]]
      /\ socialReq = [r \in SocialReqs |-> NoRequest]
  BY DEF SocialInit
<1>2. SocialTypes
  <2>1. 0 \in Instants /\ [followers |-> 0, users |-> 0, artists |-> 0] \in CountRecord
    BY DEF Instants, CountRecord
  <2>2. QED
    BY <1>1, <2>1, NewRequestFields DEF SocialTypes
<1>3. \A r \in SocialReqs : socialReq[r] = NoRequest
  BY <1>1
<1>4. (\A r \in SocialReqs : ReqKnows(socialReq[r])) /\ OneHolder
  BY <1>3, NewRequestFields DEF ReqKnows, OneHolder
<1>5. CountersMatchEdges
  <2> SUFFICES ASSUME NEW s \in Subjects
               PROVE  /\ counters[s].followers = Cardinality({u \in Listeners : follows[<<u, s>>] # 0})
                      /\ IsUser(s) => /\ counters[s].users = Cardinality(FollowingRows(s, TRUE))
                                      /\ counters[s].artists = Cardinality(FollowingRows(s, FALSE))
    BY DEF CountersMatchEdges, Counts
  <2>1. \A u \in Listeners, t \in Subjects : follows[<<u, t>>] = 0
    BY <1>1 DEF Edges
  <2>2. {u \in Listeners : follows[<<u, s>>] # 0} = {}
    BY <2>1
  <2>3. IsUser(s) => FollowingRows(s, TRUE) = {} /\ FollowingRows(s, FALSE) = {}
    BY <2>1 DEF FollowingRows, IsUser
  <2>4. counters[s].followers = 0 /\ counters[s].users = 0 /\ counters[s].artists = 0
    BY <1>1
  <2>5. QED
    BY <2>2, <2>3, <2>4, FS_EmptySet
<1>6. EventsReplayGraph
  <2>1. \A e \in Edges : EventsOf(e) = {} /\ follows[e] = 0
    BY <1>1 DEF EventsOf
  <2>2. QED
    BY <2>1 DEF EventsReplayGraph
<1>7. QED
  BY <1>2, <1>4, <1>5, <1>6 DEF SocialInv

\* Either a transaction can go on, or all those that are open wait for each other.
LEMMA OpenOnesMove == SocialInv => NobodyWaitsForEver
<1> SUFFICES ASSUME SocialInv, NEW r \in SocialReqs, socialReq[r].pc = "rows", Len(socialEvents) < MaxSocialEvents,
                    \A o \in SocialReqs : ~CommitReady(o) /\ \A s \in Subjects : ~RowReady(o, <<s>>)
             PROVE  Deadlocked(r)
  BY DEF NobodyWaitsForEver
<1> DEFINE open == {o \in SocialReqs : socialReq[o].pc = "rows"}
<1>1. ASSUME NEW a \in open PROVE \E b \in open \ {a} : WaitsFor(a, b)
  <2> DEFINE rows == CounterRows(a)
             held == socialReq[a].held
  <2>1. PICK x \in rows : x \notin held
    BY <1>1 DEF CommitReady
  <2>2. socialReq[a].pc = "rows" /\ socialReq[a].edge \in Edges
    BY <1>1 DEF SocialInv, ReqKnows
  <2>3. ASSUME NEW y \in rows \ held PROVE ~Free(y, a)
    <3>1. PICK s \in Range(socialReq[a].edge) : y = <<s>>
      BY DEF CounterRows
    <3>2. s \in Subjects
      BY <2>2 DEF Range, Edges, Subjects
    <3>3. QED
      BY <2>2, <3>1, <3>2 DEF RowReady
  <2>4. PICK b \in SocialReqs \ {a} : x \in socialReq[b].held
    BY <2>1, <2>3 DEF Free
  <2>5. b \in open
    BY <2>4 DEF SocialInv, ReqKnows
  <2>6. WaitsFor(a, b)
    BY <2>1, <2>2, <2>3, <2>4 DEF WaitsFor
  <2>7. QED
    BY <2>4, <2>5, <2>6
<1>2. open \in SUBSET SocialReqs /\ r \in open
  OBVIOUS
<1>3. QED
  BY <1>1, <1>2 DEF Deadlocked

-----------------------------------------------------------------------------
(* The pages of a list *)

ListNames == {"followers", "following"}
ListRows == Instants \X Subjects
Cursors == ListRows \cup {<<>>}
ReaderRecord == [on : BOOLEAN, list : ListNames, of : Nat, users : BOOLEAN, after : Cursors,
                 seen : Seq(ListRows), stayed : SUBSET ListRows]

\* A page leads on from the last row seen.
ReaderAt(q) == q.after = IF q.seen = <<>> THEN <<>> ELSE q.seen[Len(q.seen)]
\* What was seen is in the order of the list.
ReaderSorted(q) == \A i, j \in 1..Len(q.seen) : i < j => Later(q.seen[i], q.seen[j])
\* A row that has stayed was seen, or is still to come.
ReaderMisses(q) == \A x \in q.stayed : x \in Range(q.seen) \/ (q.on /\ (q.after = <<>> \/ Later(q.after, x)))

PagingKnows(q) ==
  /\ q.on => /\ q.of \in Subjects /\ (q.list = "following" => q.of \in Listeners)
             /\ ReaderAt(q)
  /\ ReaderSorted(q)
  /\ ReaderMisses(q)

PagingInv == reader \in ReaderRecord /\ PagingKnows(reader)

\* The order of a list is total.
LEMMA LaterOrders ==
  ASSUME NEW rows \in SUBSET ListRows
  PROVE  TotalOrder({p \in rows \X rows : Later(p[1], p[2])}, rows)
<1> USE SocialAssumption
<1> DEFINE R == {p \in rows \X rows : Later(p[1], p[2])}
<1>1. ASSUME NEW x \in rows PROVE x[1] \in Int /\ x[2] \in Int /\ x = <<x[1], x[2]>>
  BY DEF ListRows, Instants, Subjects
<1>2. ASSUME NEW a \in rows, NEW b \in rows PROVE <<a, b>> \in R <=> Later(a, b)
  OBVIOUS
<1> HIDE DEF R
<1>3. \A a \in rows : <<a, a>> \notin R
  BY <1>1, <1>2 DEF Later
<1>4. ASSUME NEW a \in rows, NEW b \in rows, a # b PROVE <<a, b>> \in R \/ <<b, a>> \in R
  BY <1>1, <1>2, <1>4 DEF Later
<1>5. ASSUME NEW a \in rows, NEW b \in rows, NEW c \in rows, <<a, b>> \in R, <<b, c>> \in R PROVE <<a, c>> \in R
  BY <1>1, <1>2, <1>5 DEF Later
<1>6. QED
  BY <1>3, <1>4, <1>5 DEF TotalOrder, R

\* A page of rows of which one more than fits was asked for: what is not on it
\* comes after the cursor that leads on.
LEMMA FollowsPage ==
  ASSUME NEW S \in SUBSET ListRows, IsFiniteSet(S), NEW p, p = NextPage(Newest(S, PageLimit + 1), PageLimit)
  PROVE  /\ p.rows \in Seq(ListRows) /\ p.next \in Cursors
         /\ \A i \in 1..Len(p.rows) : p.rows[i] \in S
         /\ \A i, j \in 1..Len(p.rows) : i < j => Later(p.rows[i], p.rows[j])
         /\ p.next # <<>> => Len(p.rows) > 0 /\ p.next = p.rows[Len(p.rows)]
         /\ \A x \in S : x \in Range(p.rows) \/ (p.next # <<>> /\ Later(p.next, x))
<1> USE SocialAssumption
<1>1. PICK R : R = {x \in S \X S : Later(x[1], x[2])}
  OBVIOUS
<1>2. TotalOrder(R, S)
  BY <1>1, LaterOrders
<1>3. p = NextPage(FirstRows(S, R, PageLimit + 1), PageLimit)
  BY <1>1 DEF Newest
<1>4. <<>> \notin S
  BY DEF ListRows
<1>5. IsPage(p, S, R)
  BY <1>2, <1>3, <1>4, PageOfRows
<1>6. \A x, y : <<x, y>> \in R => Later(x, y)
  BY <1>1
<1>7. /\ p.rows \in Seq(S) /\ p.next \in S \cup {<<>>}
      /\ \A i, j \in 1..Len(p.rows) : i < j => Later(p.rows[i], p.rows[j])
      /\ p.next # <<>> => Len(p.rows) > 0 /\ p.next = p.rows[Len(p.rows)]
      /\ \A x \in S : x \in Range(p.rows) \/ (p.next # <<>> /\ Later(p.next, x))
  BY <1>5, <1>6 DEF IsPage
<1>8. p.rows \in Seq(ListRows) /\ \A i \in 1..Len(p.rows) : p.rows[i] \in S
  BY <1>7
<1>9. p.next \in Cursors
  BY <1>7 DEF Cursors
<1>10. QED
  BY <1>7, <1>8, <1>9

\* A page is added to what was seen, and misses nothing.
LEMMA PageFollows ==
  ASSUME NEW q \in ReaderRecord, q.on, PagingKnows(q), NEW all \in SUBSET ListRows, IsFiniteSet(all),
         NEW p, p = NextPage(Newest(After(all, q.after), PageLimit + 1), PageLimit), NEW new,
         new = [q EXCEPT !.after = p.next, !.seen = @ \o p.rows, !.on = p.next # <<>>,
                         !.stayed = IF q.seen = <<>> THEN all ELSE @ \cap all]
  PROVE  new \in ReaderRecord /\ PagingKnows(new)
<1> USE SocialAssumption
<1>1. PICK S : S = After(all, q.after)
  OBVIOUS
<1>2. S \in SUBSET ListRows /\ IsFiniteSet(S)
  <2>1. S \in SUBSET all
    BY <1>1 DEF After
  <2>2. QED
    BY <2>1, FS_Subset
<1>3. /\ p.rows \in Seq(ListRows) /\ p.next \in Cursors
      /\ \A i \in 1..Len(p.rows) : p.rows[i] \in S
      /\ \A i, j \in 1..Len(p.rows) : i < j => Later(p.rows[i], p.rows[j])
      /\ p.next # <<>> => Len(p.rows) > 0 /\ p.next = p.rows[Len(p.rows)]
      /\ \A x \in S : x \in Range(p.rows) \/ (p.next # <<>> /\ Later(p.next, x))
  <2>1. p = NextPage(Newest(S, PageLimit + 1), PageLimit)
    BY <1>1
  <2>2. QED
    BY <1>2, <2>1, FollowsPage
<1>4. /\ q.seen \in Seq(ListRows) /\ q.stayed \in SUBSET ListRows /\ q.after \in Cursors /\ ReaderAt(q)
  BY DEF ReaderRecord, PagingKnows
<1>5. PICK stayed : stayed = IF q.seen = <<>> THEN all ELSE q.stayed \cap all
  OBVIOUS
<1>6. PICK seen : seen = q.seen \o p.rows
  OBVIOUS
<1>7. PICK on : on = (p.next # <<>>)
  OBVIOUS
<1>8. new = [q EXCEPT !.after = p.next, !.seen = seen, !.on = on, !.stayed = stayed]
  BY <1>5, <1>6, <1>7
<1>9. on \in BOOLEAN /\ stayed \in SUBSET ListRows
  BY <1>4, <1>5, <1>7
<1>10. /\ seen \in Seq(ListRows) /\ Len(seen) = Len(q.seen) + Len(p.rows)
       /\ \A i \in 1..Len(p.rows) : seen[Len(q.seen) + i] = p.rows[i]
       /\ Range(seen) = Range(q.seen) \cup Range(p.rows)
       /\ \A i, j \in 1..Len(seen) : i < j => Later(seen[i], seen[j])
       /\ Len(q.seen) \in Nat /\ Len(p.rows) \in Nat
  <2>1. PICK R : R = {x \in ListRows \X ListRows : Later(x[1], x[2])}
    OBVIOUS
  <2>2. TotalOrder(R, ListRows)
    BY <2>1, LaterOrders
  <2>3. \A x, y \in ListRows : <<x, y>> \in R <=> Later(x, y)
    BY <2>1
  <2>4. \A i, j \in 1..Len(q.seen) : i < j => <<q.seen[i], q.seen[j]>> \in R
    BY <1>4, <2>3 DEF PagingKnows, ReaderSorted
  <2>5. \A i, j \in 1..Len(p.rows) : i < j => <<p.rows[i], p.rows[j]>> \in R
    BY <1>3, <2>3
  <2>6. Len(q.seen) > 0 => \A i \in 1..Len(p.rows) : <<q.seen[Len(q.seen)], p.rows[i]>> \in R
    <3> SUFFICES ASSUME Len(q.seen) > 0, NEW i \in 1..Len(p.rows) PROVE <<q.seen[Len(q.seen)], p.rows[i]>> \in R
      OBVIOUS
    <3>1. q.seen # <<>> /\ q.after = q.seen[Len(q.seen)] /\ q.after \in ListRows
      BY <1>4 DEF ReaderAt
    <3>2. q.after # <<>>
      <4>1. q.after \in Instants \X Subjects
        BY <3>1, Zenon DEF ListRows
      <4>2. QED
        BY <4>1, PairNotEmpty, Zenon
    <3>3. Later(q.after, p.rows[i]) /\ p.rows[i] \in ListRows
      BY <1>1, <1>2, <1>3, <3>2 DEF After
    <3>4. QED
      BY <2>3, <3>1, <3>3
  <2>7. /\ seen \in Seq(ListRows) /\ Len(seen) = Len(q.seen) + Len(p.rows)
        /\ \A i \in 1..Len(p.rows) : seen[Len(q.seen) + i] = p.rows[i]
        /\ Range(seen) = Range(q.seen) \cup Range(p.rows)
        /\ \A i, j \in 1..Len(seen) : i < j => <<seen[i], seen[j]>> \in R
    <3>1. Appended(seen, q.seen, p.rows, ListRows, R)
      BY <1>3, <1>4, <1>6, <2>2, <2>4, <2>5, <2>6, SortedAppend
    <3>2. QED
      BY <3>1 DEF Appended
  <2>8. \A i \in 1..Len(seen) : seen[i] \in ListRows
    <3>1. seen \in Seq(ListRows)
      BY <2>7
    <3>2. QED
      BY <3>1
  <2>9. \A i, j \in 1..Len(seen) : i < j => Later(seen[i], seen[j])
    <3> SUFFICES ASSUME NEW i \in 1..Len(seen), NEW j \in 1..Len(seen), i < j PROVE Later(seen[i], seen[j])
      OBVIOUS
    <3>1. seen[i] \in ListRows /\ seen[j] \in ListRows
      BY <2>8, Zenon
    <3>2. <<seen[i], seen[j]>> \in R
      BY <2>7
    <3>3. QED
      BY <2>3, <3>1, <3>2, Zenon
  <2>10. Len(q.seen) \in Nat /\ Len(p.rows) \in Nat
    <3>1. Len(q.seen) \in Nat
      BY <1>4
    <3>2. Len(p.rows) \in Nat
      BY <1>3
    <3>3. QED
      BY <3>1, <3>2
  <2>11. QED
    BY <2>7, <2>9, <2>10, Zenon
<1>11. /\ new \in ReaderRecord
       /\ new.after = p.next /\ new.seen = seen /\ new.on = on /\ new.stayed = stayed
       /\ new.of = q.of /\ new.list = q.list
  BY <1>3, <1>8, <1>9, <1>10 DEF ReaderRecord
<1>13. on => seen # <<>> /\ p.next = seen[Len(seen)]
  <2> SUFFICES ASSUME on PROVE seen # <<>> /\ p.next = seen[Len(seen)]
    OBVIOUS
  <2>1. Len(p.rows) > 0 /\ p.next = p.rows[Len(p.rows)]
    BY <1>3, <1>7
  <2>2. PICK a \in Nat, b \in Nat : a = Len(q.seen) /\ b = Len(p.rows)
    BY <1>10, Zenon
  <2>3. Len(seen) = a + b /\ b > 0
    BY <1>10, <2>1, <2>2, Zenon
  <2>4. b \in 1..b /\ a + b > 0 /\ a + b # 0
    BY <2>3
  <2>5. seen[a + b] = p.rows[b]
    BY <1>10, <2>2, <2>4, Zenon
  <2>6. seen # <<>>
    BY <1>10, <2>3, <2>4
  <2>7. QED
    BY <2>1, <2>2, <2>3, <2>5, <2>6, Zenon
<1>14. ASSUME NEW x \in stayed PROVE x \in Range(seen) \/ (on /\ Later(p.next, x))
  <2>1. x \in all
    BY <1>5
  <2>3. CASE x \in Range(q.seen)
    BY <1>10, <2>3
  <2>4. CASE x \notin Range(q.seen)
    <3>1. q.after = <<>> \/ Later(q.after, x)
      BY <1>4, <1>5, <2>4 DEF PagingKnows, ReaderMisses, ReaderAt
    <3>2. x \in S
      BY <1>1, <2>1, <3>1 DEF After
    <3>3. QED
      BY <1>3, <1>7, <1>10, <3>2
  <2>5. QED
    BY <2>3, <2>4
<1>15. PagingKnows(new)
  <2>1. ReaderSorted(new)
    BY <1>10, <1>11 DEF ReaderSorted
  <2>2. ReaderMisses(new)
    BY <1>11, <1>14 DEF ReaderMisses
  <2>3. new.on => ReaderAt(new)
    BY <1>11, <1>13 DEF ReaderAt
  <2>4. QED
    BY <1>11, <2>1, <2>2, <2>3 DEF PagingKnows
<1>16. QED
  BY <1>11, <1>15

\* The rows of a list, whichever it is, are finitely many.
LEMMA ListTyped ==
  ASSUME SocialTypes, NEW q \in ReaderRecord, q.of \in Subjects, q.list = "following" => q.of \in Listeners
  PROVE  AllRows(q) \in SUBSET ListRows /\ IsFiniteSet(AllRows(q))
<1> USE SocialAssumption
<1>1. IsFiniteSet(ListRows)
  <2>1. IsFiniteSet(0..LastInstant)
    BY FS_Interval
  <2>2. IsFiniteSet(Listeners \cup Artists)
    BY FS_Union
  <2>3. QED
    BY <2>1, <2>2, FS_Product DEF Instants, Subjects, ListRows
<1>2. AllRows(q) \subseteq ListRows
  <2> SUFFICES ASSUME NEW x \in AllRows(q) PROVE x \in ListRows
    OBVIOUS
  <2>1. CASE q.list = "followers"
    <3>1. PICK u \in Listeners : x = <<follows[<<u, q.of>>], u>>
      BY <2>1 DEF AllRows, FollowerRows
    <3>2. <<u, q.of>> \in Edges /\ u \in Subjects
      BY DEF Edges, Subjects
    <3>3. QED
      BY <3>1, <3>2 DEF SocialTypes, ListRows
  <2>2. CASE q.list # "followers"
    <3>1. q.of \in Listeners
      BY <2>2 DEF ReaderRecord, ListNames
    <3>2. PICK t \in Subjects : x = <<follows[<<q.of, t>>], t>>
      BY <2>2 DEF AllRows, FollowingRows
    <3>3. <<q.of, t>> \in Edges
      BY <3>1 DEF Edges
    <3>4. QED
      BY <3>2, <3>3 DEF SocialTypes, ListRows
  <2>3. QED
    BY <2>1, <2>2
<1>3. QED
  BY <1>1, <1>2, FS_Subset

\* A reader that has read nothing yet.
LEMMA FreshReader ==
  ASSUME NEW q \in ReaderRecord, q.seen = <<>>, q.after = <<>>, q.stayed = {},
         q.on => q.of \in Subjects /\ (q.list = "following" => q.of \in Listeners)
  PROVE  PagingKnows(q)
<1>1. Len(q.seen) = 0
  OBVIOUS
<1>2. ReaderSorted(q)
  BY <1>1 DEF ReaderSorted
<1>3. QED
  BY <1>2 DEF PagingKnows, ReaderAt, ReaderMisses

LEMMA NoReaderTyped == NoReader \in ReaderRecord /\ PagingKnows(NoReader)
<1>1. NoReader \in ReaderRecord
  <2>1. FALSE \in BOOLEAN /\ TRUE \in BOOLEAN /\ <<>> \in Seq(ListRows) /\ <<>> \in Cursors
        /\ {} \in SUBSET ListRows /\ "followers" \in ListNames
    BY DEF Cursors, ListNames
  <2>2. QED
    BY <2>1 DEF NoReader, ReaderRecord
<1>2. QED
  BY <1>1, FreshReader DEF NoReader

\* The paging client, whatever the requests do meanwhile.
LEMMA ReaderMoves ==
  ASSUME SocialInv, PagingInv, [SocialNext]_socialVars
  PROVE  PagingInv'
<1> USE SocialAssumption
<1>1. CASE reader' = reader
  BY <1>1 DEF PagingInv, PagingKnows, ReaderAt, ReaderSorted, ReaderMisses
<1>2. ASSUME NEW list \in ListNames, NEW s \in Subjects, NEW users \in BOOLEAN, OpenList(list, s, users)
      PROVE  PagingInv'
  <2>1. PICK new : new = [NoReader EXCEPT !.on = TRUE, !.list = list, !.of = s, !.users = users]
    OBVIOUS
  <2>2. reader' = new /\ (list = "following" => s \in Listeners)
    BY <1>2, <2>1 DEF OpenList, IsUser
  <2>3. s \in Nat /\ TRUE \in BOOLEAN
    BY DEF Subjects
  <2>4. new \in ReaderRecord /\ new.of = s /\ new.list = list /\ new.seen = NoReader.seen
        /\ new.after = NoReader.after /\ new.stayed = NoReader.stayed
    BY <2>1, <2>3, NoReaderTyped DEF ReaderRecord
  <2>5. new.seen = <<>> /\ new.after = <<>> /\ new.stayed = {}
    BY <2>4 DEF NoReader
  <2>6. PagingKnows(new)
    BY <2>2, <2>4, <2>5, FreshReader
  <2>7. QED
    BY <2>2, <2>4, <2>6 DEF PagingInv, PagingKnows, ReaderAt, ReaderSorted, ReaderMisses
<1>3. CASE FetchPage
  <2>1. PICK q : q = reader
    OBVIOUS
  <2>2. PICK all : all = AllRows(q)
    OBVIOUS
  <2>3. q \in ReaderRecord /\ PagingKnows(q) /\ q.on /\ q.of \in Subjects /\ (q.list = "following" => q.of \in Listeners)
    BY <1>3, <2>1 DEF PagingInv, PagingKnows, FetchPage
  <2>4. all \in SUBSET ListRows /\ IsFiniteSet(all)
    BY <2>2, <2>3, ListTyped DEF SocialInv
  <2>5. PICK p : p = NextPage(Newest(After(all, q.after), PageLimit + 1), PageLimit)
    OBVIOUS
  <2>6. PICK new : new = [q EXCEPT !.after = p.next, !.seen = @ \o p.rows, !.on = p.next # <<>>,
                                   !.stayed = IF q.seen = <<>> THEN all ELSE @ \cap all]
    OBVIOUS
  <2>7. reader' = new
    <3>1. (IF q.list = "followers" THEN Followers(q.of, q.after, PageLimit + 1)
                 ELSE Following(q.of, q.users, q.after, PageLimit + 1)) = Newest(After(all, q.after), PageLimit + 1)
      BY <2>2 DEF Followers, Following, AllRows
    <3>2. QED
      BY <1>3, <2>1, <2>2, <2>5, <2>6, <3>1 DEF FetchPage
  <2>8. new \in ReaderRecord /\ PagingKnows(new)
    BY <2>3, <2>4, <2>5, <2>6, PageFollows
  <2>9. QED
    BY <2>7, <2>8 DEF PagingInv, PagingKnows, ReaderAt, ReaderSorted, ReaderMisses
<1>4. CASE CloseList
  <2>1. reader' = NoReader
    BY <1>4 DEF CloseList
  <2>2. QED
    BY <2>1, NoReaderTyped DEF PagingInv, PagingKnows, ReaderAt, ReaderSorted, ReaderMisses
<1>5. ASSUME NEW r \in SocialReqs, SocialRequest(r) PROVE reader' = reader
  BY <1>5 DEF SocialRequest, Follow, Unfollow, Exists, InsertEdge, ReadExisting, DeleteEdge, CommitChange, Respond,
              CounterRow, SocialTxFails, DeadlockVictim, GraphUnchanged
<1>6. QED
  BY <1>1, <1>2, <1>3, <1>4, <1>5 DEF SocialNext, SocialRead, socialVars, ListNames

\* Nothing was seen twice, and nothing that stayed was missed.
LEMMA ReaderComplete == PagingInv => PagesComplete
<1> SUFFICES ASSUME PagingInv, ~reader.on PROVE IsInjective(reader.seen) /\ reader.stayed \subseteq Range(reader.seen)
  BY DEF PagesComplete
<1>1. reader.stayed \subseteq Range(reader.seen)
  BY DEF PagingInv, PagingKnows, ReaderMisses
<1>2. reader.seen \in Seq(ListRows)
  BY DEF PagingInv, ReaderRecord
<1>3. \A x \in ListRows : ~Later(x, x)
  BY SocialAssumption DEF Later, ListRows, Instants, Subjects
<1>4. ASSUME NEW i \in 1..Len(reader.seen), NEW j \in 1..Len(reader.seen), reader.seen[i] = reader.seen[j] PROVE i = j
  <2>1. reader.seen[i] \in ListRows
    BY <1>2
  <2>2. ~(i < j) /\ ~(j < i)
    BY <1>3, <1>4, <2>1 DEF PagingInv, PagingKnows, ReaderSorted
  <2>3. i \in Int /\ j \in Int
    OBVIOUS
  <2>4. QED
    BY <2>2, <2>3
<1>5. IsInjective(reader.seen)
  <2>1. DOMAIN reader.seen = 1..Len(reader.seen)
    BY <1>2
  <2>2. QED
    BY <1>4, <2>1 DEF IsInjective
<1>6. QED
  BY <1>1, <1>5

\* A step of a request or of the paging client keeps the invariant.
LEMMA SocialInvNext == SocialInv /\ [SocialNext]_socialVars => SocialInv'
<1> SUFFICES ASSUME SocialInv, [SocialNext]_socialVars PROVE SocialInv'
  OBVIOUS
<1>1. ASSUME follows' = follows, counters' = counters, socialEvents' = socialEvents, socialReq' = socialReq
      PROVE  SocialInv'
  <2>1. CountersMatchEdges' /\ EventsReplayGraph'
    BY <1>1, GraphStays DEF SocialInv
  <2>2. \A r \in SocialReqs : ReqKnows(socialReq[r])'
    BY <1>1 DEF SocialInv, ReqKnows
  <2>3. SocialTypes' /\ OneHolder'
    BY <1>1 DEF SocialInv, SocialTypes, OneHolder
  <2>4. QED
    BY <2>1, <2>2, <2>3 DEF SocialInv
<1>2. CASE SocialRead
  BY <1>1, <1>2 DEF SocialRead, OpenList, FetchPage, CloseList
<1>3. CASE UNCHANGED socialVars
  BY <1>1, <1>3 DEF socialVars
<1>4. QED
  BY <1>2, <1>3, RequestKeepsGraph DEF SocialNext

\* The Social service, for any number of listeners, artists and overlapping
\* requests: the counters are the edges that exist; social.events, replayed,
\* tell the same graph; a client that reads a list page by page meanwhile sees
\* no edge twice and misses none that stays; and of the requests in a
\* transaction one can always go on or is in a circle of waiting ones.
THEOREM GraphIsConsistent == SocialSpec => []GraphConsistent
<1>1. SocialInit => PagingInv
  <2>1. SocialInit => reader = NoReader
    BY DEF SocialInit
  <2>2. QED
    BY <2>1, NoReaderTyped DEF PagingInv
<1>2. SocialInv /\ PagingInv /\ [SocialNext]_socialVars => PagingInv'
  BY ReaderMoves
<1>3. SocialInv /\ PagingInv => GraphConsistent
  BY OpenOnesMove, ReaderComplete DEF SocialInv, GraphConsistent
<1>4. QED
  BY SocialInvInit, SocialInvNext, <1>1, <1>2, <1>3, PTL DEF SocialSpec
-----------------------------------------------------------------------------
(* Listening History and the Analytics Worker *)

AllReports == HistoryReports \cup AnalyticsReports
Answers == BOOLEAN
LogEntry == [e : AllReports, at : Days, known : Answers]
Offsets == Nat \ {0}
CacheStates == {"none", "known", "unknown"}

ListeningTypes ==
  /\ playLog \in Seq(LogEntry)
  /\ listens \in [Plays -> Nat]
  /\ hist \in [next : Offsets, committed : Offsets]
  /\ analytics \in [next : Offsets, committed : Offsets, batch : Seq(Offsets)]
  /\ trackCache \in [TrackIds -> CacheStates]

\* Position i of the log is an end of play p that counts.
Counted(p, i) ==
  /\ i \in 1..Len(playLog)
  /\ playLog[i].e.play = p /\ playLog[i].e.kind # "started" /\ CountsAsListen(playLog[i].e)

\* Dead-lettered records aside, a play without a listen has no end that counts
\* before the next record, and the listen of another is the first end that counts.
HistoryKnows ==
  /\ hist.committed <= hist.next /\ hist.next <= Len(playLog) + 1
  /\ \A p \in Plays :
       IF listens[p] = 0 THEN \A i \in Nat : Counted(p, i) => i >= hist.next \/ i \in histDead
       ELSE Counted(p, listens[p]) /\ \A i \in Nat : Counted(p, i) => listens[p] <= i \/ i \in histDead

\* A play of t was reported before the Catalog had t.
PlayedUnknown(t) == \E i \in 1..Len(playLog) : playLog[i].e.play.track = t /\ ~playLog[i].known

\* The Catalog does not lose tracks, the worker's batch is of the log, and what
\* its cache takes for unknown was unknown when it was played.
IngestKnows ==
  /\ \A i \in 1..Len(playLog) : playLog[i].known => playLog[i].e.play.track \in catalogued
  /\ \A k \in 1..Len(analytics.batch) : analytics.batch[k] <= Len(playLog)
  /\ \A t \in TrackIds : trackCache[t] = "unknown" => PlayedUnknown(t)

RowsKnow == \A r \in eventRows : r.artists = {} => PlayedUnknown(r.e.play.track)

ListeningInv == ListeningTypes /\ HistoryKnows /\ IngestKnows /\ RowsKnow

\* The initial state satisfies the invariant.
LEMMA ListeningInvInit == ListeningInit => ListeningInv
<1> SUFFICES ASSUME ListeningInit PROVE ListeningInv
  OBVIOUS
<1>1. /\ playLog = <<>> /\ listens = [p \in Plays |-> 0] /\ hist = [next |-> 1, committed |-> 1]
      /\ analytics = [next |-> 1, committed |-> 1, batch |-> <<>>]
      /\ trackCache = [t \in TrackIds |-> "none"] /\ eventRows = {}
  BY DEF ListeningInit
<1>2. ListeningTypes
  BY <1>1 DEF ListeningTypes, Offsets, CacheStates
<1>3. HistoryKnows
  BY <1>1 DEF HistoryKnows, Counted
<1>4. IngestKnows /\ RowsKnow
  BY <1>1 DEF IngestKnows, RowsKnow
<1>5. QED
  BY <1>2, <1>3, <1>4 DEF ListeningInv

\* A report is appended to the log: nothing that was there changes.
LEMMA ReportAppends ==
  ASSUME ListeningInv, NEW e \in AllReports, Report(e)
  PROVE  /\ playLog' \in Seq(LogEntry) /\ Len(playLog') >= Len(playLog)
         /\ \A i \in 1..Len(playLog) : playLog'[i] = playLog[i]
         /\ \A i \in 1..Len(playLog') : i > Len(playLog) =>
              (playLog'[i].known => playLog'[i].e.play.track \in catalogued)
<1>1. playLog \in Seq(LogEntry)
  BY DEF ListeningInv, ListeningTypes
<1>2. PICK at \in Days :
        playLog' = IF Validate(e) THEN Append(playLog, [e |-> e, at |-> at, known |-> e.play.track \in catalogued])
                   ELSE playLog
  BY DEF Report
<1>3. CASE Validate(e)
  <2>1. PICK x : x = [e |-> e, at |-> at, known |-> e.play.track \in catalogued]
    OBVIOUS
  <2>2. PICK b : b = (e.play.track \in catalogued)
    OBVIOUS
  <2>3. b \in Answers
    BY <2>2 DEF Answers
  <2>4. x = [e |-> e, at |-> at, known |-> b]
    BY <2>1, <2>2
  <2>5. x \in LogEntry
    BY <2>3, <2>4 DEF LogEntry
  <2>6. x.known => x.e.play.track \in catalogued
    BY <2>1
  <2>7. playLog' = Append(playLog, x)
    BY <1>2, <1>3, <2>1
  <2>8. QED
    BY <1>1, <2>5, <2>6, <2>7
<1>4. CASE ~Validate(e)
  BY <1>1, <1>2, <1>4
<1>5. QED
  BY <1>3, <1>4

\* A new report is behind everything the consumers have seen.
LEMMA ReportKeepsListening ==
  ASSUME ListeningInv, NEW e \in AllReports, Report(e)
  PROVE  ListeningInv'
<1>1. /\ listens' = listens /\ hist' = hist /\ histDead' = histDead
      /\ analytics' = analytics /\ trackCache' = trackCache
      /\ eventRows' = eventRows /\ catalogued' = catalogued
  BY DEF Report, historyVars, ingestVars
<1>2. /\ playLog' \in Seq(LogEntry) /\ Len(playLog') >= Len(playLog)
      /\ \A i \in 1..Len(playLog) : playLog'[i] = playLog[i]
      /\ \A i \in 1..Len(playLog') : i > Len(playLog) =>
           (playLog'[i].known => playLog'[i].e.play.track \in catalogued)
  BY ReportAppends
<1>3. Len(playLog) \in Nat /\ Len(playLog') \in Nat
  BY <1>2 DEF ListeningInv, ListeningTypes
<1>4. ListeningTypes'
  BY <1>1, <1>2 DEF ListeningInv, ListeningTypes
<1>5. \A t : PlayedUnknown(t) => PlayedUnknown(t)'
  BY <1>2, <1>3 DEF PlayedUnknown
<1>6. HistoryKnows'
  <2>1. \A p \in Plays, i \in Nat : i <= Len(playLog) => (Counted(p, i)' <=> Counted(p, i))
    BY <1>2, <1>3 DEF Counted
  <2>2. hist.next \in Nat /\ \A p \in Plays : listens[p] \in Nat
    BY DEF ListeningInv, ListeningTypes, Offsets
  <2>3. ASSUME NEW p \in Plays
        PROVE  IF listens[p] = 0 THEN \A i \in Nat : Counted(p, i)' => i >= hist.next \/ i \in histDead
               ELSE Counted(p, listens[p])' /\ \A i \in Nat : Counted(p, i)' => listens[p] <= i \/ i \in histDead
    <3>1. \A i \in Nat : i > Len(playLog) => i >= hist.next /\ i >= listens[p]
      BY <1>3, <2>2 DEF ListeningInv, HistoryKnows, Counted
    <3>2. CASE listens[p] = 0
      BY <1>3, <2>1, <3>1, <3>2 DEF ListeningInv, HistoryKnows
    <3>3. CASE listens[p] # 0
      <4>1. Counted(p, listens[p]) /\ \A i \in Nat : Counted(p, i) => listens[p] <= i \/ i \in histDead
        BY <3>3 DEF ListeningInv, HistoryKnows
      <4>2. listens[p] \in Nat /\ listens[p] <= Len(playLog)
        BY <1>3, <2>2, <4>1 DEF Counted
      <4>3. Counted(p, listens[p])'
        <5>1. PICK l : l = listens[p]
          OBVIOUS
        <5>2. Counted(p, l)'
          BY <2>1, <4>1, <4>2, <5>1
        <5>3. QED
          BY <1>1, <5>1, <5>2
      <4>4. ASSUME NEW i \in Nat, Counted(p, i)' PROVE listens[p] <= i \/ i \in histDead
        <5>1. CASE i <= Len(playLog)
          BY <2>1, <4>1, <4>4, <5>1
        <5>2. CASE i > Len(playLog)
          BY <3>1, <5>2, <4>2
        <5>3. QED
          BY <1>3, <5>1, <5>2
      <4>5. QED
        BY <3>3, <4>3, <4>4
    <3>4. QED
      BY <3>2, <3>3
  <2>4. hist'.committed <= hist'.next /\ hist'.next <= Len(playLog') + 1
    BY <1>1, <1>2, <1>3, <2>2 DEF ListeningInv, HistoryKnows
  <2>5. QED
    BY <1>1, <2>3, <2>4 DEF HistoryKnows, Counted
<1>7. IngestKnows'
  <2>1. \A i \in 1..Len(playLog') : playLog'[i].known => playLog'[i].e.play.track \in catalogued
    BY <1>2, <1>3 DEF ListeningInv, IngestKnows
  <2>2. \A k \in 1..Len(analytics.batch) : analytics.batch[k] <= Len(playLog')
    <3> SUFFICES ASSUME NEW k \in 1..Len(analytics.batch) PROVE analytics.batch[k] <= Len(playLog')
      OBVIOUS
    <3>1. analytics.batch[k] \in Nat
      BY DEF ListeningInv, ListeningTypes, Offsets
    <3>2. QED
      BY <1>2, <1>3, <3>1 DEF ListeningInv, IngestKnows
  <2>3. QED
    BY <1>1, <1>5, <2>1, <2>2 DEF ListeningInv, IngestKnows
<1>8. RowsKnow'
  BY <1>1, <1>5 DEF ListeningInv, RowsKnow
<1>9. QED
  BY <1>4, <1>6, <1>7, <1>8 DEF ListeningInv

\* The history takes the next record, or dead-letters it: a play without a listen
\* has had no end that counts before it.
LEMMA HandleKeepsListening == ListeningInv /\ (HistoryHandle \/ HistoryDeadLetter) => ListeningInv'
<1> SUFFICES ASSUME ListeningInv, HistoryHandle \/ HistoryDeadLetter PROVE ListeningInv'
  OBVIOUS
<1>1. PICK n : n = hist.next
  OBVIOUS
<1>2. /\ n <= Len(playLog)
      /\ \/ listens' = listens
         \/ playLog[n].e.kind # "started" /\ listens' = PlayEnded(n)
      /\ \/ listens' = IF playLog[n].e.kind = "started" THEN listens ELSE PlayEnded(n)
         \/ n \in histDead'
      /\ histDead \subseteq histDead'
      /\ playLog' = playLog /\ analytics' = analytics /\ trackCache' = trackCache
      /\ eventRows' = eventRows /\ catalogued' = catalogued
  BY <1>1 DEF HistoryHandle, HistoryDeadLetter, reportVars, ingestVars
<1>3. PICK c \in {hist.committed, n + 1} : hist' = [next |-> n + 1, committed |-> c]
  BY <1>1 DEF HistoryHandle, HistoryDeadLetter
<1>4. /\ playLog \in Seq(LogEntry) /\ listens \in [Plays -> Nat] /\ n \in Offsets /\ hist.committed \in Offsets
      /\ hist.committed <= n /\ Len(playLog) \in Nat
  BY <1>1 DEF ListeningInv, ListeningTypes, HistoryKnows
<1>5. c \in Offsets /\ n + 1 \in Offsets /\ c <= n + 1 /\ n \in Nat /\ n # 0
  BY <1>3, <1>4 DEF Offsets
<1>6. \A p : \A i : Counted(p, i)' <=> Counted(p, i)
  BY <1>2 DEF Counted
<1>7. playLog[n].e.play \in Plays
  <2>1. playLog[n].e \in AllReports
    <3>1. playLog[n] \in LogEntry
      BY <1>2, <1>4, <1>5
    <3>2. QED
      BY <3>1 DEF LogEntry
  <2>2. QED
    BY <2>1, ListeningAssumption DEF AllReports
<1>8. listens' \in [Plays -> Nat]
  BY <1>2, <1>4, <1>5, <1>7 DEF PlayEnded, Record
<1>9. ASSUME NEW p \in Plays
      PROVE  /\ listens'[p] = listens[p] \/ (listens[p] = 0 /\ listens'[p] = n /\ Counted(p, n))
             /\ listens[p] = 0 /\ Counted(p, n) => listens'[p] = n \/ n \in histDead'
  <2>1. n \in 1..Len(playLog)
    BY <1>2, <1>4, <1>5
  <2>2. Counted(p, n) <=> playLog[n].e.play = p /\ playLog[n].e.kind # "started" /\ CountsAsListen(playLog[n].e)
    BY <2>1 DEF Counted
  <2>3. CASE playLog[n].e.kind = "started" \/ ~CountsAsListen(playLog[n].e)
    BY <1>2, <2>2, <2>3 DEF PlayEnded
  <2>4. CASE playLog[n].e.kind # "started" /\ CountsAsListen(playLog[n].e)
    BY <1>2, <1>4, <2>2, <2>4 DEF PlayEnded, Record
  <2>5. QED
    BY <2>3, <2>4
<1>10. HistoryKnows'
  <2>1. ASSUME NEW p \in Plays
        PROVE  IF listens'[p] = 0 THEN \A i \in Nat : Counted(p, i) => i >= n + 1 \/ i \in histDead'
               ELSE Counted(p, listens'[p]) /\ \A i \in Nat : Counted(p, i) => listens'[p] <= i \/ i \in histDead'
    <3>1. listens[p] = 0 => \A i \in Nat : Counted(p, i) => i >= n \/ i \in histDead'
      BY <1>1, <1>2 DEF ListeningInv, HistoryKnows
    <3>2. listens[p] # 0 => Counted(p, listens[p]) /\ \A i \in Nat : Counted(p, i) => listens[p] <= i \/ i \in histDead'
      BY <1>2 DEF ListeningInv, HistoryKnows
    <3>3. CASE listens[p] # 0
      BY <1>9, <3>2, <3>3
    <3>4. CASE listens[p] = 0 /\ Counted(p, n)
      <4>1. CASE listens'[p] = 0
        <5>1. n \in histDead'
          BY <1>5, <1>9, <3>4, <4>1
        <5>2. \A i \in Nat : Counted(p, i) => i > n \/ i \in histDead'
          BY <1>5, <3>1, <3>4, <5>1
        <5>3. QED
          BY <1>5, <4>1, <5>2
      <4>2. CASE listens'[p] # 0
        <5>1. listens'[p] = n
          BY <1>9, <3>4, <4>2
        <5>2. QED
          BY <1>5, <3>1, <3>4, <5>1
      <4>3. QED
        BY <4>1, <4>2
    <3>5. CASE listens[p] = 0 /\ ~Counted(p, n)
      <4>1. listens'[p] = 0
        BY <1>9, <3>5
      <4>2. \A i \in Nat : Counted(p, i) => (i >= n /\ i # n) \/ i \in histDead'
        BY <3>1, <3>5
      <4>3. QED
        BY <1>5, <4>1, <4>2
    <3>6. QED
      BY <3>3, <3>4, <3>5
  <2>2. hist'.next = n + 1 /\ hist'.committed = c
    BY <1>3
  <2>3. hist'.committed <= hist'.next /\ hist'.next <= Len(playLog') + 1
    BY <1>2, <1>4, <1>5, <2>2
  <2>4. QED
    BY <1>6, <2>1, <2>2, <2>3 DEF HistoryKnows
<1>11. hist' \in [next : Offsets, committed : Offsets]
  BY <1>3, <1>5
<1>12. ListeningTypes'
  BY <1>2, <1>8, <1>11 DEF ListeningInv, ListeningTypes
<1>13. IngestKnows' /\ RowsKnow'
  BY <1>2 DEF ListeningInv, IngestKnows, RowsKnow, PlayedUnknown
<1>14. QED
  BY <1>10, <1>12, <1>13 DEF ListeningInv

\* The history goes back to what it committed: what it passes again is recorded.
LEMMA RestartKeepsListening == ListeningInv /\ HistoryRestart => ListeningInv'
<1> SUFFICES ASSUME ListeningInv, HistoryRestart PROVE ListeningInv'
  OBVIOUS
<1>1. /\ hist' = [hist EXCEPT !.next = hist.committed] /\ listens' = listens /\ histDead' = histDead
      /\ playLog' = playLog /\ analytics' = analytics /\ trackCache' = trackCache
      /\ eventRows' = eventRows /\ catalogued' = catalogued
  BY DEF HistoryRestart, reportVars, ingestVars
<1>2. hist \in [next : Offsets, committed : Offsets] /\ playLog \in Seq(LogEntry)
  BY DEF ListeningInv, ListeningTypes
<1>3. hist' \in [next : Offsets, committed : Offsets] /\ hist'.next = hist.committed /\ hist'.committed = hist.committed
  BY <1>1, <1>2
<1>4. hist.committed \in Nat /\ hist.next \in Nat /\ Len(playLog) \in Nat
  BY <1>2 DEF Offsets
<1>5. HistoryKnows'
  <2>1. hist.committed <= hist.next /\ hist.next <= Len(playLog) + 1
    BY DEF ListeningInv, HistoryKnows
  <2>2. \A p : \A i : Counted(p, i)' <=> Counted(p, i)
    BY <1>1 DEF Counted
  <2>3. ASSUME NEW p \in Plays
        PROVE  IF listens[p] = 0 THEN \A i \in Nat : Counted(p, i) => i >= hist.committed \/ i \in histDead
               ELSE Counted(p, listens[p]) /\ \A i \in Nat : Counted(p, i) => listens[p] <= i \/ i \in histDead
    BY <1>4, <2>1 DEF ListeningInv, HistoryKnows
  <2>4. hist.committed <= hist.committed /\ hist.committed <= Len(playLog) + 1
    BY <1>4, <2>1
  <2>5. QED
    BY <1>1, <1>3, <2>2, <2>3, <2>4 DEF HistoryKnows
<1>6. ListeningTypes'
  BY <1>1, <1>3 DEF ListeningInv, ListeningTypes
<1>7. IngestKnows' /\ RowsKnow'
  BY <1>1 DEF ListeningInv, IngestKnows, RowsKnow, PlayedUnknown
<1>8. QED
  BY <1>5, <1>6, <1>7 DEF ListeningInv

\* What the worker does leaves the log and the history alone.
LEMMA IngestStep ==
  ASSUME ListeningInv, playLog' = playLog, listens' = listens, hist' = hist, histDead' = histDead,
         analytics' \in [next : Offsets, committed : Offsets, batch : Seq(Offsets)],
         trackCache' \in [TrackIds -> CacheStates], IngestKnows', RowsKnow'
  PROVE  ListeningInv'
<1>1. ListeningTypes'
  BY DEF ListeningInv, ListeningTypes
<1>2. HistoryKnows'
  BY DEF ListeningInv, HistoryKnows, Counted
<1>3. QED
  BY <1>1, <1>2 DEF ListeningInv

\* The batch is the records that come next.
LEMMA TakeBatchKeepsListening ==
  ASSUME ListeningInv, NEW n \in 1..2, TakeBatch(n)
  PROVE  ListeningInv'
<1>1. PICK b : b = [k \in 1..n |-> analytics.next + k - 1]
  OBVIOUS
<1>2. /\ analytics.next + n - 1 <= Len(playLog) /\ analytics' = [analytics EXCEPT !.batch = b]
      /\ playLog' = playLog /\ listens' = listens /\ hist' = hist /\ histDead' = histDead /\ trackCache' = trackCache
      /\ eventRows' = eventRows /\ catalogued' = catalogued
  BY <1>1 DEF TakeBatch, reportVars, historyVars
<1>3. analytics \in [next : Offsets, committed : Offsets, batch : Seq(Offsets)] /\ Len(playLog) \in Nat
  BY DEF ListeningInv, ListeningTypes
<1>4. analytics.next \in Nat /\ analytics.next > 0
  BY <1>3 DEF Offsets
<1>5. \A k \in 1..n : analytics.next + k - 1 \in Offsets /\ analytics.next + k - 1 <= Len(playLog)
  BY <1>2, <1>3, <1>4 DEF Offsets
<1>6. b \in Seq(Offsets) /\ Len(b) = n /\ \A k \in 1..n : b[k] <= Len(playLog)
  BY <1>1, <1>5
<1>7. analytics' \in [next : Offsets, committed : Offsets, batch : Seq(Offsets)] /\ analytics'.batch = b
  BY <1>2, <1>3, <1>6
<1>8. IngestKnows'
  BY <1>2, <1>6, <1>7 DEF ListeningInv, IngestKnows, PlayedUnknown
<1>9. RowsKnow'
  BY <1>2 DEF ListeningInv, RowsKnow, PlayedUnknown
<1>10. trackCache' \in [TrackIds -> CacheStates]
  BY <1>2 DEF ListeningInv, ListeningTypes
<1>11. QED
  BY <1>2, <1>7, <1>8, <1>9, <1>10, IngestStep

\* A commit or a restart leaves an empty batch; what memory the restart loses
\* was of no consequence.
LEMMA CommitKeepsListening == ListeningInv /\ (CommitOffsets \/ AnalyticsRestart) => ListeningInv'
<1> SUFFICES ASSUME ListeningInv, CommitOffsets \/ AnalyticsRestart PROVE ListeningInv'
  OBVIOUS
<1>1. /\ playLog' = playLog /\ listens' = listens /\ hist' = hist /\ histDead' = histDead
      /\ eventRows' = eventRows /\ catalogued' = catalogued
      /\ trackCache' = trackCache \/ trackCache' = [t \in TrackIds |-> "none"]
  BY DEF CommitOffsets, AnalyticsRestart, reportVars, historyVars
<1>2. analytics \in [next : Offsets, committed : Offsets, batch : Seq(Offsets)] /\ trackCache \in [TrackIds -> CacheStates]
  BY DEF ListeningInv, ListeningTypes
<1>3. analytics' \in [next : Offsets, committed : Offsets, batch : Seq(Offsets)] /\ Len(analytics'.batch) = 0
  <2>1. CASE CommitOffsets
    BY <1>2, <2>1 DEF CommitOffsets
  <2>2. CASE AnalyticsRestart
    BY <1>2, <2>2 DEF AnalyticsRestart
  <2>3. QED
    BY <2>1, <2>2
<1>4. /\ trackCache' \in [TrackIds -> CacheStates]
      /\ \A t \in TrackIds : trackCache'[t] = "unknown" => trackCache[t] = "unknown"
  BY <1>1, <1>2 DEF CacheStates
<1>5. IngestKnows'
  BY <1>1, <1>3, <1>4 DEF ListeningInv, IngestKnows, PlayedUnknown
<1>6. RowsKnow'
  BY <1>1 DEF ListeningInv, RowsKnow, PlayedUnknown
<1>7. QED
  BY <1>1, <1>3, <1>4, <1>5, <1>6, IngestStep

\* Of a track that is in the batch and neither cached nor in the Catalog a play
\* was reported without it, and so for one the cache takes for unknown.
LEMMA MissingWasUnknown ==
  ASSUME ListeningInv, NEW i \in Range(analytics.batch)
  PROVE  /\ i \in 1..Len(playLog) /\ playLog[i].e.play.track \in TrackIds
         /\ playLog[i].e.play.track \notin catalogued => PlayedUnknown(playLog[i].e.play.track)
<1>1. /\ analytics.batch \in Seq(Offsets) /\ playLog \in Seq(LogEntry)
  BY DEF ListeningInv, ListeningTypes
<1>2. PICK k \in 1..Len(analytics.batch) : i = analytics.batch[k]
  BY <1>1 DEF Range
<1>3. i \in Offsets
  BY <1>1, <1>2
<1>4. i \in 1..Len(playLog)
  BY <1>1, <1>2, <1>3 DEF ListeningInv, IngestKnows, Offsets
<1>5. playLog[i] \in LogEntry
  BY <1>1, <1>4
<1>6. playLog[i].e \in AllReports /\ playLog[i].known \in Answers
  BY <1>5 DEF LogEntry
<1>7. playLog[i].e.play.track \in TrackIds
  BY <1>6, ListeningAssumption DEF AllReports, TrackIds
<1>8. playLog[i].known => playLog[i].e.play.track \in catalogued
  BY <1>4 DEF ListeningInv, IngestKnows
<1>9. QED
  BY <1>4, <1>7, <1>8 DEF PlayedUnknown

\* The rows of a batch lack artists only of tracks played before the Catalog had
\* them, whether the cache or the Catalog says so.
LEMMA IngestKeepsListening ==
  ASSUME ListeningInv, NEW stored \in BOOLEAN, NEW up \in BOOLEAN, Ingest(stored, up)
  PROVE  ListeningInv'
<1> DEFINE missing == {t \in BatchTracks : trackCache[t] = "none"}
           hits == {t \in BatchTracks : trackCache[t] = "known"}
           known == hits \cup CatalogTracks(missing)
           rows == {Enrich(i, known) : i \in Range(analytics.batch)}
<1>1. /\ playLog' = playLog /\ listens' = listens /\ hist' = hist /\ histDead' = histDead /\ catalogued' = catalogued
      /\ analytics.batch # <<>> /\ trackCache' = CacheTracks(missing)
      /\ analytics' = IF stored THEN [next |-> Last(analytics.batch) + 1, committed |-> analytics.committed, batch |-> <<>>]
                       ELSE analytics
      /\ InsertEvents(rows, analytics.batch)
  BY DEF Ingest, reportVars, historyVars
<1>2. eventRows' = eventRows \/ eventRows' = eventRows \cup rows
  BY <1>1 DEF InsertEvents
<1>3. /\ analytics \in [next : Offsets, committed : Offsets, batch : Seq(Offsets)]
      /\ trackCache \in [TrackIds -> CacheStates]
  BY DEF ListeningInv, ListeningTypes
<1>4. analytics' \in [next : Offsets, committed : Offsets, batch : Seq(Offsets)]
  <2>1. Last(analytics.batch) \in Offsets
    BY <1>1, <1>3 DEF Last
  <2>2. Last(analytics.batch) + 1 \in Offsets
    BY <2>1 DEF Offsets
  <2>3. QED
    BY <1>1, <1>3, <2>2
<1>5. analytics'.batch = <<>> \/ analytics'.batch = analytics.batch
  BY <1>1
<1>6. \A t \in BatchTracks : t \in TrackIds /\ (t \notin catalogued => PlayedUnknown(t))
  BY MissingWasUnknown DEF BatchTracks
<1>7. ASSUME NEW t \in TrackIds
      PROVE  /\ trackCache'[t] \in CacheStates
             /\ trackCache'[t] = "unknown" => PlayedUnknown(t)
  <2>1. PICK full \in BOOLEAN :
          trackCache' = [u \in TrackIds |-> IF u \in missing THEN (IF u \in CatalogTracks(missing) THEN "known" ELSE "unknown")
                                            ELSE IF full THEN "none" ELSE trackCache[u]]
    BY <1>1 DEF CacheTracks
  <2>2. t \in missing /\ t \notin CatalogTracks(missing) => PlayedUnknown(t)
    BY <1>6 DEF CatalogTracks
  <2>3. trackCache[t] \in CacheStates /\ (trackCache[t] = "unknown" => PlayedUnknown(t))
    BY <1>3 DEF ListeningInv, IngestKnows
  <2> HIDE DEF missing
  <2>4. QED
    BY <2>1, <2>2, <2>3 DEF CacheStates
<1>8. trackCache' \in [TrackIds -> CacheStates]
  BY <1>1, <1>7 DEF CacheTracks
<1>9. IngestKnows'
  <2>1. \A k \in 1..Len(analytics'.batch) : analytics'.batch[k] <= Len(playLog)
    BY <1>5 DEF ListeningInv, IngestKnows
  <2>2. \A t \in TrackIds : trackCache'[t] = "unknown" => PlayedUnknown(t)'
    BY <1>1, <1>7 DEF PlayedUnknown
  <2>3. QED
    BY <1>1, <2>1, <2>2 DEF ListeningInv, IngestKnows
<1>10. ASSUME NEW r \in rows, r.artists = {} PROVE PlayedUnknown(r.e.play.track)
  <2>1. PICK i \in Range(analytics.batch) : r = Enrich(i, known)
    OBVIOUS
  <2>2. PICK t : t = playLog[i].e.play.track
    OBVIOUS
  <2>3. t \in BatchTracks /\ t \in TrackIds
    BY <1>6, <2>2 DEF BatchTracks
  <2>4. t \notin known
    BY <1>10, <2>1, <2>2, <2>3, ListeningAssumption DEF Enrich, TrackIds
  <2>5. trackCache[t] \in CacheStates
    BY <1>3, <2>3
  <2>6. CASE trackCache[t] = "none"
    <3>1. t \in missing /\ t \notin catalogued
      BY <2>3, <2>4, <2>6 DEF CatalogTracks
    <3>2. QED
      BY <1>6, <2>1, <2>2, <2>3, <3>1 DEF Enrich
  <2>7. CASE trackCache[t] = "unknown"
    BY <2>1, <2>2, <2>3, <2>7 DEF Enrich, ListeningInv, IngestKnows
  <2>8. CASE trackCache[t] = "known"
    BY <2>3, <2>4, <2>8
  <2>9. QED
    BY <2>5, <2>6, <2>7, <2>8 DEF CacheStates
<1>11. RowsKnow'
  <2> HIDE DEF rows
  <2>1. \A t : PlayedUnknown(t)' <=> PlayedUnknown(t)
    BY <1>1 DEF PlayedUnknown
  <2>2. QED
    BY <1>2, <1>10, <2>1 DEF ListeningInv, RowsKnow
<1>12. QED
  BY <1>1, <1>4, <1>8, <1>9, <1>11, IngestStep

\* Every step keeps the invariant.
LEMMA ListeningInvNext ==
  ListeningInv /\ [HistoryNext \/ IngestNext \/ AggregateNext]_listeningVars => ListeningInv'
<1> SUFFICES ASSUME ListeningInv, [HistoryNext \/ IngestNext \/ AggregateNext]_listeningVars
             PROVE  ListeningInv'
  OBVIOUS
<1>1. ASSUME NEW e \in AllReports, Report(e) PROVE ListeningInv'
  BY <1>1, ReportKeepsListening
<1>2. ASSUME playLog' = playLog, listens' = listens, hist' = hist, histDead' = histDead,
             analytics' = analytics, trackCache' = trackCache, eventRows' = eventRows, catalogued \subseteq catalogued'
      PROVE  ListeningInv'
  <2>1. IngestKnows'
    BY <1>2 DEF ListeningInv, IngestKnows, PlayedUnknown
  <2>2. RowsKnow'
    BY <1>2 DEF ListeningInv, RowsKnow, PlayedUnknown
  <2>3. QED
    BY <1>2, <2>1, <2>2, IngestStep DEF ListeningInv, ListeningTypes
<1>3. CASE Midnight \/ RecomputeRecent \/ \E ok \in BOOLEAN : RecomputeDay(ok)
  BY <1>2, <1>3 DEF Midnight, RecomputeRecent, RecomputeDay, reportVars, historyVars, ingestVars
<1>4. ASSUME NEW t \in TrackIds, TrackCreated(t) PROVE ListeningInv'
  BY <1>2, <1>4 DEF TrackCreated, reportVars, historyVars, ingestVars
<1>5. ASSUME NEW t \in TrackIds, CacheExpires(t) PROVE ListeningInv'
  <2>1. /\ playLog' = playLog /\ listens' = listens /\ hist' = hist /\ histDead' = histDead /\ analytics' = analytics
        /\ eventRows' = eventRows /\ catalogued' = catalogued /\ trackCache' = [trackCache EXCEPT ![t] = "none"]
    BY <1>5 DEF CacheExpires, reportVars, historyVars
  <2>2. /\ trackCache' \in [TrackIds -> CacheStates]
        /\ \A u \in TrackIds : trackCache'[u] = "unknown" => trackCache[u] = "unknown"
    BY <2>1 DEF ListeningInv, ListeningTypes, CacheStates
  <2>3. IngestKnows'
    BY <2>1, <2>2 DEF ListeningInv, IngestKnows, PlayedUnknown
  <2>4. RowsKnow'
    BY <2>1 DEF ListeningInv, RowsKnow, PlayedUnknown
  <2>5. QED
    BY <2>1, <2>2, <2>3, <2>4, IngestStep DEF ListeningInv, ListeningTypes
<1>6. CASE UNCHANGED listeningVars
  BY <1>2, <1>6 DEF listeningVars, reportVars, historyVars, ingestVars
<1>7. CASE HistoryNext
  BY <1>1, <1>3, <1>7, HandleKeepsListening, RestartKeepsListening DEF HistoryNext, AllReports
<1>8. CASE IngestNext
  BY <1>1, <1>4, <1>5, <1>8, TakeBatchKeepsListening, IngestKeepsListening, CommitKeepsListening
     DEF IngestNext, AllReports
<1>9. CASE AggregateNext
  BY <1>1, <1>3, <1>9, TakeBatchKeepsListening, IngestKeepsListening, CommitKeepsListening
     DEF AggregateNext, AllReports
<1>10. QED
  BY <1>6, <1>7, <1>8, <1>9

-----------------------------------------------------------------------------
(* Sums *)

\* A sum of naturals counts pairs: so much of each element.
Units(f, S) == {p \in S \X Nat : 1 <= p[2] /\ p[2] <= f[p[1]]}

\* An element more is its pairs more.
LEMMA UnitsAdd ==
  ASSUME NEW f, NEW S, NEW x \in S, f[x] \in Nat, IsFiniteSet(Units(f, S \ {x}))
  PROVE  /\ IsFiniteSet(Units(f, S))
         /\ Cardinality(Units(f, S)) = f[x] + Cardinality(Units(f, S \ {x}))
<1>1. PICK n \in Nat : n = f[x]
  OBVIOUS
<1>2. PICK one : one = {x} \X (1..n)
  OBVIOUS
<1>3. PICK rest : rest = Units(f, S \ {x})
  OBVIOUS
<1>4. IsFiniteSet(one) /\ Cardinality(one) = n
  <2>1. 1 \in Int /\ n \in Int
    BY <1>1
  <2>2. IsFiniteSet(1..n) /\ Cardinality(1..n) = IF 1 > n THEN 0 ELSE n - 1 + 1
    BY <2>1, FS_Interval
  <2>3. Cardinality(1..n) = n
    BY <1>1, <2>2
  <2>4. IsFiniteSet({x}) /\ Cardinality({x}) = 1
    BY FS_Singleton
  <2>5. IsFiniteSet(one) /\ Cardinality(one) = Cardinality({x}) * Cardinality(1..n)
    BY <1>2, <2>2, <2>4, FS_Product
  <2>6. QED
    BY <1>1, <2>3, <2>4, <2>5
<1>5. Units(f, S) = one \cup rest /\ one \cap rest = {}
  BY <1>1, <1>2, <1>3 DEF Units
<1>6. IsFiniteSet(rest)
  BY <1>3
<1>7. /\ IsFiniteSet(one \cup rest)
      /\ Cardinality(one \cup rest) = Cardinality(one) + Cardinality(rest) - Cardinality(one \cap rest)
  BY <1>4, <1>6, FS_Union
<1>8. Cardinality(rest) \in Nat /\ Cardinality(one \cap rest) = 0
  BY <1>5, <1>6, FS_CardinalityType, FS_EmptySet
<1>9. Cardinality(one \cup rest) = n + Cardinality(rest)
  BY <1>1, <1>4, <1>7, <1>8
<1>10. QED
  BY <1>1, <1>3, <1>5, <1>7, <1>9

\* A finite set that lacks a property that the empty set has and that an
\* element more does not take away: there is a smallest one.
LEMMA SmallestWithout ==
  ASSUME NEW S, IsFiniteSet(S), NEW Good, {} \in Good,
         \A s \in SUBSET S : s # {} /\ (\A x \in s : s \ {x} \in Good) => s \in Good
  PROVE  S \in Good
<1> SUFFICES ASSUME S \notin Good PROVE FALSE
  OBVIOUS
<1> DEFINE Bad == {Cardinality(s) : s \in {s \in SUBSET S : s \notin Good}}
<1>1. \A s \in SUBSET S : IsFiniteSet(s) /\ Cardinality(s) \in Nat
  BY FS_Subset, FS_CardinalityType
<1>2. Bad \subseteq Nat /\ Bad # {}
  BY <1>1
<1>3. PICK n \in Bad : \A m \in Bad : n <= m
  <2> HIDE DEF Bad
  <2>1. QED
    BY <1>2, LeastExists
<1>4. PICK s \in SUBSET S : s \notin Good /\ Cardinality(s) = n
  OBVIOUS
<1>5. ASSUME NEW x \in s, s \ {x} \notin Good PROVE FALSE
  <2>1. Cardinality(s \ {x}) = Cardinality(s) - 1
    BY <1>1, FS_RemoveElement
  <2>2. Cardinality(s \ {x}) \in Bad
    BY <1>5
  <2>3. n <= n - 1 /\ n \in Nat
    BY <1>1, <1>3, <1>4, <2>1, <2>2
  <2>4. QED
    BY <2>3
<1>6. QED
  BY <1>4, <1>5

\* There are finitely many.
LEMMA UnitsFinite ==
  ASSUME NEW S, IsFiniteSet(S), NEW f, \A x \in S : f[x] \in Nat
  PROVE  IsFiniteSet(Units(f, S))
<1> DEFINE Good == {s \in SUBSET S : IsFiniteSet(Units(f, s))}
<1>1. {} \in Good
  <2>1. Units(f, {}) = {}
    BY DEF Units
  <2>2. QED
    BY <2>1, FS_EmptySet
<1>2. ASSUME NEW s \in SUBSET S, s # {}, \A x \in s : s \ {x} \in Good PROVE s \in Good
  <2>1. PICK x \in s : IsFiniteSet(Units(f, s \ {x}))
    BY <1>2
  <2>2. QED
    BY <2>1, UnitsAdd
<1>3. S \in Good
  <2> HIDE DEF Good
  <2>1. QED
    BY <1>1, <1>2, SmallestWithout
<1>4. QED
  BY <1>3

\* A recursion that adds up the elements.
Adds(f, S, sum) ==
  sum = [s \in SUBSET S |-> IF s = {} THEN 0
                            ELSE f[CHOOSE x \in s : TRUE] + sum[s \ {CHOOSE x \in s : TRUE}]]

\* The sum is the number of pairs.
LEMMA SumCounts ==
  ASSUME NEW S, IsFiniteSet(S), NEW f, \A x \in S : f[x] \in Nat
  PROVE  SumOf(f, S) = Cardinality(Units(f, S))
<1> DEFINE count == [s \in SUBSET S |-> Cardinality(Units(f, s))]
           one(s) == CHOOSE x \in s : TRUE
<1>1. ASSUME NEW s \in SUBSET S, s # {}
      PROVE  one(s) \in s /\ count[s] = f[one(s)] + count[s \ {one(s)}]
  <2>1. one(s) \in s
    BY <1>1
  <2>2. s \ {one(s)} \in SUBSET S /\ f[one(s)] \in Nat /\ IsFiniteSet(s \ {one(s)})
    BY <2>1, FS_Subset
  <2>3. \A x \in s \ {one(s)} : f[x] \in Nat
    OBVIOUS
  <2> HIDE DEF one
  <2>4. IsFiniteSet(Units(f, s \ {one(s)}))
    BY <2>2, <2>3, UnitsFinite
  <2>5. Cardinality(Units(f, s)) = f[one(s)] + Cardinality(Units(f, s \ {one(s)}))
    BY <2>1, <2>2, <2>4, UnitsAdd
  <2>6. QED
    BY <2>1, <2>2, <2>5
<1>2. count[{}] = 0
  <2>1. Units(f, {}) = {}
    BY DEF Units
  <2>2. QED
    BY <2>1, FS_EmptySet
<1>3. Adds(f, S, count)
  <2>1. \A s \in SUBSET S : count[s] = IF s = {} THEN 0 ELSE f[one(s)] + count[s \ {one(s)}]
    BY <1>1, <1>2
  <2>2. count = [s \in SUBSET S |-> count[s]]
    OBVIOUS
  <2>3. PICK g : g = count
    OBVIOUS
  <2>4. g = [s \in SUBSET S |-> IF s = {} THEN 0 ELSE f[one(s)] + g[s \ {one(s)}]]
    <3> HIDE DEF count, one
    <3>1. QED
      BY <2>1, <2>2, <2>3
  <2>5. Adds(f, S, g)
    BY <2>4 DEF Adds
  <2>6. QED
    BY <2>3, <2>5
<1>4. PICK sum : Adds(f, S, sum) /\ SumOf(f, S) = sum[S]
  <2> HIDE DEF count
  <2>1. SumOf(f, S) = (CHOOSE g : Adds(f, S, g))[S]
    BY Zenon DEF SumOf, MapThenSumSet, MapThenFoldSet, Adds
  <2>2. Adds(f, S, CHOOSE g : Adds(f, S, g))
    BY <1>3, Zenon
  <2>3. QED
    BY <2>1, <2>2
<1>5. \A s \in SUBSET S : sum[s] = IF s = {} THEN 0 ELSE f[one(s)] + sum[s \ {one(s)}]
  BY <1>4, Zenon DEF Adds
<1>6. S \in {s \in SUBSET S : sum[s] = count[s]}
  <2> DEFINE Good == {s \in SUBSET S : sum[s] = count[s]}
  <2>1. {} \in Good
    BY <1>2, <1>5
  <2>2. ASSUME NEW s \in SUBSET S, s # {}, \A x \in s : s \ {x} \in Good PROVE s \in Good
    <3>1. one(s) \in s /\ count[s] = f[one(s)] + count[s \ {one(s)}]
      BY <1>1, <2>2
    <3>2. sum[s] = f[one(s)] + sum[s \ {one(s)}]
      BY <1>5, <2>2
    <3>3. s \ {one(s)} \in Good
      BY <2>2, <3>1
    <3> HIDE DEF one, count
    <3>4. QED
      BY <3>1, <3>2, <3>3
  <2>3. S \in Good
    <3> HIDE DEF Good
    <3>1. QED
      BY <2>1, <2>2, SmallestWithout
  <2>4. QED
    BY <2>3
<1>7. QED
  BY <1>4, <1>6

\* Sets of the same size: one is mapped to the other, one to one.
LEMMA SameSize ==
  ASSUME NEW S, IsFiniteSet(S), NEW T, NEW h \in [S -> T],
         \A x, y \in S : h[x] = h[y] => x = y, \A y \in T : \E x \in S : h[x] = y
  PROVE  IsFiniteSet(T) /\ Cardinality(T) = Cardinality(S)
<1>1. h \in Bijection(S, T)
  BY Zenon DEF Bijection, Injection, IsInjective, Surjection
<1>2. ExistsBijection(S, T)
  BY <1>1, Zenon DEF ExistsBijection
<1>3. QED
  BY <1>2, FS_Bijection

\* A sum does not depend on what its elements are called.
LEMMA SumRenamed ==
  ASSUME NEW S, IsFiniteSet(S), NEW T, NEW h \in [S -> T],
         \A x, y \in S : h[x] = h[y] => x = y, \A y \in T : \E x \in S : h[x] = y,
         NEW f, NEW g, \A x \in S : f[x] \in Nat /\ f[x] = g[h[x]]
  PROVE  SumOf(f, S) = SumOf(g, T)
<1>1. IsFiniteSet(T)
  BY SameSize
<1>2. \A y \in T : g[y] \in Nat
  OBVIOUS
<1>3. SumOf(f, S) = Cardinality(Units(f, S)) /\ SumOf(g, T) = Cardinality(Units(g, T)) /\ IsFiniteSet(Units(f, S))
  BY <1>1, <1>2, SumCounts, UnitsFinite
<1>4. PICK u : u = [p \in Units(f, S) |-> <<h[p[1]], p[2]>>]
  OBVIOUS
<1>5. u \in [Units(f, S) -> Units(g, T)]
  BY <1>4 DEF Units
<1>6. \A p, q \in Units(f, S) : u[p] = u[q] => p = q
  BY <1>4 DEF Units
<1>7. ASSUME NEW q \in Units(g, T) PROVE \E p \in Units(f, S) : u[p] = q
  <2>1. q[1] \in T /\ q[2] \in Nat /\ q = <<q[1], q[2]>> /\ 1 <= q[2] /\ q[2] <= g[q[1]]
    BY DEF Units
  <2>2. PICK x \in S : h[x] = q[1]
    BY <2>1
  <2>3. <<x, q[2]>> \in Units(f, S)
    BY <2>1, <2>2 DEF Units
  <2>4. u[<<x, q[2]>>] = q
    BY <1>4, <2>1, <2>2, <2>3
  <2>5. QED
    BY <2>3, <2>4
<1>8. Cardinality(Units(g, T)) = Cardinality(Units(f, S))
  BY <1>3, <1>5, <1>6, <1>7, SameSize
<1>9. QED
  BY <1>3, <1>8

\* The first n naturals number the elements of one part.
Numbers(b, n, T, of, d) ==
  /\ b \in [1..n -> T]
  /\ \A i \in 1..n : of[b[i]] = d
  /\ \A i, j \in 1..n : b[i] = b[j] => i = j
  /\ \A x \in T : of[x] = d => \E i \in 1..n : b[i] = x

\* The sizes of disjoint sets add up to the size of what they are together.
LEMMA SumOfParts ==
  ASSUME NEW D, IsFiniteSet(D), NEW T, IsFiniteSet(T), NEW of \in [T -> D],
         NEW f, \A d \in D : f[d] = Cardinality({x \in T : of[x] = d})
  PROVE  SumOf(f, D) = Cardinality(T)
<1> DEFINE part(d) == {x \in T : of[x] = d}
<1>1. ASSUME NEW d \in D
      PROVE  f[d] \in Nat /\ \E b : Numbers(b, f[d], T, of, d)
  <2>1. IsFiniteSet(part(d))
    BY FS_Subset
  <2>2. f[d] \in Nat /\ ExistsBijection(1..f[d], part(d))
    BY <2>1, FS_CardinalityType
  <2>3. PICK b \in Bijection(1..f[d], part(d)) : TRUE
    BY <2>2, Zenon DEF ExistsBijection
  <2>4. /\ b \in [1..f[d] -> part(d)]
        /\ \A m, n \in 1..f[d] : b[m] = b[n] => m = n
        /\ \A x \in part(d) : \E n \in 1..f[d] : b[n] = x
    BY <2>3, Zenon DEF Bijection, Injection, IsInjective, Surjection
  <2>5. b \in [1..f[d] -> T] /\ \A n \in 1..f[d] : of[b[n]] = d
    BY <2>4
  <2>6. Numbers(b, f[d], T, of, d)
    BY <2>4, <2>5 DEF Numbers
  <2>7. QED
    BY <2>2, <2>6
<1>2. PICK h : h = [d \in D |-> CHOOSE b : Numbers(b, f[d], T, of, d)]
  OBVIOUS
<1>3. \A d \in D : Numbers(h[d], f[d], T, of, d)
  BY <1>1, <1>2
<1>4. SumOf(f, D) = Cardinality(Units(f, D)) /\ IsFiniteSet(Units(f, D))
  BY <1>1, SumCounts, UnitsFinite
<1>5. PICK u : u = [p \in Units(f, D) |-> h[p[1]][p[2]]]
  OBVIOUS
<1>6. ASSUME NEW p \in Units(f, D)
      PROVE  p[1] \in D /\ p[2] \in 1..f[p[1]] /\ p = <<p[1], p[2]>> /\ u[p] = h[p[1]][p[2]] /\ of[u[p]] = p[1] /\ u[p] \in T
  <2>1. p[1] \in D /\ p[2] \in 1..f[p[1]] /\ p = <<p[1], p[2]>>
    BY <1>1 DEF Units
  <2>2. u[p] = h[p[1]][p[2]]
    BY <1>5
  <2>3. PICK d \in D : d = p[1]
    BY <2>1
  <2>4. PICK n \in 1..f[d] : n = p[2]
    BY <2>1, <2>3
  <2>5. h[d][n] \in T /\ of[h[d][n]] = d
    BY <1>3 DEF Numbers
  <2>6. QED
    BY <2>1, <2>2, <2>3, <2>4, <2>5
<1>7. u \in [Units(f, D) -> T]
  BY <1>5, <1>6
<1>8. ASSUME NEW p \in Units(f, D), NEW q \in Units(f, D), u[p] = u[q] PROVE p = q
  <2>1. p[1] = q[1] /\ h[p[1]][p[2]] = h[p[1]][q[2]]
    BY <1>6, <1>8
  <2>2. p[2] = q[2]
    BY <1>3, <1>6, <2>1 DEF Numbers
  <2>3. QED
    BY <1>6, <2>1, <2>2
<1>9. ASSUME NEW x \in T PROVE \E p \in Units(f, D) : u[p] = x
  <2>1. PICK d \in D : d = of[x]
    OBVIOUS
  <2>2. PICK n \in 1..f[d] : h[d][n] = x
    BY <1>3, <2>1 DEF Numbers
  <2>3. <<d, n>> \in Units(f, D)
    BY <1>1, <2>1, <2>2 DEF Units
  <2>4. u[<<d, n>>] = x
    BY <1>5, <2>2, <2>3
  <2>5. QED
    BY <2>3, <2>4
<1>10. Cardinality(T) = Cardinality(Units(f, D))
  BY <1>4, <1>7, <1>8, <1>9, SameSize
<1>11. QED
  BY <1>4, <1>10

-----------------------------------------------------------------------------
(* The daily tables *)

TableNames == {"track", "artist", "totals"}
TableIds == 1..3
AggJobRecord == [day : Nat, to : Nat, table : Nat, ok : Answers]
\* The events of a day that are in the table.
IdsOn(d) == {i \in Ingested : playLog[i].at = d}

\* The rows are of the log, and of an event a block has one.
RowsOfLog ==
  /\ IsFiniteSet(eventRows) /\ IsFiniteSet(blocks)
  /\ \A r \in eventRows : /\ r.id \in 1..Len(playLog) /\ r.e = playLog[r.id].e /\ r.at = playLog[r.id].at
                          /\ r.block \in 1..Cardinality(blocks)
  /\ \A r, o \in eventRows : r.id = o.id /\ r.block = o.block => r = o

\* A table is as its statement would leave it.
Fresh(table, d) ==
  \A k \in KeysOf(table, DayRows(d)) :
    k \in DOMAIN daily[table][d] /\ daily[table][d][k] = StatsOf(RowsOf(table, k, DayRows(d)))

\* A day of a table has no key that its events do not have.
KeysKnown ==
  \A d \in Days : /\ DOMAIN daily["track"][d] \subseteq {playLog[i].e.play.track : i \in IdsOn(d)}
                  /\ DOMAIN daily["totals"][d] \subseteq IF IdsOn(d) = {} THEN {} ELSE {"total"}

AggJobTyped ==
  /\ today \in Days /\ aggJob \in AggJobRecord
  /\ aggJob.day # 0 => /\ aggJob.to \in Days /\ aggJob.to <= today
                       /\ aggJob.day \in RecentFrom(aggJob.to)..aggJob.to /\ aggJob.table \in TableIds

\* What a job without an error has got to is fresh, and all of the days are
\* when one has ended.
JobGotTo ==
  aggJob.day # 0 /\ aggJob.ok =>
    \A d \in RecentFrom(aggJob.to)..aggJob.to, n \in TableIds :
      d < aggJob.day \/ (d = aggJob.day /\ n < aggJob.table) => Fresh(Tables[n], d)
SettledIsFresh ==
  settled => \A d \in RecentFrom(today)..today, n \in TableIds : Fresh(Tables[n], d)

DailyTyped == \E V : daily \in [TableNames -> [Days -> V]]
LogValid == \A i \in 1..Len(playLog) : Validate(playLog[i].e)

AggregateInv ==
  RowsOfLog /\ LogValid /\ DailyTyped /\ KeysKnown /\ AggJobTyped /\ JobGotTo /\ SettledIsFresh

LEMMA TableNamed == /\ \A n \in TableIds : Tables[n] \in TableNames
                    /\ Tables[1] = "track" /\ Tables[3] = "totals" /\ Len(Tables) = 3 /\ Range(Tables) = TableNames
<1>1. /\ \A n \in TableIds : Tables[n] \in TableNames
      /\ Tables[1] = "track" /\ Tables[3] = "totals" /\ Len(Tables) = 3
  BY DEF Tables, TableIds, TableNames
<1>2. Range(Tables) = TableNames
  <2>1. DOMAIN Tables = 1..3 /\ Tables[2] = "artist"
    BY DEF Tables
  <2>2. \A n : n \in 1..3 <=> n = 1 \/ n = 2 \/ n = 3
    OBVIOUS
  <2>3. QED
    BY <1>1, <2>1, <2>2, Zenon DEF Range, TableNames
<1>3. QED
  BY <1>1, <1>2

LEMMA RecentDays ==
  ASSUME NEW d \in Days
  PROVE  RecentFrom(d) \in Days /\ RecentFrom(d) <= d /\ RecentFrom(d)..d \subseteq Days
BY ListeningAssumption DEF RecentFrom, Days

\* FINAL has one row of each event in the table.
LEMMA FinalRows ==
  ASSUME RowsOfLog
  PROVE  /\ \A r, o \in Final(eventRows) : r.id = o.id => r = o
         /\ \A i \in Ingested : \E r \in Final(eventRows) : r.id = i
<1>1. Cardinality(blocks) \in Nat
  BY FS_CardinalityType DEF RowsOfLog
<1>2. \A r \in eventRows : r.block \in 1..Cardinality(blocks)
  BY DEF RowsOfLog
<1>3. ASSUME NEW r \in Final(eventRows), NEW o \in Final(eventRows), r.id = o.id PROVE r = o
  <2>1. r \in eventRows /\ o \in eventRows /\ r.block <= o.block /\ o.block <= r.block
    BY <1>3 DEF Final
  <2>2. r.block = o.block
    BY <1>1, <1>2, <2>1
  <2>3. QED
    BY <1>3, <2>1, <2>2 DEF RowsOfLog
<1>4. ASSUME NEW i \in Ingested PROVE \E r \in Final(eventRows) : r.id = i
  <2> DEFINE of == {r \in eventRows : r.id = i}
             left == {Cardinality(blocks) - r.block : r \in of}
  <2>1. left \subseteq Nat /\ left # {}
    BY <1>1, <1>2 DEF Ingested
  <2>2. PICK m \in left : \A n \in left : m <= n
    <3> HIDE DEF left
    <3>1. QED
      BY <2>1, LeastExists
  <2>3. PICK r \in of : m = Cardinality(blocks) - r.block
    OBVIOUS
  <2>4. ASSUME NEW o \in of PROVE o.block <= r.block
    <3>1. m <= Cardinality(blocks) - o.block
      BY <2>2
    <3>2. o.block \in Nat /\ r.block \in Nat
      BY <1>1, <1>2
    <3>3. QED
      BY <1>1, <2>3, <3>1, <3>2
  <2>5. r \in Final(eventRows)
    BY <2>4 DEF Final
  <2>6. QED
    BY <2>5
<1>5. QED
  BY <1>3, <1>4

\* The rows of a day are those of its events.
LEMMA RowsOfDay ==
  ASSUME RowsOfLog, NEW d
  PROVE  /\ \A r \in DayRows(d) : r \in eventRows /\ r.id \in IdsOn(d) /\ r.e = playLog[r.id].e
         /\ \A r, o \in DayRows(d) : r.id = o.id => r = o
         /\ \A i \in IdsOn(d) : \E r \in DayRows(d) : r.id = i
         /\ IsFiniteSet(DayRows(d))
<1>1. ASSUME NEW r \in DayRows(d) PROVE r \in eventRows /\ r.id \in IdsOn(d) /\ r.e = playLog[r.id].e
  BY DEF DayRows, Final, IdsOn, Ingested, RowsOfLog
<1>2. ASSUME NEW i \in IdsOn(d) PROVE \E r \in DayRows(d) : r.id = i
  <2>1. PICK r \in Final(eventRows) : r.id = i
    BY FinalRows DEF IdsOn
  <2>2. r \in DayRows(d)
    BY <2>1 DEF DayRows, Final, IdsOn, RowsOfLog
  <2>3. QED
    BY <2>1, <2>2
<1>3. \A r, o \in DayRows(d) : r.id = o.id => r = o
  BY FinalRows DEF DayRows
<1>4. IsFiniteSet(DayRows(d))
  BY <1>1, FS_Subset DEF RowsOfLog
<1>5. QED
  BY <1>1, <1>2, <1>3, <1>4

\* The keys of a day, by its events.
LEMMA KeysOfDay ==
  ASSUME RowsOfLog, NEW d
  PROVE  /\ KeysOf("track", DayRows(d)) = {playLog[i].e.play.track : i \in IdsOn(d)}
         /\ KeysOf("totals", DayRows(d)) = IF IdsOn(d) = {} THEN {} ELSE {"total"}
<1>1. /\ \A r \in DayRows(d) : r.id \in IdsOn(d) /\ r.e = playLog[r.id].e
      /\ \A i \in IdsOn(d) : \E r \in DayRows(d) : r.id = i
  BY RowsOfDay
<1>2. KeysOf("track", DayRows(d)) = {r.e.play.track : r \in DayRows(d)}
  BY DEF KeysOf
<1>3. {r.e.play.track : r \in DayRows(d)} = {playLog[i].e.play.track : i \in IdsOn(d)}
  <2>1. \A r \in DayRows(d) : \E i \in IdsOn(d) : r.e.play.track = playLog[i].e.play.track
    BY <1>1
  <2>2. \A i \in IdsOn(d) : \E r \in DayRows(d) : playLog[i].e.play.track = r.e.play.track
    BY <1>1
  <2>3. QED
    BY <2>1, <2>2
<1>4. KeysOf("totals", DayRows(d)) = IF DayRows(d) = {} THEN {} ELSE {"total"}
  BY DEF KeysOf
<1>5. DayRows(d) = {} <=> IdsOn(d) = {}
  BY <1>1
<1>6. QED
  BY <1>2, <1>3, <1>4, <1>5

\* A table stays fresh while neither the rows nor its day change.
LEMMA StaysFresh ==
  ASSUME NEW table, NEW d, eventRows' = eventRows, daily'[table][d] = daily[table][d], Fresh(table, d)
  PROVE  Fresh(table, d)'
<1>1. DayRows(d)' = DayRows(d)
  BY DEF DayRows, Final
<1>2. QED
  BY <1>1 DEF Fresh

LEMMA NoJobTyped == NoAggJob \in AggJobRecord /\ NoAggJob.day = 0
<1>1. PICK b \in Answers : b = FALSE
  BY DEF Answers
<1>2. [day |-> 0, to |-> 0, table |-> 0, ok |-> b] \in AggJobRecord
  BY DEF AggJobRecord
<1>3. NoAggJob = [day |-> 0, to |-> 0, table |-> 0, ok |-> b]
  BY <1>1, Zenon DEF NoAggJob
<1>4. QED
  BY <1>2, <1>3

\* Nothing that the tables depend on changes.
LEMMA TablesStay ==
  ASSUME AggregateInv, playLog' = playLog, today' = today, eventRows' = eventRows, blocks' = blocks,
         daily' = daily, aggJob' = aggJob \/ aggJob' = NoAggJob, settled' = settled
  PROVE  AggregateInv'
<1>1. \A table, d : Fresh(table, d) => Fresh(table, d)'
  BY StaysFresh
<1>2. RowsOfLog' /\ LogValid' /\ DailyTyped' /\ KeysKnown'
  BY DEF AggregateInv, RowsOfLog, LogValid, DailyTyped, KeysKnown, IdsOn, Ingested
<1>3. aggJob' = NoAggJob => aggJob' \in AggJobRecord /\ aggJob'.day = 0
  BY NoJobTyped
<1>4. AggJobTyped'
  BY <1>3 DEF AggregateInv, AggJobTyped
<1>5. JobGotTo' /\ SettledIsFresh'
  BY <1>1, <1>3 DEF AggregateInv, JobGotTo, SettledIsFresh
<1>6. QED
  BY <1>2, <1>4, <1>5 DEF AggregateInv

\* A report becomes known to the tables when it is ingested.
LEMMA ReportKeepsTables ==
  ASSUME ListeningInv, AggregateInv, NEW e \in AllReports, Report(e)
  PROVE  AggregateInv'
<1>1. /\ today' = today /\ eventRows' = eventRows /\ blocks' = blocks
      /\ daily' = daily /\ aggJob' = aggJob /\ settled' = settled
  BY DEF Report, ingestVars, aggregateVars
<1>2. /\ playLog' \in Seq(LogEntry) /\ playLog \in Seq(LogEntry) /\ Len(playLog') >= Len(playLog)
      /\ \A i \in 1..Len(playLog) : playLog'[i] = playLog[i]
  BY ReportAppends DEF ListeningInv, ListeningTypes
<1>3. \A i \in 1..Len(playLog) : i \in 1..Len(playLog')
  BY <1>2
<1>4. RowsOfLog'
  BY <1>1, <1>2, <1>3 DEF AggregateInv, RowsOfLog
<1>5. LogValid'
  <2> SUFFICES ASSUME NEW i \in 1..Len(playLog') PROVE Validate(playLog'[i].e)
    BY DEF LogValid
  <2>1. PICK at \in Days :
          playLog' = IF Validate(e) THEN Append(playLog, [e |-> e, at |-> at, known |-> e.play.track \in catalogued])
                     ELSE playLog
    BY DEF Report
  <2>2. CASE i \in 1..Len(playLog)
    BY <1>2, <2>2 DEF AggregateInv, LogValid
  <2>3. CASE i \notin 1..Len(playLog)
    <3>1. Validate(e) /\ playLog'[i].e = e
      BY <1>2, <2>1, <2>3
    <3>2. QED
      BY <3>1
  <2>4. QED
    BY <2>2, <2>3
<1>6. \A d : IdsOn(d)' = IdsOn(d)
  BY <1>1, <1>2 DEF IdsOn, Ingested, AggregateInv, RowsOfLog
<1>7. \A d : \A i \in IdsOn(d) : playLog'[i] = playLog[i]
  BY <1>2 DEF IdsOn, Ingested, AggregateInv, RowsOfLog
<1>8. KeysKnown'
  BY <1>1, <1>6, <1>7 DEF AggregateInv, KeysKnown
<1>9. \A table, d : Fresh(table, d) => Fresh(table, d)'
  BY <1>1, StaysFresh
<1>10. DailyTyped' /\ AggJobTyped' /\ JobGotTo' /\ SettledIsFresh'
  BY <1>1, <1>9 DEF AggregateInv, DailyTyped, AggJobTyped, JobGotTo, SettledIsFresh
<1>11. QED
  BY <1>4, <1>5, <1>8, <1>10 DEF AggregateInv

\* A new day.
LEMMA MidnightKeepsTables == AggregateInv /\ Midnight => AggregateInv'
<1> SUFFICES ASSUME AggregateInv, Midnight PROVE AggregateInv'
  OBVIOUS
<1>1. /\ playLog' = playLog /\ eventRows' = eventRows /\ blocks' = blocks
      /\ daily' = daily /\ aggJob' = aggJob /\ settled' = FALSE /\ today' = today + 1 /\ today < LastDay
  BY DEF Midnight, ingestVars
<1>2. \A table, d : Fresh(table, d) => Fresh(table, d)'
  BY <1>1, StaysFresh
<1>3. RowsOfLog' /\ LogValid' /\ DailyTyped' /\ KeysKnown'
  <2>1. RowsOfLog' /\ LogValid' /\ DailyTyped'
    BY <1>1 DEF AggregateInv, RowsOfLog, LogValid, DailyTyped
  <2>2. \A d : IdsOn(d)' = IdsOn(d)
    BY <1>1 DEF IdsOn, Ingested
  <2>3. KeysKnown'
    BY <1>1, <2>2 DEF AggregateInv, KeysKnown
  <2>4. QED
    BY <2>1, <2>3
<1>4. AggJobTyped'
  BY <1>1, ListeningAssumption DEF AggregateInv, AggJobTyped, Days
<1>5. JobGotTo' /\ SettledIsFresh'
  BY <1>1, <1>2 DEF AggregateInv, JobGotTo, SettledIsFresh
<1>6. QED
  BY <1>3, <1>4, <1>5 DEF AggregateInv

\* A block of rows makes a new version of each of its events.
LEMMA IngestKeepsTables ==
  ASSUME ListeningInv, AggregateInv, NEW stored \in BOOLEAN, NEW up \in BOOLEAN, Ingest(stored, up)
  PROVE  AggregateInv'
<1>1. PICK known :
        InsertEvents({Enrich(i, known) : i \in Range(analytics.batch)}, analytics.batch)
  BY DEF Ingest
<1>2. PICK rows : rows = {Enrich(i, known) : i \in Range(analytics.batch)}
  OBVIOUS
<1>3. playLog' = playLog /\ today' = today /\ daily' = daily
  BY DEF Ingest, reportVars
<1>4. CASE analytics.batch \in blocks
  BY <1>1, <1>3, <1>4, TablesStay DEF InsertEvents
<1>5. CASE analytics.batch \notin blocks
  <2>1. /\ eventRows' = eventRows \cup rows /\ blocks' = blocks \cup {analytics.batch}
        /\ settled' = FALSE /\ aggJob' = [aggJob EXCEPT !.ok = FALSE]
    BY <1>1, <1>2, <1>5 DEF InsertEvents
  <2>2. PICK n \in Nat : n = Cardinality(blocks)
    BY FS_CardinalityType DEF AggregateInv, RowsOfLog
  <2>3. IsFiniteSet(blocks') /\ Cardinality(blocks') = n + 1
    BY <1>5, <2>1, <2>2, FS_AddElement DEF AggregateInv, RowsOfLog
  <2>4. ASSUME NEW r \in rows
        PROVE  /\ r.id \in 1..Len(playLog) /\ r.e = playLog[r.id].e /\ r.at = playLog[r.id].at
               /\ r.block = n + 1 /\ r.id \in Range(analytics.batch) /\ r = Enrich(r.id, known)
    <3>1. PICK i \in Range(analytics.batch) : r = Enrich(i, known)
      BY <1>2
    <3>2. i \in 1..Len(playLog)
      BY MissingWasUnknown
    <3>3. r.id = i /\ r.e = playLog[i].e /\ r.at = playLog[i].at /\ r.block = n + 1
      BY <2>2, <3>1 DEF Enrich
    <3>4. QED
      BY <3>1, <3>2, <3>3
  <2>5. IsFiniteSet(rows)
    <3>1. analytics.batch \in Seq(Offsets)
      BY DEF ListeningInv, ListeningTypes
    <3>2. PICK m \in Nat : m = Len(analytics.batch)
      BY <3>1
    <3>3. PICK b : b = [k \in 1..m |-> Enrich(analytics.batch[k], known)]
      OBVIOUS
    <3> DOMAIN analytics.batch = 1..m
      BY <3>1, <3>2
    <3>4. \A r \in rows : \E k \in 1..m : b[k] = r
      <4> SUFFICES ASSUME NEW r \in rows PROVE \E k \in 1..m : b[k] = r
        OBVIOUS
      <4>1. PICK i \in Range(analytics.batch) : r = Enrich(i, known)
        BY <1>2, Zenon
      <4>2. PICK k \in 1..m : i = analytics.batch[k]
        BY DEF Range
      <4>3. QED
        BY <3>3, <4>1, <4>2, Zenon
    <3>5. \A k \in 1..m : b[k] \in rows
      <4> SUFFICES ASSUME NEW k \in 1..m PROVE b[k] \in rows
        OBVIOUS
      <4>1. analytics.batch[k] \in Range(analytics.batch)
        BY Zenon DEF Range
      <4>2. QED
        BY <1>2, <3>3, <4>1, Zenon
    <3>6. b \in [1..m -> rows]
      BY <3>3, <3>5
    <3>7. b \in Surjection(1..m, rows)
      BY <3>4, <3>6, Zenon DEF Surjection
    <3>8. 1 \in Int /\ m \in Int
      OBVIOUS
    <3>9. QED
      BY <3>7, <3>8, FS_Interval, FS_Surjection
  <2>6. \A r \in eventRows' : r \in eventRows \/ r \in rows
    BY <2>1
  <2>7. \A r \in eventRows : r.block \in 1..n
    BY <2>2 DEF AggregateInv, RowsOfLog
  <2>8. RowsOfLog'
    <3>1. IsFiniteSet(eventRows')
      BY <2>1, <2>5, FS_Union DEF AggregateInv, RowsOfLog
    <3>2. ASSUME NEW r \in eventRows'
          PROVE  /\ r.id \in 1..Len(playLog) /\ r.e = playLog[r.id].e /\ r.at = playLog[r.id].at
                 /\ r.block \in 1..(n + 1)
      BY <2>4, <2>6, <2>7 DEF AggregateInv, RowsOfLog
    <3>3. ASSUME NEW r \in eventRows', NEW o \in eventRows', r.id = o.id, r.block = o.block PROVE r = o
      <4>1. CASE r \in eventRows /\ o \in eventRows
        BY <3>3, <4>1 DEF AggregateInv, RowsOfLog
      <4>2. CASE r \in rows /\ o \in rows
        BY <2>4, <3>3, <4>2
      <4>3. CASE r \in eventRows /\ o \in rows
        BY <2>4, <2>7, <3>3, <4>3
      <4>4. CASE r \in rows /\ o \in eventRows
        BY <2>4, <2>7, <3>3, <4>4
      <4>5. QED
        BY <2>6, <4>1, <4>2, <4>3, <4>4
    <3>4. QED
      BY <1>3, <2>3, <3>1, <3>2, <3>3 DEF RowsOfLog
  <2>9. \A d : IdsOn(d) \subseteq IdsOn(d)'
    BY <1>3, <2>1 DEF IdsOn, Ingested
  <2>10. KeysKnown'
    BY <1>3, <2>9 DEF AggregateInv, KeysKnown
  <2>11. AggJobTyped'
    <3>1. PICK b \in Answers : b = FALSE
      BY DEF Answers
    <3>2. aggJob \in AggJobRecord
      BY DEF AggregateInv, AggJobTyped
    <3>3. aggJob' = [aggJob EXCEPT !.ok = b]
      BY <2>1, <3>1, Zenon
    <3>4. /\ aggJob' \in AggJobRecord /\ aggJob'.day = aggJob.day /\ aggJob'.to = aggJob.to
          /\ aggJob'.table = aggJob.table
      BY <3>2, <3>3 DEF AggJobRecord
    <3>5. QED
      BY <1>3, <3>4 DEF AggregateInv, AggJobTyped
  <2>12. ~aggJob'.ok
    BY <2>1 DEF AggregateInv, AggJobTyped, AggJobRecord
  <2>13. JobGotTo' /\ SettledIsFresh' /\ LogValid' /\ DailyTyped'
    BY <1>3, <2>1, <2>12 DEF AggregateInv, JobGotTo, SettledIsFresh, LogValid, DailyTyped
  <2>14. QED
    BY <2>8, <2>10, <2>11, <2>13 DEF AggregateInv
<1>6. QED
  BY <1>4, <1>5

\* A job starts with the first table of the first of the recent days.
LEMMA RecentKeepsTables == AggregateInv /\ RecomputeRecent => AggregateInv'
<1> SUFFICES ASSUME AggregateInv, RecomputeRecent PROVE AggregateInv'
  OBVIOUS
<1>1. PICK b \in Answers : b = TRUE
  BY DEF Answers
<1>2. /\ playLog' = playLog /\ today' = today /\ eventRows' = eventRows /\ blocks' = blocks
      /\ daily' = daily /\ settled' = settled
  BY DEF RecomputeRecent, reportVars, ingestVars
<1>3. aggJob' = [day |-> RecentFrom(today), to |-> today, table |-> 1, ok |-> b]
  BY <1>1, Zenon DEF RecomputeRecent
<1>4. today \in Days /\ RecentFrom(today) \in Days /\ RecentFrom(today) <= today
  BY RecentDays DEF AggregateInv, AggJobTyped
<1>5. today \in Nat /\ RecentFrom(today) \in Nat
  BY <1>4 DEF Days
<1>6. /\ aggJob' \in AggJobRecord /\ aggJob'.day = RecentFrom(today) /\ aggJob'.to = today /\ aggJob'.table = 1
  BY <1>3, <1>5 DEF AggJobRecord
<1>7. AggJobTyped'
  BY <1>2, <1>4, <1>5, <1>6 DEF AggJobTyped, TableIds
<1>8. JobGotTo'
  <2> SUFFICES ASSUME NEW d \in RecentFrom(today)..today, NEW n \in TableIds, d < RecentFrom(today) \/ n < 1 PROVE FALSE
    BY <1>6 DEF JobGotTo
  <2>1. QED
    BY <1>5 DEF TableIds
<1>9. \A table, d : Fresh(table, d) => Fresh(table, d)'
  BY <1>2, StaysFresh
<1>10. RowsOfLog' /\ LogValid' /\ DailyTyped' /\ SettledIsFresh'
  BY <1>2, <1>9 DEF AggregateInv, RowsOfLog, LogValid, DailyTyped, SettledIsFresh
<1>11. KeysKnown'
  <2>1. \A d : IdsOn(d)' = IdsOn(d)
    BY <1>2 DEF IdsOn, Ingested
  <2>2. QED
    BY <1>2, <2>1 DEF AggregateInv, KeysKnown
<1>12. QED
  BY <1>7, <1>8, <1>10, <1>11 DEF AggregateInv

\* A statement makes one day of one table fresh and leaves the others alone.
LEMMA StatementRefreshes ==
  ASSUME AggregateInv, NEW n \in TableIds, NEW day \in Days, eventRows' = eventRows, playLog' = playLog,
         daily' = [daily EXCEPT ![Tables[n]][day] = RecomputeTable(Tables[n], day)]
  PROVE  /\ DailyTyped' /\ KeysKnown' /\ Fresh(Tables[n], day)'
         /\ \A t \in TableNames, d \in Days : Fresh(t, d) => Fresh(t, d)'
<1>1. PICK T \in TableNames : T = Tables[n]
  BY TableNamed
<1>2. PICK new : new = RecomputeTable(T, day)
  OBVIOUS
<1>3. PICK V : daily \in [TableNames -> [Days -> V]]
  BY DEF AggregateInv, DailyTyped
<1>4. daily' = [daily EXCEPT ![T][day] = new]
  BY <1>1, <1>2
<1>5. PICK W : daily' \in [TableNames -> [Days -> W]]
  <2>1. PICK W : W = V \cup {new}
    OBVIOUS
  <2>2. daily \in [TableNames -> [Days -> W]] /\ new \in W
    BY <1>3, <2>1
  <2>3. PICK one : one = [daily[T] EXCEPT ![day] = new]
    OBVIOUS
  <2>4. one \in [Days -> W]
    BY <2>2, <2>3
  <2>5. daily' = [daily EXCEPT ![T] = one]
    BY <1>4, <2>3, Zenon
  <2>6. daily' \in [TableNames -> [Days -> W]]
    BY <2>2, <2>4, <2>5
  <2>7. QED
    BY <2>6
<1>6. /\ daily'[T][day] = new
      /\ \A t \in TableNames, d \in Days : t # T \/ d # day => daily'[t][d] = daily[t][d]
  BY <1>3, <1>4
<1>7. DailyTyped'
  BY <1>5 DEF DailyTyped
<1>8. PICK keys : keys = KeysOf(T, DayRows(day))
  OBVIOUS
<1>9. /\ DOMAIN new = keys \cup DOMAIN daily[T][day]
      /\ \A k \in keys : new[k] = StatsOf(RowsOf(T, k, DayRows(day)))
  BY <1>2, <1>8 DEF RecomputeTable
<1>10. DayRows(day)' = DayRows(day)
  BY DEF DayRows, Final
<1>11. Fresh(T, day)'
  BY <1>6, <1>8, <1>9, <1>10 DEF Fresh
<1>12. ASSUME NEW t \in TableNames, NEW d \in Days, Fresh(t, d) PROVE Fresh(t, d)'
  <2>1. CASE t = T /\ d = day
    BY <1>11, <2>1
  <2>2. CASE t # T \/ d # day
    BY <1>6, <1>12, <2>2, StaysFresh
  <2>3. QED
    BY <2>1, <2>2
<1>13. \A d : IdsOn(d)' = IdsOn(d)
  BY DEF IdsOn, Ingested
<1>14. KeysKnown'
  <2> DEFINE tracks(d) == {playLog[i].e.play.track : i \in IdsOn(d)}
             total(d) == IF IdsOn(d) = {} THEN {} ELSE {"total"}
  <2>1. ASSUME NEW d \in Days PROVE DOMAIN daily'["track"][d] \subseteq tracks(d) /\ DOMAIN daily'["totals"][d] \subseteq total(d)
    <3>1. DOMAIN daily["track"][d] \subseteq tracks(d) /\ DOMAIN daily["totals"][d] \subseteq total(d)
      BY DEF AggregateInv, KeysKnown
    <3>2. KeysOf("track", DayRows(d)) = tracks(d) /\ KeysOf("totals", DayRows(d)) = total(d)
      BY KeysOfDay DEF AggregateInv
    <3>3. "track" \in TableNames /\ "totals" \in TableNames
      BY DEF TableNames
    <3> HIDE DEF tracks, total
    <3>4. DOMAIN daily'["track"][d] \subseteq tracks(d)
      <4>1. CASE T = "track" /\ d = day
        BY <1>6, <1>8, <1>9, <3>1, <3>2, <4>1
      <4>2. CASE "track" # T \/ d # day
        BY <1>6, <3>1, <3>3, <4>2
      <4>3. QED
        BY <4>1, <4>2
    <3>5. DOMAIN daily'["totals"][d] \subseteq total(d)
      <4>1. CASE T = "totals" /\ d = day
        BY <1>6, <1>8, <1>9, <3>1, <3>2, <4>1
      <4>2. CASE "totals" # T \/ d # day
        BY <1>6, <3>1, <3>3, <4>2
      <4>3. QED
        BY <4>1, <4>2
    <3>6. QED
      BY <3>4, <3>5
  <2>2. QED
    BY <1>13, <2>1 DEF KeysKnown
<1>15. QED
  BY <1>1, <1>7, <1>11, <1>12, <1>14

\* A statement of the job: it goes on to the next table or the next day, and
\* when it ends without an error what it was to refresh is fresh.
LEMMA RecomputeKeepsTables ==
  ASSUME AggregateInv, NEW ok \in BOOLEAN, RecomputeDay(ok)
  PROVE  AggregateInv'
<1> DEFINE endDay == ~ok \/ aggJob.table = 3
           done == endDay /\ aggJob.day = aggJob.to
           good == aggJob.ok /\ ok
<1>1. /\ playLog' = playLog /\ today' = today /\ eventRows' = eventRows /\ blocks' = blocks /\ aggJob.day # 0
  BY DEF RecomputeDay, reportVars, ingestVars
<1>2. PICK n \in TableIds : n = aggJob.table
  BY <1>1 DEF AggregateInv, AggJobTyped
<1>3. PICK day \in Days : day = aggJob.day
  BY <1>1, RecentDays DEF AggregateInv, AggJobTyped
<1>4. PICK to \in Days : to = aggJob.to
  BY <1>1 DEF AggregateInv, AggJobTyped
<1>5. /\ to <= today /\ day \in RecentFrom(to)..to /\ RecentFrom(to)..to \subseteq Days /\ RecentFrom(to) \in Nat
      /\ day \in Nat /\ to \in Nat /\ today \in Days /\ aggJob \in AggJobRecord
  BY <1>1, <1>3, <1>4, RecentDays DEF AggregateInv, AggJobTyped, Days
<1>6. /\ daily' = IF ok THEN [daily EXCEPT ![Tables[n]][day] = RecomputeTable(Tables[n], day)] ELSE daily
      /\ aggJob' = IF done THEN NoAggJob
                   ELSE [aggJob EXCEPT !.day = IF endDay THEN @ + 1 ELSE @, !.table = IF endDay THEN 1 ELSE @ + 1, !.ok = good]
      /\ settled' = IF done THEN good /\ to = today ELSE settled
  BY <1>2, <1>3, <1>4, TableNamed DEF RecomputeDay
<1>7. /\ DailyTyped' /\ KeysKnown' /\ (ok => Fresh(Tables[n], day)')
      /\ \A t \in TableNames, d \in Days : Fresh(t, d) => Fresh(t, d)'
  <2>1. CASE ok
    BY <1>1, <1>6, <2>1, StatementRefreshes
  <2>2. CASE ~ok
    <3>1. daily' = daily
      BY <1>6, <2>2
    <3>2. \A d : IdsOn(d)' = IdsOn(d)
      BY <1>1 DEF IdsOn, Ingested
    <3>3. DailyTyped' /\ KeysKnown'
      <4>1. DailyTyped'
        BY <3>1 DEF AggregateInv, DailyTyped
      <4>2. KeysKnown'
        BY <1>1, <3>1, <3>2 DEF AggregateInv, KeysKnown
      <4>3. QED
        BY <4>1, <4>2
    <3>4. QED
      BY <1>1, <2>2, <3>1, <3>3, StaysFresh
  <2>3. QED
    BY <2>1, <2>2
<1>8. ASSUME good, NEW d \in RecentFrom(to)..to, NEW m \in TableIds, d < day \/ (d = day /\ m <= n)
      PROVE  Fresh(Tables[m], d)'
  <2>1. d \in Days /\ Tables[m] \in TableNames
    BY <1>5, TableNamed
  <2>2. CASE d = day /\ m = n
    BY <1>7, <1>8, <2>2
  <2>3. CASE d < day \/ (d = day /\ m < n)
    <3>1. Fresh(Tables[m], d)
      BY <1>1, <1>2, <1>3, <1>4, <1>8, <2>3 DEF AggregateInv, JobGotTo
    <3>2. QED
      BY <1>7, <2>1, <3>1
  <2>4. QED
    BY <1>8, <2>2, <2>3 DEF TableIds
<1>9. RowsOfLog' /\ LogValid'
  BY <1>1 DEF AggregateInv, RowsOfLog, LogValid
<1>10. CASE done
  <2>1. aggJob' = NoAggJob
    BY <1>6, <1>10
  <2>2. aggJob' \in AggJobRecord /\ aggJob'.day = 0
    BY <2>1, NoJobTyped
  <2>3. AggJobTyped' /\ JobGotTo'
    BY <1>1, <1>5, <2>2 DEF AggJobTyped, JobGotTo
  <2>4. SettledIsFresh'
    <3> SUFFICES ASSUME good, to = today, NEW d \in RecentFrom(today)..today, NEW m \in TableIds PROVE Fresh(Tables[m], d)'
      BY <1>1, <1>6, <1>10 DEF SettledIsFresh
    <3>1. day = to /\ n = 3
      BY <1>2, <1>3, <1>4, <1>10
    <3>2. d < day \/ (d = day /\ m <= n)
      BY <1>5, <3>1 DEF TableIds
    <3>3. QED
      BY <1>8, <3>2
  <2>5. QED
    BY <1>7, <1>9, <2>3, <2>4 DEF AggregateInv
<1>11. CASE ~done
  <2>1. SettledIsFresh'
    <3> SUFFICES ASSUME settled, NEW d \in RecentFrom(today)..today, NEW m \in TableIds PROVE Fresh(Tables[m], d)'
      BY <1>1, <1>6, <1>11 DEF SettledIsFresh
    <3>1. Fresh(Tables[m], d)
      BY DEF AggregateInv, SettledIsFresh
    <3>2. d \in Days /\ Tables[m] \in TableNames
      BY <1>5, RecentDays, TableNamed
    <3>3. QED
      BY <1>7, <3>1, <3>2
  <2>2. PICK nday \in Nat : nday = IF endDay THEN day + 1 ELSE day
    BY <1>5
  <2>3. PICK ntable \in Nat : ntable = IF endDay THEN 1 ELSE n + 1
    BY DEF TableIds
  <2>4. PICK b \in Answers : b = good
    BY DEF Answers
  <2>5. aggJob' = [aggJob EXCEPT !.day = nday, !.table = ntable, !.ok = b]
    <3>1. PICK j : j = aggJob
      OBVIOUS
    <3>2. aggJob' = [j EXCEPT !.day = IF endDay THEN j.day + 1 ELSE j.day, !.table = IF endDay THEN 1 ELSE j.table + 1, !.ok = good]
      BY <1>6, <1>11, <3>1
    <3> HIDE DEF endDay, good, done
    <3>3. QED
      BY <1>2, <1>3, <2>2, <2>3, <2>4, <3>1, <3>2
  <2>6. /\ aggJob' \in AggJobRecord /\ aggJob'.day = nday /\ aggJob'.to = to /\ aggJob'.table = ntable
        /\ aggJob'.ok = b
    BY <1>4, <1>5, <2>5 DEF AggJobRecord
  <2>7. ntable \in TableIds /\ nday \in RecentFrom(to)..to
    BY <1>2, <1>3, <1>4, <1>5, <1>11, <2>2, <2>3 DEF TableIds
  <2>8. AggJobTyped'
    BY <1>1, <1>5, <2>6, <2>7 DEF AggJobTyped
  <2>9. JobGotTo'
    <3> SUFFICES ASSUME good, NEW d \in RecentFrom(to)..to, NEW m \in TableIds, d < nday \/ (d = nday /\ m < ntable)
                 PROVE  Fresh(Tables[m], d)'
      BY <2>4, <2>6 DEF JobGotTo
    <3>1. d < day \/ (d = day /\ m <= n)
      BY <1>2, <1>5, <2>2, <2>3 DEF TableIds
    <3>2. QED
      BY <1>8, <3>1
  <2>10. QED
    BY <1>7, <1>9, <2>1, <2>8, <2>9 DEF AggregateInv
<1>12. QED
  BY <1>10, <1>11

\* The initial state satisfies the invariant.
LEMMA AggregateInvInit == ListeningInit => AggregateInv
<1> SUFFICES ASSUME ListeningInit PROVE AggregateInv
  OBVIOUS
<1>1. /\ playLog = <<>> /\ today = 1 /\ eventRows = {} /\ blocks = {}
      /\ daily = [t \in Range(Tables) |-> [d \in Days |-> <<>>]] /\ aggJob = NoAggJob /\ settled = FALSE
  BY DEF ListeningInit
<1>2. daily = [t \in TableNames |-> [d \in Days |-> <<>>]]
  BY <1>1, TableNamed, Zenon
<1>3. RowsOfLog /\ LogValid
  BY <1>1, FS_EmptySet DEF RowsOfLog, LogValid
<1>4. DailyTyped
  <2>1. daily \in [TableNames -> [Days -> {<<>>}]]
    BY <1>2
  <2>2. QED
    BY <2>1 DEF DailyTyped
<1>5. KeysKnown
  <2>1. \A t \in TableNames, d \in Days : daily[t][d] = <<>>
    BY <1>2
  <2>2. DOMAIN <<>> = {}
    OBVIOUS
  <2>3. "track" \in TableNames /\ "totals" \in TableNames
    BY DEF TableNames
  <2>4. \A d \in Days : DOMAIN daily["track"][d] = {} /\ DOMAIN daily["totals"][d] = {}
    BY <2>1, <2>2, <2>3
  <2>5. QED
    BY <2>4 DEF KeysKnown
<1>6. today \in Days
  BY <1>1, ListeningAssumption DEF Days
<1>7. AggJobTyped /\ JobGotTo /\ SettledIsFresh
  BY <1>1, <1>6, NoJobTyped DEF AggJobTyped, JobGotTo, SettledIsFresh
<1>8. QED
  BY <1>3, <1>4, <1>5, <1>7 DEF AggregateInv

\* Every step keeps the invariant.
LEMMA AggregateInvNext ==
  ListeningInv /\ AggregateInv /\ [HistoryNext \/ IngestNext \/ AggregateNext]_listeningVars => AggregateInv'
<1> SUFFICES ASSUME ListeningInv, AggregateInv, [HistoryNext \/ IngestNext \/ AggregateNext]_listeningVars
             PROVE  AggregateInv'
  OBVIOUS
<1>1. ASSUME NEW e \in AllReports, Report(e) PROVE AggregateInv'
  BY <1>1, ReportKeepsTables
<1>2. CASE HistoryHandle \/ HistoryDeadLetter \/ HistoryRestart
  BY <1>2, TablesStay DEF HistoryHandle, HistoryDeadLetter, HistoryRestart, reportVars, ingestVars, aggregateVars
<1>3. ASSUME NEW t \in TrackIds, TrackCreated(t) \/ CacheExpires(t) PROVE AggregateInv'
  BY <1>3, TablesStay DEF TrackCreated, CacheExpires, reportVars, ingestVars, aggregateVars
<1>4. ASSUME NEW n \in 1..2, TakeBatch(n) PROVE AggregateInv'
  BY <1>4, TablesStay DEF TakeBatch, reportVars, aggregateVars
<1>5. CASE CommitOffsets \/ AnalyticsRestart
  BY <1>5, TablesStay DEF CommitOffsets, AnalyticsRestart, reportVars, aggregateVars
<1>6. CASE UNCHANGED listeningVars
  BY <1>6, TablesStay DEF listeningVars, reportVars, ingestVars, aggregateVars
<1>7. CASE HistoryNext
  BY <1>1, <1>2, <1>7, MidnightKeepsTables DEF HistoryNext, AllReports
<1>8. CASE IngestNext
  BY <1>1, <1>3, <1>4, <1>5, <1>8, IngestKeepsTables DEF IngestNext, AllReports
<1>9. CASE AggregateNext
  BY <1>1, <1>4, <1>5, <1>9, MidnightKeepsTables, IngestKeepsTables, RecentKeepsTables, RecomputeKeepsTables
     DEF AggregateNext, AllReports
<1>10. QED
  BY <1>6, <1>7, <1>8, <1>9

-----------------------------------------------------------------------------
(* What the reports say *)

OfKind(ids, kind) == {i \in ids : playLog[i].e.kind = kind}
Heard(ids) == [i \in ids |-> TimeListened(playLog[i].e)]

\* The events are finitely many, and their times are naturals.
LEMMA EventsKnown ==
  ASSUME ListeningInv, AggregateInv
  PROVE  /\ Ingested \subseteq 1..Len(playLog) /\ IsFiniteSet(Ingested)
         /\ \A i \in Ingested : /\ playLog[i].at \in Days /\ playLog[i].e.play.track \in TrackIds
                                /\ TimeListened(playLog[i].e) \in Nat
<1>1. Ingested \subseteq 1..Len(playLog)
  BY DEF Ingested, AggregateInv, RowsOfLog
<1>2. playLog \in Seq(LogEntry)
  BY DEF ListeningInv, ListeningTypes
<1>3. 1 \in Int /\ Len(playLog) \in Int
  BY <1>2
<1>4. IsFiniteSet(Ingested)
  BY <1>1, <1>3, FS_Interval, FS_Subset
<1>5. ASSUME NEW i \in Ingested
      PROVE  /\ playLog[i].at \in Days /\ playLog[i].e.play.track \in TrackIds
             /\ TimeListened(playLog[i].e) \in Nat
  <2>1. i \in 1..Len(playLog) /\ playLog[i] \in LogEntry
    BY <1>1, <1>2
  <2>2. PICK e : e = playLog[i].e
    OBVIOUS
  <2>3. e \in AllReports /\ playLog[i].at \in Days
    BY <2>1, <2>2 DEF LogEntry
  <2>4. e.play \in Plays /\ e.listened \in Int
    BY <2>3, ListeningAssumption DEF AllReports
  <2>5. e.play.track \in TrackIds
    BY <2>4, ListeningAssumption DEF TrackIds
  <2>6. e.listened >= 0
    BY <2>1, <2>2 DEF AggregateInv, LogValid, Validate
  <2>7. QED
    BY <2>2, <2>3, <2>4, <2>5, <2>6 DEF TimeListened
<1>6. QED
  BY <1>1, <1>4, <1>5

\* A day's statistics are those of its events.
LEMMA StatsOfDay ==
  ASSUME ListeningInv, AggregateInv, NEW d, NEW s, s = StatsOf(DayRows(d))
  PROVE  /\ s.plays = Cardinality(OfKind(IdsOn(d), "started"))
         /\ s.completions = Cardinality(OfKind(IdsOn(d), "finished"))
         /\ s.skips = Cardinality(OfKind(IdsOn(d), "skipped"))
         /\ s.listened = SumOf(Heard(IdsOn(d)), IdsOn(d))
<1>1. PICK rows : rows = DayRows(d)
  OBVIOUS
<1>2. /\ \A r \in rows : r.id \in IdsOn(d) /\ r.e = playLog[r.id].e
      /\ \A r, o \in rows : r.id = o.id => r = o
      /\ \A i \in IdsOn(d) : \E r \in rows : r.id = i
      /\ IsFiniteSet(rows)
  BY <1>1, RowsOfDay DEF AggregateInv
<1>3. ASSUME NEW kind PROVE Cardinality({r \in rows : r.e.kind = kind}) = Cardinality(OfKind(IdsOn(d), kind))
  <2>1. PICK S : S = {r \in rows : r.e.kind = kind}
    OBVIOUS
  <2>2. PICK T : T = OfKind(IdsOn(d), kind)
    OBVIOUS
  <2>3. PICK h : h = [r \in S |-> r.id]
    OBVIOUS
  <2>4. IsFiniteSet(S)
    BY <1>2, <2>1, FS_Subset
  <2>5. h \in [S -> T]
    BY <1>2, <2>1, <2>2, <2>3 DEF OfKind
  <2>6. \A x, y \in S : h[x] = h[y] => x = y
    BY <1>2, <2>1, <2>3
  <2>7. ASSUME NEW y \in T PROVE \E x \in S : h[x] = y
    <3>1. y \in IdsOn(d) /\ playLog[y].e.kind = kind
      BY <2>2 DEF OfKind
    <3>2. PICK r \in rows : r.id = y
      BY <1>2, <3>1
    <3>3. r \in S
      BY <1>2, <2>1, <3>1, <3>2
    <3>4. QED
      BY <2>3, <3>2, <3>3
  <2>8. QED
    BY <2>1, <2>2, <2>4, <2>5, <2>6, <2>7, SameSize
<1>4. SumOf([r \in rows |-> TimeListened(r.e)], rows) = SumOf(Heard(IdsOn(d)), IdsOn(d))
  <2>1. PICK h : h = [r \in rows |-> r.id]
    OBVIOUS
  <2>2. PICK f : f = [r \in rows |-> TimeListened(r.e)]
    OBVIOUS
  <2>3. PICK g : g = Heard(IdsOn(d))
    OBVIOUS
  <2>4. PICK T : T = IdsOn(d)
    OBVIOUS
  <2>5. /\ h \in [rows -> T] /\ (\A x, y \in rows : h[x] = h[y] => x = y) /\ (\A y \in T : \E x \in rows : h[x] = y)
    BY <1>2, <2>1, <2>4
  <2>6. \A r \in rows : f[r] \in Nat /\ f[r] = g[h[r]]
    BY <1>2, <2>1, <2>2, <2>3, EventsKnown DEF Heard, IdsOn
  <2>7. SumOf(f, rows) = SumOf(g, T)
    BY <1>2, <2>5, <2>6, SumRenamed
  <2>8. QED
    BY <2>2, <2>3, <2>4, <2>7
<1>5. s = [plays |-> Cardinality(OfKind(IdsOn(d), "started")),
           completions |-> Cardinality(OfKind(IdsOn(d), "finished")),
           skips |-> Cardinality(OfKind(IdsOn(d), "skipped")),
           listeners |-> Cardinality({r.e.play.user : r \in rows}),
           listened |-> SumOf(Heard(IdsOn(d)), IdsOn(d))]
  BY <1>1, <1>3, <1>4, Zenon DEF StatsOf
<1>6. QED
  BY <1>5

\* The totals of a day that is fresh.
LEMMA TotalsOfDay ==
  ASSUME ListeningInv, AggregateInv, NEW d \in Days, Fresh("totals", d)
  PROVE  /\ "total" \in DOMAIN daily["totals"][d] <=> IdsOn(d) # {}
         /\ IdsOn(d) # {} => daily["totals"][d]["total"] = StatsOf(DayRows(d))
<1>1. KeysOf("totals", DayRows(d)) = IF IdsOn(d) = {} THEN {} ELSE {"total"}
  BY KeysOfDay DEF AggregateInv
<1>2. RowsOf("totals", "total", DayRows(d)) = DayRows(d)
  BY DEF RowsOf
<1>3. DOMAIN daily["totals"][d] \subseteq IF IdsOn(d) = {} THEN {} ELSE {"total"}
  BY DEF AggregateInv, KeysKnown
<1>4. QED
  BY <1>1, <1>2, <1>3 DEF Fresh

\* The events of some days.
IdsIn(from, to) == {i \in Ingested : playLog[i].at \in from..to}
\* The days that have any.
EventDays(from, to) == {d \in from..to : IdsOn(d) # {}}
DailyKind(f, days, kind) == \A d \in days : f[d] = Cardinality(OfKind(IdsOn(d), kind))
DailyTime(f, days) == \A d \in days : f[d] = SumOf(Heard(IdsOn(d)), IdsOn(d))

\* Daily numbers of events of a kind add up.
LEMMA KindAddsUp ==
  ASSUME ListeningInv, AggregateInv, NEW from \in Nat, NEW to \in Nat, NEW kind,
         NEW f, DailyKind(f, EventDays(from, to), kind)
  PROVE  SumOf(f, EventDays(from, to)) = Cardinality(OfKind(IdsIn(from, to), kind))
<1> DEFINE days == {d \in from..to : IdsOn(d) # {}}
<1>1. PICK T : T = OfKind(IdsIn(from, to), kind)
  OBVIOUS
<1>2. PICK of : of = [i \in T |-> playLog[i].at]
  OBVIOUS
<1>3. IsFiniteSet(days)
  <2>1. from \in Int /\ to \in Int
    OBVIOUS
  <2>2. QED
    BY <2>1, FS_Interval, FS_Subset
<1>4. IsFiniteSet(T)
  BY <1>1, EventsKnown, FS_Subset DEF OfKind, IdsIn
<1>5. of \in [T -> days]
  BY <1>1, <1>2 DEF OfKind, IdsIn, IdsOn
<1>6. \A d \in days : f[d] = Cardinality({i \in T : of[i] = d})
  <2>1. \A d \in days : {i \in T : of[i] = d} = OfKind(IdsOn(d), kind)
    BY <1>1, <1>2 DEF OfKind, IdsIn, IdsOn
  <2>2. QED
    BY <2>1 DEF DailyKind, EventDays
<1>7. days = EventDays(from, to)
  BY DEF EventDays
<1> HIDE DEF days
<1>8. QED
  BY <1>1, <1>3, <1>4, <1>5, <1>6, <1>7, SumOfParts

\* And so do the daily times.
LEMMA TimeAddsUp ==
  ASSUME ListeningInv, AggregateInv, NEW from \in Nat, NEW to \in Nat, NEW f,
         DailyTime(f, EventDays(from, to))
  PROVE  SumOf(f, EventDays(from, to)) = SumOf(Heard(IdsIn(from, to)), IdsIn(from, to))
<1>0. PICK days : /\ days = EventDays(from, to) /\ days = {d \in from..to : IdsOn(d) # {}}
                  /\ \A d \in days : f[d] = SumOf(Heard(IdsOn(d)), IdsOn(d))
  BY DEF DailyTime, EventDays
<1>1. PICK ids : ids = IdsIn(from, to)
  OBVIOUS
<1>2. PICK T : T = Units(Heard(ids), ids)
  OBVIOUS
<1>3. PICK of : of = [p \in T |-> playLog[p[1]].at]
  OBVIOUS
<1>4. IsFiniteSet(days)
  <2>1. from \in Int /\ to \in Int
    OBVIOUS
  <2>2. QED
    BY <1>0, <2>1, FS_Interval, FS_Subset
<1>5. ASSUME NEW S \in SUBSET Ingested
      PROVE  IsFiniteSet(Units(Heard(S), S)) /\ SumOf(Heard(S), S) = Cardinality(Units(Heard(S), S))
  <2>1. PICK h : h = Heard(S)
    OBVIOUS
  <2>2. IsFiniteSet(S) /\ \A i \in S : h[i] \in Nat
    BY <2>1, EventsKnown, FS_Subset DEF Heard
  <2>3. IsFiniteSet(Units(h, S)) /\ SumOf(h, S) = Cardinality(Units(h, S))
    BY <2>2, SumCounts, UnitsFinite
  <2>4. QED
    BY <2>1, <2>3
<1>6. ids \in SUBSET Ingested /\ \A d : IdsOn(d) \in SUBSET Ingested
  BY <1>1 DEF IdsIn, IdsOn
<1>7. IsFiniteSet(T) /\ SumOf(Heard(ids), ids) = Cardinality(T)
  BY <1>2, <1>5, <1>6
<1>8. \A p \in T : p[1] \in ids
  BY <1>2 DEF Units
<1>9. of \in [T -> days]
  BY <1>0, <1>1, <1>3, <1>8 DEF IdsIn, IdsOn
<1>10. ASSUME NEW d \in days PROVE f[d] = Cardinality({p \in T : of[p] = d})
  <2>1. {p \in T : of[p] = d} = Units(Heard(IdsOn(d)), IdsOn(d))
    <3>1. \A i : i \in IdsOn(d) <=> i \in ids /\ playLog[i].at = d
      BY <1>0, <1>1 DEF IdsIn, IdsOn
    <3>2. \A i \in IdsOn(d) : Heard(IdsOn(d))[i] = TimeListened(playLog[i].e) /\ Heard(ids)[i] = TimeListened(playLog[i].e)
      BY <3>1 DEF Heard
    <3>3. {p \in T : of[p] = d} = {p \in ids \X Nat : 1 <= p[2] /\ p[2] <= Heard(ids)[p[1]] /\ playLog[p[1]].at = d}
      BY <1>2, <1>3 DEF Units
    <3>4. QED
      BY <3>1, <3>2, <3>3 DEF Units
  <2>2. f[d] = Cardinality(Units(Heard(IdsOn(d)), IdsOn(d)))
    BY <1>0, <1>5, <1>6
  <2>3. QED
    BY <2>1, <2>2
<1>11. SumOf(f, days) = Cardinality(T)
  BY <1>4, <1>7, <1>9, <1>10, SumOfParts
<1>12. QED
  BY <1>0, <1>1, <1>7, <1>11

\* The report of days whose totals are fresh is what the log says.
LEMMA TotalsAreExact ==
  ASSUME ListeningInv, AggregateInv, NEW from \in Nat, NEW to \in Nat, from..to \subseteq Days,
         \A d \in from..to : Fresh("totals", d)
  PROVE  ReportTotals(from, to) = Expected(from, to)
<1>1. PICK days : days = {d \in from..to : IdsOn(d) # {}}
  OBVIOUS
<1>2. DaysWith("totals", "total", from, to) = days
  BY <1>1, TotalsOfDay DEF DaysWith
<1>3. PICK ids : ids = IdsIn(from, to)
  OBVIOUS
<1>4. \A d \in days : /\ daily["totals"][d]["total"]["plays"] = Cardinality(OfKind(IdsOn(d), "started"))
                      /\ daily["totals"][d]["total"]["completions"] = Cardinality(OfKind(IdsOn(d), "finished"))
                      /\ daily["totals"][d]["total"]["skips"] = Cardinality(OfKind(IdsOn(d), "skipped"))
                      /\ daily["totals"][d]["total"]["listened"] = SumOf(Heard(IdsOn(d)), IdsOn(d))
  <2> SUFFICES ASSUME NEW d \in days
               PROVE  /\ daily["totals"][d]["total"]["plays"] = Cardinality(OfKind(IdsOn(d), "started"))
                      /\ daily["totals"][d]["total"]["completions"] = Cardinality(OfKind(IdsOn(d), "finished"))
                      /\ daily["totals"][d]["total"]["skips"] = Cardinality(OfKind(IdsOn(d), "skipped"))
                      /\ daily["totals"][d]["total"]["listened"] = SumOf(Heard(IdsOn(d)), IdsOn(d))
    OBVIOUS
  <2>1. PICK s : s = daily["totals"][d]["total"]
    OBVIOUS
  <2>2. s = StatsOf(DayRows(d))
    BY <1>1, <2>1, TotalsOfDay
  <2>3. QED
    BY <2>1, <2>2, StatsOfDay
<1>5. /\ SumOf([d \in days |-> daily["totals"][d]["total"]["plays"]], days) = Cardinality(OfKind(ids, "started"))
      /\ SumOf([d \in days |-> daily["totals"][d]["total"]["completions"]], days) = Cardinality(OfKind(ids, "finished"))
      /\ SumOf([d \in days |-> daily["totals"][d]["total"]["skips"]], days) = Cardinality(OfKind(ids, "skipped"))
  <2>1. PICK f : f = [d \in days |-> daily["totals"][d]["total"]["plays"]]
    OBVIOUS
  <2>2. PICK g : g = [d \in days |-> daily["totals"][d]["total"]["completions"]]
    OBVIOUS
  <2>3. PICK h : h = [d \in days |-> daily["totals"][d]["total"]["skips"]]
    OBVIOUS
  <2>4. \A d \in days : /\ f[d] = Cardinality(OfKind(IdsOn(d), "started"))
                        /\ g[d] = Cardinality(OfKind(IdsOn(d), "finished"))
                        /\ h[d] = Cardinality(OfKind(IdsOn(d), "skipped"))
    BY <1>4, <2>1, <2>2, <2>3
  <2>5. ASSUME NEW kind, NEW x, DailyKind(x, days, kind)
        PROVE  SumOf(x, days) = Cardinality(OfKind(ids, kind))
    <3>1. days = EventDays(from, to)
      BY <1>1 DEF EventDays
    <3>2. SumOf(x, EventDays(from, to)) = Cardinality(OfKind(IdsIn(from, to), kind))
      BY <2>5, <3>1, KindAddsUp
    <3>3. QED
      BY <1>3, <3>1, <3>2
  <2>6. SumOf(f, days) = Cardinality(OfKind(ids, "started"))
    BY <2>4, <2>5 DEF DailyKind
  <2>7. SumOf(g, days) = Cardinality(OfKind(ids, "finished"))
    BY <2>4, <2>5 DEF DailyKind
  <2>8. SumOf(h, days) = Cardinality(OfKind(ids, "skipped"))
    BY <2>4, <2>5 DEF DailyKind
  <2>9. QED
    BY <2>1, <2>2, <2>3, <2>6, <2>7, <2>8
<1>6. SumOf([d \in days |-> daily["totals"][d]["total"]["listened"]], days) = SumOf(Heard(ids), ids)
  <2>1. PICK f : f = [d \in days |-> daily["totals"][d]["total"]["listened"]]
    OBVIOUS
  <2>2. DailyTime(f, days)
    BY <1>4, <2>1 DEF DailyTime
  <2>3. SumOf(f, days) = SumOf(Heard(ids), ids)
    <3>1. days = EventDays(from, to)
      BY <1>1 DEF EventDays
    <3>2. SumOf(f, EventDays(from, to)) = SumOf(Heard(IdsIn(from, to)), IdsIn(from, to))
      BY <2>2, <3>1, TimeAddsUp
    <3>3. QED
      BY <1>3, <3>1, <3>2, Zenon
  <2>4. QED
    BY <2>1, <2>3
<1>7. {r.e.play.user : r \in {x \in eventRows : x.at \in from..to}} = {playLog[i].e.play.user : i \in ids}
  <2>1. \A r \in eventRows : r.id \in Ingested /\ r.e = playLog[r.id].e /\ r.at = playLog[r.id].at
    BY DEF Ingested, AggregateInv, RowsOfLog
  <2>2. \A i \in Ingested : \E r \in eventRows : r.id = i
    BY DEF Ingested
  <2>3. \A r \in {x \in eventRows : x.at \in from..to} : \E i \in ids : r.e.play.user = playLog[i].e.play.user
    BY <1>3, <2>1 DEF IdsIn
  <2>4. \A i \in ids : \E r \in {x \in eventRows : x.at \in from..to} : playLog[i].e.play.user = r.e.play.user
    BY <1>3, <2>1, <2>2 DEF IdsIn
  <2>5. QED
    BY <2>3, <2>4
<1>8. ReportTotals(from, to) =
        [plays |-> Cardinality(OfKind(ids, "started")), completions |-> Cardinality(OfKind(ids, "finished")),
         skips |-> Cardinality(OfKind(ids, "skipped")),
         listeners |-> Cardinality({playLog[i].e.play.user : i \in ids}),
         listened |-> SumOf(Heard(ids), ids)]
  BY <1>2, <1>5, <1>6, <1>7, Zenon DEF ReportTotals
<1>9. Expected(from, to) =
        [plays |-> Cardinality(OfKind(ids, "started")), completions |-> Cardinality(OfKind(ids, "finished")),
         skips |-> Cardinality(OfKind(ids, "skipped")),
         listeners |-> Cardinality({playLog[i].e.play.user : i \in ids}),
         listened |-> SumOf(Heard(ids), ids)]
  BY <1>3, Zenon DEF Expected, OfKind, Heard, IdsIn
<1>10. QED
  BY <1>8, <1>9

\* The top list of days whose tracks are fresh names the tracks played.
LEMMA TopIsExact ==
  ASSUME ListeningInv, AggregateInv, NEW from \in Nat, NEW to \in Nat, from..to \subseteq Days,
         \A d \in from..to : Fresh("track", d)
  PROVE  Range(TopKeys("track", from, to)) = {playLog[i].e.play.track : i \in IdsIn(from, to)}
<1>1. PICK keys : keys = UNION {DOMAIN daily["track"][d] : d \in from..to}
  OBVIOUS
<1>2. ASSUME NEW d \in from..to
      PROVE  /\ DOMAIN daily["track"][d] = {playLog[i].e.play.track : i \in IdsOn(d)}
             /\ \A k \in DOMAIN daily["track"][d] : daily["track"][d][k].plays \in Nat
  <2>1. DOMAIN daily["track"][d] \subseteq {playLog[i].e.play.track : i \in IdsOn(d)}
    BY DEF AggregateInv, KeysKnown
  <2>2. KeysOf("track", DayRows(d)) = {playLog[i].e.play.track : i \in IdsOn(d)}
    BY KeysOfDay DEF AggregateInv
  <2>3. \A k \in KeysOf("track", DayRows(d)) :
          k \in DOMAIN daily["track"][d] /\ daily["track"][d][k] = StatsOf(RowsOf("track", k, DayRows(d)))
    BY DEF Fresh
  <2>4. ASSUME NEW k \in DOMAIN daily["track"][d] PROVE daily["track"][d][k].plays \in Nat
    <3>1. PICK rows : rows = RowsOf("track", k, DayRows(d))
      OBVIOUS
    <3>2. IsFiniteSet(rows)
      BY <3>1, RowsOfDay, FS_Subset DEF RowsOf, AggregateInv
    <3>3. daily["track"][d][k] = StatsOf(rows)
      BY <2>1, <2>2, <2>3, <3>1
    <3>4. StatsOf(rows).plays = Cardinality({r \in rows : r.e.kind = "started"})
      BY DEF StatsOf
    <3>5. IsFiniteSet({r \in rows : r.e.kind = "started"})
      BY <3>2, FS_Subset
    <3>6. QED
      BY <3>3, <3>4, <3>5, FS_CardinalityType
  <2>5. QED
    BY <2>1, <2>2, <2>3, <2>4
<1>3. keys = {playLog[i].e.play.track : i \in IdsIn(from, to)}
  <2>1. \A k \in keys : \E i \in IdsIn(from, to) : k = playLog[i].e.play.track
    BY <1>1, <1>2 DEF IdsIn, IdsOn
  <2>2. ASSUME NEW i \in IdsIn(from, to) PROVE playLog[i].e.play.track \in keys
    <3>1. PICK d \in from..to : d = playLog[i].at
      BY DEF IdsIn
    <3>2. i \in IdsOn(d)
      BY <3>1 DEF IdsIn, IdsOn
    <3>3. QED
      BY <1>1, <1>2, <3>1, <3>2
  <2>3. QED
    BY <2>1, <2>2
<1>4. IsFiniteSet(keys) /\ keys \subseteq Nat
  <2>1. PICK ids : ids = IdsIn(from, to)
    OBVIOUS
  <2>2. IsFiniteSet(ids) /\ ids \subseteq Ingested
    BY <2>1, EventsKnown, FS_Subset DEF IdsIn
  <2>3. PICK h : h = [i \in ids |-> playLog[i].e.play.track]
    OBVIOUS
  <2>4. h \in [ids -> keys] /\ \A k \in keys : \E i \in ids : h[i] = k
    BY <1>3, <2>1, <2>3
  <2>5. h \in Surjection(ids, keys)
    BY <2>4, Zenon DEF Surjection
  <2>6. keys \subseteq TrackIds
    BY <1>3, <2>1, <2>2, EventsKnown
  <2>7. QED
    BY <2>2, <2>5, <2>6, FS_Surjection, ListeningAssumption DEF TrackIds
<1>5. PICK plays : plays = [k \in keys |-> SumOf([d \in DaysWith("track", k, from, to) |-> daily["track"][d][k].plays],
                                                 DaysWith("track", k, from, to))]
  OBVIOUS
<1>6. ASSUME NEW k \in keys PROVE plays[k] \in Nat
  <2>1. PICK D : D = DaysWith("track", k, from, to)
    OBVIOUS
  <2>2. PICK f : f = [d \in D |-> daily["track"][d][k].plays]
    OBVIOUS
  <2>3. from \in Int /\ to \in Int
    OBVIOUS
  <2>4. IsFiniteSet(D)
    BY <2>1, <2>3, FS_Interval, FS_Subset DEF DaysWith
  <2>5. \A d \in D : f[d] \in Nat
    BY <1>2, <2>1, <2>2 DEF DaysWith
  <2>6. SumOf(f, D) = Cardinality(Units(f, D)) /\ IsFiniteSet(Units(f, D))
    BY <2>4, <2>5, SumCounts, UnitsFinite
  <2>7. SumOf(f, D) \in Nat
    BY <2>6, FS_CardinalityType
  <2>8. QED
    BY <1>5, <2>1, <2>2, <2>7
<1>7. PICK R : R = {p \in keys \X keys : plays[p[1]] > plays[p[2]] \/ (plays[p[1]] = plays[p[2]] /\ p[1] < p[2])}
  OBVIOUS
<1>8. TotalOrder(R, keys)
  <2>1. \A a, b \in keys : <<a, b>> \in R <=> plays[a] > plays[b] \/ (plays[a] = plays[b] /\ a < b)
    BY <1>7
  <2>2. \A a \in keys : a \in Nat /\ plays[a] \in Nat
    BY <1>4, <1>6
  <2>3. \A a \in keys : <<a, a>> \notin R
    BY <2>1, <2>2
  <2>4. \A a, b \in keys : a # b => <<a, b>> \in R \/ <<b, a>> \in R
    BY <2>1, <2>2
  <2>5. \A a, b, c \in keys : <<a, b>> \in R /\ <<b, c>> \in R => <<a, c>> \in R
    BY <2>1, <2>2
  <2>6. QED
    BY <2>3, <2>4, <2>5 DEF TotalOrder
<1>9. TopKeys("track", from, to) = OrderedBy(keys, R)
  BY <1>1, <1>5, <1>7 DEF TopKeys
<1>10. PICK list : list = OrderedBy(keys, R)
  OBVIOUS
<1>11. list \in [1..Cardinality(keys) -> keys] /\ \A x \in keys : \E i \in 1..Cardinality(keys) : list[i] = x
  BY <1>4, <1>8, <1>10, SortedRows
<1>12. Range(list) = keys
  BY <1>11 DEF Range
<1>13. QED
  BY <1>3, <1>9, <1>10, <1>12

\* The reports are exact once a job has ended.
LEMMA ReportsAreExact == ListeningInv /\ AggregateInv => ReportExact
<1> SUFFICES ASSUME ListeningInv, AggregateInv, settled
             PROVE  /\ ReportTotals(RecentFrom(today), today) = Expected(RecentFrom(today), today)
                    /\ Range(TopKeys("track", RecentFrom(today), today)) =
                         {playLog[i].e.play.track : i \in {j \in Ingested : playLog[j].at \in RecentFrom(today)..today}}
  BY DEF ReportExact
<1>1. today \in Days
  BY DEF AggregateInv, AggJobTyped
<1>2. PICK from \in Days : from = RecentFrom(today)
  BY <1>1, RecentDays
<1>3. from \in Nat /\ today \in Nat /\ from..today \subseteq Days
  BY <1>1, <1>2, RecentDays DEF Days
<1>4. \A d \in from..today : Fresh("track", d) /\ Fresh("totals", d)
  <2>1. \A d \in from..today, n \in TableIds : Fresh(Tables[n], d)
    BY <1>2 DEF AggregateInv, SettledIsFresh
  <2>2. 1 \in TableIds /\ 3 \in TableIds
    BY DEF TableIds
  <2>3. QED
    BY <2>1, <2>2, TableNamed
<1>5. ReportTotals(from, today) = Expected(from, today)
  BY <1>3, <1>4, TotalsAreExact
<1>6. Range(TopKeys("track", from, today)) = {playLog[i].e.play.track : i \in IdsIn(from, today)}
  BY <1>3, <1>4, TopIsExact
<1>7. QED
  BY <1>2, <1>5, <1>6 DEF IdsIn

-----------------------------------------------------------------------------
(* The history's pages *)

\* A user's listens are rows that (played_at, playback) tells apart.
LEMMA RowsOfUser ==
  ASSUME ListeningInv, NEW u
  PROVE  /\ IsFiniteSet(ListenRows(u)) /\ <<>> \notin ListenRows(u)
         /\ \A x \in ListenRows(u) : x.at \in Nat /\ x.id \in Nat
         /\ \A x, y \in ListenRows(u) : x.id = y.id => x = y
         /\ Cardinality(Plays) \in Nat /\ Cardinality(ListenRows(u)) <= Cardinality(Plays)
<1> USE ListeningAssumption
<1>1. PICK S : S = {q \in Plays : q.user = u /\ listens[q] # 0}
  OBVIOUS
<1>2. PICK h : h = [p \in S |-> [at |-> playLog[listens[p]].at, id |-> p.id, track |-> p.track, source |-> p.source]]
  OBVIOUS
<1>3. ASSUME NEW p \in S
      PROVE  h[p] \in ListenRows(u) /\ h[p].at \in Nat /\ h[p].id = p.id /\ p.id \in Nat /\ h[p] # <<>>
  <2>1. p \in Plays /\ listens[p] # 0
    BY <1>1
  <2>2. listens[p] \in 1..Len(playLog)
    BY <2>1 DEF ListeningInv, HistoryKnows, Counted
  <2>3. playLog[listens[p]] \in LogEntry
    BY <2>2 DEF ListeningInv, ListeningTypes
  <2>4. playLog[listens[p]].at \in Nat
    BY <2>3 DEF LogEntry, Days
  <2>5. h[p] = [at |-> playLog[listens[p]].at, id |-> p.id, track |-> p.track, source |-> p.source]
    BY <1>2
  <2>6. h[p] \in ListenRows(u)
    BY <1>1, <2>5 DEF ListenRows
  <2>7. h[p] # <<>>
    <3>1. "at" \in DOMAIN h[p]
      BY <2>5
    <3>2. DOMAIN <<>> = {}
      OBVIOUS
    <3>3. QED
      BY <3>1, <3>2
  <2>8. QED
    BY <2>1, <2>4, <2>5, <2>6, <2>7
<1>4. ASSUME NEW x \in ListenRows(u) PROVE \E p \in S : h[p] = x
  BY <1>1, <1>2 DEF ListenRows
<1>5. S \in SUBSET Plays /\ IsFiniteSet(S) /\ Cardinality(S) <= Cardinality(Plays) /\ Cardinality(Plays) \in Nat
  BY <1>1, FS_Subset, FS_CardinalityType
<1>6. \A p, q \in S : h[p] = h[q] => p = q
  BY <1>3, <1>5
<1>7. h \in [S -> ListenRows(u)]
  BY <1>2, <1>3
<1>8. IsFiniteSet(ListenRows(u)) /\ Cardinality(ListenRows(u)) = Cardinality(S)
  BY <1>4, <1>5, <1>6, <1>7, SameSize
<1>9. \A x \in ListenRows(u) : x # <<>> /\ x.at \in Nat /\ x.id \in Nat
  BY <1>3, <1>4
<1>10. \A x, y \in ListenRows(u) : x.id = y.id => x = y
  BY <1>3, <1>4, <1>5
<1>11. QED
  BY <1>5, <1>8, <1>9, <1>10

\* They are ordered.
LEMMA NewerOrders ==
  ASSUME NEW rows, \A x \in rows : x.at \in Nat /\ x.id \in Nat, \A x, y \in rows : x.id = y.id => x = y
  PROVE  TotalOrder({p \in rows \X rows : NewerListen(p[1], p[2])}, rows)
<1> DEFINE R == {p \in rows \X rows : NewerListen(p[1], p[2])}
<1>1. ASSUME NEW a \in rows, NEW b \in rows PROVE <<a, b>> \in R <=> NewerListen(a, b)
  OBVIOUS
<1> HIDE DEF R
<1>2. \A a \in rows : <<a, a>> \notin R
  BY <1>1 DEF NewerListen
<1>3. ASSUME NEW a \in rows, NEW b \in rows, a # b PROVE <<a, b>> \in R \/ <<b, a>> \in R
  <2>1. a.id # b.id
    BY <1>3
  <2>2. QED
    BY <1>1, <2>1 DEF NewerListen
<1>4. ASSUME NEW a \in rows, NEW b \in rows, NEW c \in rows, <<a, b>> \in R, <<b, c>> \in R PROVE <<a, c>> \in R
  BY <1>1, <1>4 DEF NewerListen
<1>5. QED
  BY <1>2, <1>3, <1>4 DEF TotalOrder, R

\* One page of the history.
LEMMA PageOfUser ==
  ASSUME ListeningInv, NEW u, NEW S, S = ListenRows(u), NEW R, R = {p \in S \X S : NewerListen(p[1], p[2])},
         NEW after \in S \cup {<<>>}
  PROVE  IsPage(TracksPage(u, after), Rest(S, R, after), R)
<1>1. PICK rest : rest = TracksAfter(u, after)
  OBVIOUS
<1>2. PICK Q : Q = {p \in rest \X rest : NewerListen(p[1], p[2])}
  OBVIOUS
<1>3. rest = Rest(S, R, after)
  BY <1>1 DEF Rest, TracksAfter
<1>4. /\ IsFiniteSet(S) /\ <<>> \notin S
      /\ \A x \in S : x.at \in Nat /\ x.id \in Nat
      /\ \A x, y \in S : x.id = y.id => x = y
  BY RowsOfUser
<1>5. rest \subseteq S /\ IsFiniteSet(rest) /\ <<>> \notin rest
  BY <1>1, <1>4, FS_Subset DEF TracksAfter
<1>6. TotalOrder(Q, rest)
  <2>1. (\A x \in rest : x.at \in Nat /\ x.id \in Nat) /\ (\A x, y \in rest : x.id = y.id => x = y)
    BY <1>4, <1>5
  <2>2. QED
    BY <1>2, <2>1, NewerOrders
<1>7. TracksPage(u, after) = NextPage(FirstRows(rest, Q, 1 + 1), 1)
  BY <1>1, <1>2 DEF TracksPage
<1>8. IsPage(TracksPage(u, after), rest, Q)
  BY <1>5, <1>6, <1>7, PageOfRows
<1>9. Q \subseteq R
  BY <1>2, <1>5
<1>10. QED
  BY <1>3, <1>8, <1>9 DEF IsPage

\* The sources of the listens are listed once each, in whatever order those
\* that were last heard at the same time come.
LEMMA SourcesListed ==
  ASSUME ListeningInv, NEW u, NEW list \in RecentSources(u)
  PROVE  {one.source : one \in Range(list)} = {x.source : x \in ListenRows(u)} \ {""}
<1>1. PICK srcs : srcs = {x.source : x \in ListenRows(u)} \ {""}
  OBVIOUS
<1>2. PICK rows : rows = SourceRows(u)
  OBVIOUS
<1>3. PICK n : n = Cardinality(rows)
  OBVIOUS
<1>4. list \in [1..n -> rows] /\ \A i, j \in 1..n : i < j => list[i] # list[j]
  BY <1>2, <1>3 DEF RecentSources
<1>5. PICK last : last = [s \in srcs |-> [source |-> s, last |-> Max({x.at : x \in {y \in ListenRows(u) : y.source = s}})]]
  OBVIOUS
<1>6. rows = {last[s] : s \in srcs}
  BY <1>1, <1>2, <1>5 DEF SourceRows
<1>7. \A s \in srcs : last[s].source = s
  BY <1>5
<1>8. IsFiniteSet(rows) /\ n \in Nat
  <2>1. PICK S : S = {x \in ListenRows(u) : x.source # ""}
    OBVIOUS
  <2>2. PICK h : h = [x \in S |-> last[x.source]]
    OBVIOUS
  <2>3. \A x \in S : x.source \in srcs
    BY <1>1, <2>1
  <2>4. h \in [S -> rows]
    BY <1>6, <2>2, <2>3
  <2>5. ASSUME NEW r \in rows PROVE \E x \in S : h[x] = r
    <3>1. PICK s \in srcs : r = last[s]
      BY <1>6
    <3>2. PICK x \in S : x.source = s
      BY <1>1, <2>1
    <3>3. QED
      BY <2>2, <3>1, <3>2
  <2>6. h \in Surjection(S, rows)
    BY <2>4, <2>5, Zenon DEF Surjection
  <2>7. IsFiniteSet(S)
    BY <2>1, RowsOfUser, FS_Subset
  <2>8. QED
    BY <1>3, <2>6, <2>7, FS_Surjection, FS_CardinalityType
<1>9. Range(list) = rows
  <2>1. \A i, j \in 1..n : list[i] = list[j] => i = j
    BY <1>4, <1>8
  <2>2. list \in Injection(1..n, rows)
    BY <1>4, <2>1, Zenon DEF Injection, IsInjective
  <2>3. 1 \in Int /\ n \in Int
    BY <1>8
  <2>4. IsFiniteSet(1..n) /\ Cardinality(1..n) = IF 1 > n THEN 0 ELSE n - 1 + 1
    BY <2>3, FS_Interval
  <2>5. Cardinality(1..n) = n
    BY <1>8, <2>4
  <2>6. list \in Surjection(1..n, rows)
    BY <1>3, <1>8, <2>2, <2>5, FS_Injection
  <2>7. \A r \in rows : \E i \in 1..n : list[i] = r
    BY <2>6, Zenon DEF Surjection
  <2>8. QED
    BY <1>4, <2>7 DEF Range
<1>10. {one.source : one \in rows} = srcs
  <2>1. \A one \in rows : one.source \in srcs
    BY <1>6, <1>7
  <2>2. \A s \in srcs : last[s] \in rows
    BY <1>6
  <2>3. \A s \in srcs : \E one \in rows : one.source = s
    BY <1>7, <2>2
  <2>4. QED
    BY <2>1, <2>3
<1>11. QED
  BY <1>1, <1>9, <1>10

\* The history of every user is enumerated.
LEMMA HistoryIsEnumerated == ListeningInv => HistoryPagesEnumerate
<1> SUFFICES ASSUME ListeningInv, NEW u,
                    NEW rows, rows = Walk(ListenPages(u), Cardinality(Plays))
             PROVE  /\ Range(rows) = ListenRows(u) /\ Len(rows) = Cardinality(ListenRows(u))
                    /\ \A list \in RecentSources(u) :
                         {one.source : one \in Range(list)} = {x.source : x \in ListenRows(u)} \ {""}
  BY DEF HistoryPagesEnumerate
<1>1. PICK S : S = ListenRows(u)
  OBVIOUS
<1>2. PICK R : R = {p \in S \X S : NewerListen(p[1], p[2])}
  OBVIOUS
<1>3. PICK page : page = ListenPages(u)
  OBVIOUS
<1>4. PICK n : n = Cardinality(Plays)
  OBVIOUS
<1>5. /\ IsFiniteSet(S) /\ <<>> \notin S /\ n \in Nat /\ Cardinality(S) <= n
      /\ \A x \in S : x.at \in Nat /\ x.id \in Nat
      /\ \A x, y \in S : x.id = y.id => x = y
  BY <1>1, <1>4, RowsOfUser
<1>6. TotalOrder(R, S)
  BY <1>2, <1>5, NewerOrders
<1>7. ASSUME NEW a \in S \cup {<<>>} PROVE IsPage(page[a], Rest(S, R, a), R)
  <2>1. page[a] = TracksPage(u, a)
    BY <1>1, <1>3 DEF ListenPages
  <2>2. QED
    BY <1>1, <1>2, <2>1, PageOfUser
<1>8. rows = Walk(page, n)
  BY <1>3, <1>4
<1>9. Range(rows) = S /\ Len(rows) = Cardinality(S)
  BY <1>5, <1>6, <1>7, <1>8, WalkEnumerates
<1>10. QED
  BY <1>1, <1>9, SourcesListed

-----------------------------------------------------------------------------
\* Listening History and Analytics, for any reports, redelivered and cut into
\* batches in any way: of every play the history has the first end that counts,
\* once, of those that were not dead-lettered; its pages give each listen once;
\* a row of Analytics lacks its artists only if the track was played before the
\* Catalog had it; and once a job has ended without an error the reports count
\* every event inserted once.
THEOREM ListensAreExact == ListeningSpec => []ListensExact
<1>1. ListeningInv => FirstCountedListen
  <2> SUFFICES ASSUME ListeningInv, NEW p \in Plays
               PROVE  LET ends == {i \in 1..Len(playLog) : /\ playLog[i].e.play = p /\ playLog[i].e.kind # "started"
                                                            /\ CountsAsListen(playLog[i].e)}
                      IN IF listens[p] = 0 THEN \A i \in ends : i >= hist.next \/ i \in histDead
                         ELSE listens[p] \in ends /\ \A i \in ends : i >= listens[p] \/ i \in histDead
    BY DEF FirstCountedListen
  <2> DEFINE ends == {i \in 1..Len(playLog) : /\ playLog[i].e.play = p /\ playLog[i].e.kind # "started"
                                               /\ CountsAsListen(playLog[i].e)}
  <2>1. Len(playLog) \in Nat
    BY DEF ListeningInv, ListeningTypes
  <2>2. ends \subseteq Nat /\ \A i : i \in ends <=> Counted(p, i)
    BY <2>1 DEF Counted
  <2> HIDE DEF ends
  <2>3. listens[p] = 0 => \A i \in ends : i >= hist.next \/ i \in histDead
    BY <2>2 DEF ListeningInv, HistoryKnows
  <2>4. ASSUME listens[p] # 0
        PROVE  listens[p] \in ends /\ \A i \in ends : i >= listens[p] \/ i \in histDead
    <3>1. Counted(p, listens[p]) /\ \A i \in Nat : Counted(p, i) => listens[p] <= i \/ i \in histDead
      BY <2>4 DEF ListeningInv, HistoryKnows
    <3>2. listens[p] \in Nat
      BY DEF ListeningInv, ListeningTypes
    <3>3. QED
      BY <2>2, <3>1, <3>2
  <2>5. QED
    BY <2>3, <2>4 DEF ends
<1>2. ListeningInv => ArtistsKept
  BY DEF ListeningInv, RowsKnow, PlayedUnknown, ArtistsKept
<1>3. ListeningInv /\ AggregateInv => ListensExact
  BY <1>1, <1>2, HistoryIsEnumerated, ReportsAreExact DEF ListensExact
<1>4. ListeningInit => ListeningInv /\ AggregateInv
  BY ListeningInvInit, AggregateInvInit
<1>5. (ListeningInv /\ AggregateInv) /\ [HistoryNext \/ IngestNext \/ AggregateNext]_listeningVars
        => (ListeningInv /\ AggregateInv)'
  BY ListeningInvNext, AggregateInvNext
<1>6. QED
  BY <1>3, <1>4, <1>5, PTL DEF ListeningSpec

-----------------------------------------------------------------------------
(* The run of MCServices, and types                                         *)

\* What MCServices checks of one service at a time are behaviours of the
\* specifications that the theorems are about.
THEOREM RunsAreBehaviours ==
  MCSpec => SocialSpec /\ CatalogReadsSpec /\ ProfileSpec /\ ListeningSpec /\ RecommendationsSpec
<1> DEFINE OneStep == [Graph \/ Catalogue \/ Profiles \/ Listened \/ Recommended]_mcVars
<1>1. MCInit => SocialInit /\ CatalogReadsInit /\ ProfileInit /\ ListeningInit /\ RecommendationsInit
  BY Zenon DEF MCInit
<1>2. OneStep => [SocialNext]_socialVars
  BY Zenon DEF Graph, Catalogue, Profiles, Listened, Recommended, SocialNext, mcVars
<1>3. OneStep => [CatalogReadsNext]_catalogReadVars
  BY Zenon DEF Graph, Catalogue, Profiles, Listened, Recommended, mcVars
<1>4. OneStep => [ProfileNext]_profileVars
  BY Zenon DEF Graph, Catalogue, Profiles, Listened, Recommended, mcVars
<1>5. OneStep => [HistoryNext \/ IngestNext \/ AggregateNext]_listeningVars
  BY Zenon DEF Graph, Catalogue, Profiles, Listened, Recommended, mcVars
<1>6. OneStep => [RecommendationsNext]_recVars
  BY Zenon DEF Graph, Catalogue, Profiles, Listened, Recommended, mcVars
<1>7. QED
  BY <1>1, <1>2, <1>3, <1>4, <1>5, <1>6, PTL
  DEF MCSpec, SocialSpec, CatalogReadsSpec, ProfileSpec, ListeningSpec, RecommendationsSpec

\* Nobody but a listener follows.
OnlyListenersFollow == \A s \in Subjects \ Listeners : counters[s].users = 0 /\ counters[s].artists = 0

LEMMA FollowingCountStays ==
  SocialInv /\ OnlyListenersFollow /\ [SocialNext]_socialVars => OnlyListenersFollow'
<1> SUFFICES ASSUME SocialInv, OnlyListenersFollow, [SocialNext]_socialVars PROVE OnlyListenersFollow'
  OBVIOUS
<1>1. CASE counters' = counters
  BY <1>1 DEF OnlyListenersFollow
<1>2. ASSUME NEW r \in SocialReqs, CommitChange(r) PROVE OnlyListenersFollow'
  <2>1. PICK e : e = socialReq[r].edge
    OBVIOUS
  <2>2. e \in Edges
    BY <1>2, <2>1 DEF SocialInv, ReqKnows, CommitChange, CommitReady
  <2>3. PICK n \in Int : counters' = Bump(counters, e, n)
    BY <1>2, <2>1 DEF CommitChange, BumpFollow, BumpUnfollow
  <2>4. counters \in [Subjects -> CountRecord] /\ e[1] \in Listeners
    BY <2>2 DEF SocialInv, SocialTypes, Edges
  <2>5. \A s \in Subjects :
          /\ counters'[s].users = counters[s].users + (IF s = e[1] /\ IsUser(e[2]) THEN n ELSE 0)
          /\ counters'[s].artists = counters[s].artists + (IF s = e[1] /\ ~IsUser(e[2]) THEN n ELSE 0)
    BY <2>2, <2>3, <2>4, BumpAdds
  <2>6. QED
    BY <2>4, <2>5 DEF OnlyListenersFollow
<1>3. (\A r \in SocialReqs : ~CommitChange(r)) => counters' = counters
  BY Zenon
  DEF SocialNext, SocialRequest, SocialRead, socialVars, Follow, Unfollow, Exists, InsertEdge, ReadExisting, DeleteEdge,
      Respond, CounterRow, SocialTxFails, DeadlockVictim, GraphUnchanged, OpenList, FetchPage, CloseList
<1>4. QED
  BY <1>1, <1>2, <1>3

\* A counter is the size of a set of edges.
LEMMA SocialTypesHold == SocialInv /\ OnlyListenersFollow => SocialTypeOK
<1> SUFFICES ASSUME SocialInv, OnlyListenersFollow PROVE SocialTypeOK
  OBVIOUS
<1>1. SocialTypes
  BY DEF SocialInv
<1>2. follows \in [Edges -> 0..LastInstant]
  BY <1>1 DEF SocialTypes, Instants
<1>3. ASSUME NEW s \in Subjects PROVE counters[s] \in [followers : Nat, users : Nat, artists : Nat]
  <2>1. counters[s] \in CountRecord
    BY <1>1 DEF SocialTypes
  <2>2. counters[s].followers \in Nat
    <3>1. IsFiniteSet({u \in Listeners : follows[<<u, s>>] # 0})
      BY <1>1, ListsFinite
    <3>2. Counts(s).followers = Cardinality({u \in Listeners : follows[<<u, s>>] # 0})
      BY DEF SocialInv, CountersMatchEdges
    <3>3. QED
      BY <3>1, <3>2, FS_CardinalityType DEF Counts
  <2>3. counters[s].users \in Nat /\ counters[s].artists \in Nat
    <3>1. CASE s \in Listeners
      <4>1. IsFiniteSet(FollowingRows(s, TRUE)) /\ IsFiniteSet(FollowingRows(s, FALSE))
        BY <1>1, <3>1, ListsFinite
      <4>2. /\ Counts(s).users = Cardinality(FollowingRows(s, TRUE))
            /\ Counts(s).artists = Cardinality(FollowingRows(s, FALSE))
        BY <3>1 DEF SocialInv, CountersMatchEdges, IsUser
      <4>3. QED
        BY <4>1, <4>2, FS_CardinalityType DEF Counts
    <3>2. CASE s \notin Listeners
      BY <3>2 DEF OnlyListenersFollow
    <3>3. QED
      BY <3>1, <3>2
  <2>4. QED
    BY <2>1, <2>2, <2>3 DEF CountRecord
<1>4. \A i \in 1..Len(socialEvents) : socialEvents[i] \in [type : {"followed", "unfollowed"}, edge : Edges]
  <2>1. socialEvents \in Seq(EventRecord)
    BY <1>1 DEF SocialTypes
  <2>2. \A i \in 1..Len(socialEvents) : socialEvents[i] \in EventRecord
    BY <2>1
  <2>3. QED
    BY <2>2 DEF EventRecord
<1>5. ASSUME NEW r \in SocialReqs
      PROVE  /\ socialReq[r].pc \in {"idle", "directory", "statement", "existing", "rows", "answer"}
             /\ socialReq[r].status \in {0, 204, 404, 422, 503}
             /\ socialReq[r].held \subseteq Edges \cup {<<s>> : s \in Subjects}
  <2>1. socialReq[r].pc \in ReqPcs /\ socialReq[r].status \in ReqStatuses /\ socialReq[r].held \in Held
    BY <1>1 DEF SocialTypes, ReqRecord
  <2>2. QED
    BY <2>1 DEF ReqPcs, ReqStatuses, Held
<1>6. QED
  BY <1>2, <1>3, <1>4, <1>5 DEF SocialTypeOK

\* What a profile event carries is a profile, which has a username.
LEMMA ProfileTypesHold == ProfileInv => ProfileTypeOK
<1> SUFFICES ASSUME ProfileInv PROVE ProfileTypeOK
  OBVIOUS
<1>1. ProfileTypes
  BY DEF ProfileInv
<1>2. ASSUME NEW u \in Accounts PROVE profile[u].name \in Usernames \cup {0}
  BY <1>1 DEF ProfileTypes, ProfileRecord
<1>3. ASSUME NEW i \in 1..Len(profileEvents) PROVE profileEvents[i].user \in Accounts /\ profileEvents[i].p.name # 0
  <2>1. profileEvents[i].user \in Accounts
    <3>1. PICK R : R = [user : Accounts, p : CarriedRecord]
      OBVIOUS
    <3>2. profileEvents \in Seq(R)
      BY <1>1, <3>1 DEF ProfileTypes
    <3>3. profileEvents[i] \in R
      BY <3>2
    <3>4. QED
      BY <3>1, <3>3
  <2>2. profileEvents[i].p.name # 0
    BY DEF ProfileInv
  <2>3. QED
    BY <2>1, <2>2
<1>4. ASSUME NEW c \in ProfileCalls
      PROVE  /\ call[c].pc \in {"idle", "insert", "inserting", "update", "record", "answer"}
             /\ call[c].attempt \in 0..MaxUsernameAttempts
             /\ call[c].status \in {0, 200, 404, 409, 422, 500}
  <2>1. call[c].pc \in CallPcs /\ call[c].attempt \in Attempts /\ call[c].status \in CallStatuses
    BY <1>1 DEF ProfileTypes, CallRecord
  <2>2. QED
    BY <2>1 DEF CallPcs, Attempts, CallStatuses
<1>5. QED
  BY <1>1, <1>2, <1>3, <1>4 DEF ProfileTypes, ProfileTypeOK

LEMMA CacheTypesHold == CacheInv => CatalogReadsTypeOK
<1> SUFFICES ASSUME CacheTypes PROVE CatalogReadsTypeOK
  BY DEF CacheInv
<1>1. write.pc \in {"idle", "written"} /\ \A r \in CacheReaders : read[r] \in ReadRecord
  BY DEF CacheTypes
<1>2. QED
  BY <1>1 DEF CacheTypes, CatalogReadsTypeOK, ReadRecord

\* The variables of the graph, the catalogue's cache and the profiles keep
\* their types, in every behaviour of MCServices: a counter never goes below
\* zero, and no event carries a profile that does not exist.
THEOREM ServicesTypesHold == MCSpec => []ServicesTypeOK
<1>1. SocialInit => OnlyListenersFollow
  BY DEF SocialInit, OnlyListenersFollow
<1>2. SocialSpec => []SocialTypeOK
  BY SocialInvInit, SocialInvNext, <1>1, FollowingCountStays, SocialTypesHold, PTL DEF SocialSpec
<1>3. CatalogReadsSpec => []CatalogReadsTypeOK
  BY CacheInvInit, CacheInvNext, CacheTypesHold, PTL DEF CatalogReadsSpec
<1>4. ProfileSpec => []ProfileTypeOK
  BY ProfileInvInit, ProfileInvNext, ProfileTypesHold, PTL DEF ProfileSpec
<1>5. QED
  BY RunsAreBehaviours, <1>2, <1>3, <1>4, PTL DEF ServicesTypeOK
=============================================================================
