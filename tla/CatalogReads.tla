---------------------------- MODULE CatalogReads ----------------------------
(***************************************************************************)
(* Catalog Service behind its Redis read-through cache: an artist, an      *)
(* album of the artist and a track of the album are created and the track  *)
(* updated in transactions that invalidate cache entries before they       *)
(* commit, while readers look in the cache, load from PostgreSQL and store *)
(* what they loaded, as separate calls.                                    *)
(*                                                                         *)
(* A row is the number of its version, 0 when it does not exist.           *)
(***************************************************************************)
EXTENDS Integers, FiniteSets

CONSTANTS CacheReaders,     \* requests that read
          CacheTTL,
          RequestTimeout,   \* bounds a reader's context
          MaxVersion        \* bound: versions of the track

ASSUME CacheAssumption ==
  /\ CacheTTL \in Nat
  /\ RequestTimeout \in Nat
  /\ MaxVersion \in Nat \ {0}

CatalogTables == {"artist", "album", "track"}
\* The caches: one per table, and the album's track list.
CacheKeys == CatalogTables \cup {"tracks"}
NotCached == [val |-> 0, ttl |-> 0]
NoRead == [pc |-> "idle", key |-> "artist", val |-> 0, age |-> 0, must |-> FALSE]
Older == CacheTTL + RequestTimeout   \* ages beyond this one are alike

VARIABLES row,        \* committed version of each row
          ageOf,      \* how long ago each version was committed
          cacheOf,    \* Redis: a version and the time it has left
          write,      \* the transaction that changes the catalogue
          read        \* what each reader is doing, and for how long

catalogReadVars == <<row, ageOf, cacheOf, write, read>>

CatalogReadsTypeOK ==
  /\ row \in [CatalogTables -> 0..MaxVersion]
  /\ cacheOf \in [CacheKeys -> [val : 0..MaxVersion, ttl : 0..CacheTTL]]
  /\ write.pc \in {"idle", "written"}
  /\ \A r \in CacheReaders : read[r].pc \in {"idle", "lookup", "load", "store", "served", "missing"}

CatalogReadsInit ==
  /\ row = [t \in CatalogTables |-> 0]
  /\ ageOf = [t \in CatalogTables |-> [v \in 1..MaxVersion |-> Older]]
  /\ cacheOf = [k \in CacheKeys |-> NotCached]
  /\ write = [pc |-> "idle", on |-> "artist", drop |-> {}]
  /\ read = [r \in CacheReaders |-> NoRead]

\* What PostgreSQL answers: the row, or the list of the album's live tracks,
\* which may be empty.
ArtistGet == row["artist"]
AlbumGet == row["album"]
TrackGet == row["track"]
ListByAlbum == row["track"]
Load(k) == CASE k = "artist" -> ArtistGet [] k = "album" -> AlbumGet
             [] k = "track" -> TrackGet [] k = "tracks" -> ListByAlbum
Found(k, v) == v # 0 \/ k = "tracks"

Later1(n) == IF n < Older THEN n + 1 ELSE n

\* Time passes: entries expire, requests grow old.
Tick ==
  /\ cacheOf' = [k \in CacheKeys |-> IF cacheOf[k].ttl > 1 THEN [cacheOf[k] EXCEPT !.ttl = @ - 1] ELSE NotCached]
  /\ ageOf' = [t \in CatalogTables |-> [v \in 1..MaxVersion |-> Later1(ageOf[t][v])]]
  /\ read' = [r \in CacheReaders |-> IF read[r].pc = "idle" THEN read[r] ELSE [read[r] EXCEPT !.age = Later1(@)]]
  /\ UNCHANGED <<row, write>>

-----------------------------------------------------------------------------
(* Writes.  A transaction writes one row, then drops the entries it makes   *)
(* stale, then records its event and commits.                               *)

Begin(t, drop) ==
  /\ write.pc = "idle"
  /\ write' = [pc |-> "written", on |-> t, drop |-> drop]
  /\ UNCHANGED <<row, ageOf, cacheOf, read>>

CreateArtist == row["artist"] = 0 /\ Begin("artist", {})
\* The foreign key refuses an album of an unknown artist.
CreateAlbum == row["album"] = 0 /\ row["artist"] # 0 /\ Begin("album", {})
\* Albums.Get goes through the cache; an album, once found, is not changed.
CreateTrack == /\ row["track"] = 0
               /\ row["album"] # 0
               /\ Begin("track", {"tracks"})
\* modifyTrack: GetForUpdate reads and locks the row itself, never the cache.
ModifyTrack == row["track"] \in 1..(MaxVersion - 1) /\ Begin("track", {"track", "tracks"})

\* invalidate: one DEL per key; a failure is logged and the entry left to its TTL.
Invalidate(k) ==
  /\ write.pc = "written" /\ k \in write.drop
  /\ write' = [write EXCEPT !.drop = @ \ {k}]
  /\ cacheOf' \in {cacheOf, [cacheOf EXCEPT ![k] = NotCached]}
  /\ UNCHANGED <<row, ageOf, read>>

\* store: the event is recorded and the transaction commits.
StoreCommit ==
  /\ write.pc = "written" /\ write.drop = {}
  /\ row' = [row EXCEPT ![write.on] = @ + 1]
  /\ ageOf' = [ageOf EXCEPT ![write.on][row[write.on] + 1] = 0]
  /\ write' = [write EXCEPT !.pc = "idle"]
  /\ UNCHANGED <<cacheOf, read>>

\* The write, the event or the commit fails; what was dropped stays dropped.
StoreFails ==
  /\ write.pc = "written"
  /\ write' = [write EXCEPT !.pc = "idle", !.drop = {}]
  /\ UNCHANGED <<row, ageOf, cacheOf, read>>

-----------------------------------------------------------------------------
(* Reads: GetOrLoad.                                                        *)

ReadStep(r, from, rec) == read[r].pc = from /\ read' = [read EXCEPT ![r] = rec]
WritesUnchanged == UNCHANGED <<row, ageOf, write>>
InTime(r) == read[r].age <= RequestTimeout

\* GET by ID or GET .../tracks; must remembers what was committed by now.
StartRead(r, k) ==
  /\ ReadStep(r, "idle", [pc |-> "lookup", key |-> k, val |-> 0, age |-> 0, must |-> Load(k) # 0])
  /\ WritesUnchanged /\ UNCHANGED cacheOf

\* Cache.Get: an entry is served until it expires; an error is a miss.
Lookup(r) ==
  LET c == cacheOf[read[r].key] IN
  /\ InTime(r)
  /\ \/ c.ttl > 0 /\ ReadStep(r, "lookup", [read[r] EXCEPT !.pc = "served", !.val = c.val])
     \/ ReadStep(r, "lookup", [read[r] EXCEPT !.pc = "load"])
  /\ WritesUnchanged /\ UNCHANGED cacheOf

\* The loader: not found is an error, answered and not stored.
LoadRow(r) ==
  LET v == Load(read[r].key) IN
  /\ InTime(r)
  /\ ReadStep(r, "load", [read[r] EXCEPT !.pc = IF Found(read[r].key, v) THEN "store" ELSE "missing", !.val = v])
  /\ WritesUnchanged /\ UNCHANGED cacheOf

\* Cache.Set.
CacheSet(k, v) == [cacheOf EXCEPT ![k] = [val |-> v, ttl |-> CacheTTL]]

\* Mutant of StoreRead: the store outlives the request.
StoreReadLate(r) ==
  /\ ReadStep(r, "store", [read[r] EXCEPT !.pc = "served"])
  /\ cacheOf' \in {cacheOf, CacheSet(read[r].key, read[r].val)}
  /\ WritesUnchanged

\* What was loaded is stored; a failure of Set is not the reader's.
StoreRead(r) ==
  /\ InTime(r)
  /\ ReadStep(r, "store", [read[r] EXCEPT !.pc = "served"])
  /\ cacheOf' \in {cacheOf, CacheSet(read[r].key, read[r].val)}
  /\ WritesUnchanged

\* The answer is sent, or the request's time is over.
EndRead(r) ==
  /\ read[r].pc \in {"served", "missing"} \/ (read[r].pc # "idle" /\ ~InTime(r))
  /\ ReadStep(r, read[r].pc, NoRead)
  /\ WritesUnchanged /\ UNCHANGED cacheOf

CatalogReadsNext ==
  \/ Tick
  \/ CreateArtist \/ CreateAlbum \/ CreateTrack \/ ModifyTrack
  \/ (\E k \in CacheKeys : Invalidate(k)) \/ StoreCommit \/ StoreFails
  \/ \E r \in CacheReaders : \/ \E k \in CacheKeys : StartRead(r, k)
                             \/ Lookup(r) \/ LoadRow(r) \/ StoreRead(r) \/ EndRead(r)

CatalogReadsSpec == CatalogReadsInit /\ [][CatalogReadsNext]_catalogReadVars

-----------------------------------------------------------------------------
TableOf(k) == IF k = "tracks" THEN "track" ELSE k

\* "staleness is bounded by the TTL": a cached version that a transaction has
\* replaced is gone after the TTL and the longest time a reader may take
\* between loading the row and storing it.
StalenessBounded ==
  \A k \in CacheKeys :
    cacheOf[k].ttl > 0 /\ cacheOf[k].val < Load(k)
      => ageOf[TableOf(k)][cacheOf[k].val + 1] < CacheTTL + RequestTimeout

\* What was committed before a request began is never answered as not found:
\* an artist or album can be referred to as soon as it is created.
CreatedIsFound ==
  \A r \in CacheReaders : read[r].pc \in {"served", "missing"} /\ read[r].must /\ read[r].key # "tracks"
                            => read[r].val # 0

\* The cache in front of the rows (cache.go) neither serves a replaced row for
\* longer than is promised nor hides a new one.
CacheHonest == StalenessBounded /\ CreatedIsFound
=============================================================================
