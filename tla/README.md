# ICYRE in TLA+

ICYRE is a music streaming platform: a Go monorepo of services and workers around
PostgreSQL (one schema per service), Kafka, Redis, object storage, OpenSearch and
ClickHouse, with a TypeScript web application. This directory models the parts of it
whose correctness depends on interleavings, failures and message order, checks the
models with TLC on small instances and proves the most important results with TLAPS.

## 1. Inventory

| Part | State | Operations | Hard because |
|---|---|---|---|
| Outbox (`libs/platform/outbox`, `postgres/tx.go`) | outbox table, advisory lock, Kafka log | Write in the caller's transaction; RelayOnce: lock, select, publish, delete | id order is not commit order; crash between publish and delete; the lock's session may break |
| Consumer (`libs/platform/kafka/consumer.go`) | fetch position, committed offset, record in flight, retry count | poll, handle, retry, dead-letter, commit, stop | rebalances during processing, late commits, cancellation, a consumer that gives up |
| Batch consumer (`kafka/batch.go`) | collected batch, decoded items | collect, decode, dead-letter, flush, commit | a batch can span two assignments; partial failure |
| Auth (`services/auth`) | sessions table, Redis revocation entries, issued tokens | register, login, refresh, logout, revoke; Verify in every service | read-then-write requests on several replicas; tokens in flight |
| Login throttle (`auth/.../redis/throttle.go`) | a counter per account and window | Allow, Failed, Reset | check-then-act, fixed windows |
| Media Ingest (`services/media-ingest`) | upload sessions, master objects | Create, Get, Complete; the client's PUT | concurrent Complete, expiry racing the PUT |
| Transcoder (`workers/transcoder`) | stored variants with provenance | Handle `track.uploaded` | no database; retries, partial writes, zombies |
| Catalog (`services/catalog`) | artists, albums, tracks; Redis cache | create, update, list; media events | status machine driven by late and repeated events; cache invalidation |
| Playlist, Library, Social, User Profile | their tables | edits with events | row locks, counters, concurrent updates |
| Playback, History | listening history | report, store once | repeated events |
| Analytics | ClickHouse facts and aggregates | ingest batches, aggregate | re-cut batches, deduplication token |
| Search indexer, Search | OpenSearch indices and aliases | index events, rebuild, promote | rebuild racing live events |
| Recommendation worker and service | signals, features, published lists | apply signals, build, publish | out-of-order signals |
| Metadata, Audio analysis | extracted properties | handle `track.uploaded` | stale jobs |
| Stream Authorization (`services/stream-auth`) | short caches in Redis | authorize a stream | cached status against a block, variants that appear one by one |
| BFF (`services/bff`) | the genre cache | home, album and playlist page | fan-out under a budget, partial failure |
| Web application (`apps/web`) | access token, player store, one audio element | refresh, play | tabs sharing a cookie, promises resolving out of order |
| Key discovery (`libs/platform/authn/jwks.go`) | known keys, time of the last fetch | Key | rotation, an endpoint that fails, a rate limit |
| Programs (`cmd/*/main.go`, `httpserver`, `shutdown`) | open resources, loops, the server | start, serve, drain, join, close | a signal at any time, parts turned off, loops that end alone |

The parts interact in one way above all: a use case changes rows and writes an outbox
row in one transaction; a relay moves the row to Kafka; consumers of other services
apply it at least once. Everything downstream has to live with repeats and with the
orders the outbox and the consumer groups really give. The media pipeline (ingest →
transcoder → catalog, all over the topic `media.events`) is the longest chain of that
kind. Access tokens are checked by every service locally, with Redis as the only shared
state about revocation.

What makes each part correct is listed with its runs below; the hazards the
properties are aimed at are in `PROJECT.json`, each at its line.

## 2. Modules

| Module | Models | State and actions |
|---|---|---|
| `EventStream` | what the outbox promises consumers | `recorded`, `stream`; `Record`, `Deliver` |
| `Outbox` | outbox.go, relay.go, tx.go | service transactions (`LockRow`, `Write`, `Commit`, `Rollback`), relays (`TryLock`, `Pending`, `Produce`, `DeleteSent`, `SessionGone`, `Abort`, `LoseSession`) |
| `ConsumerGroup` | one partition of a group, the processes that run members | `Assign`, `Revoke`, `CommitOffset`, `Crash`, `Cancel`, `Restart`, `Leave` |
| `KafkaConsumer` | consumer.go | `Poll`, `HandleOk`/`HandleError`/`HandlePermanent`, `CancelledInBackoff`, `ToDLQ`, `ToDLQFails`, `CommitProcessed` |
| `BatchConsumer` | batch.go | `Collect`, `Lingered`, `Decode`, `ToDLQ`, `FlushOk`/`FlushError`, `CommitBatch` |
| `AuthSessions` | service.go, domain.go, repositories.go, authn | one step per database or Redis call of a request; `ParseToken`, `IsRevoked` of Verify |
| `LoginThrottle` | throttle.go and its use in Login | `Allow`, `VerifyPassword`, `Failed`, `Reset`, lost calls, `NextWindow` |
| `MediaEvents` | the topic, the objects, a consumer group as values | operators used by the next three |
| `MediaIngest` | media-ingest | `Create`, the PUT, `Complete` → `Verify` → `SettleUpload`/`LostSettle` → `Reread`/`RemoveRejected`, relay |
| `Transcoder` | transcoder worker | `CheckExisting`, `DropStale`, `Encode`, `PutVariant`, `Announce`, errors, deaths, assignments |
| `CatalogTrack` | track.go, usecases.go, media consumer | `CreateTrack`, `UpdateTrack`, `HandleSignal` (with `AdvanceMedia`), dead letters |
| `MediaPipeline` | composition of the three | each component's steps over the shared topic and objects |
| `Social` | social service, repository, handler | a request as edge, counter rows and event in a transaction (`InsertEdge`, `BumpFollow`, `CommitChange`, …), waits and `DeadlockVictim`; a paging client |
| `CatalogReads` | catalog repositories behind cache.go | writers that invalidate and commit; readers as `CacheGet`, load and `CacheSet`; time as the life left in entries |
| `UserProfile` | user-profile | `user.registered` handlers and updates in flight; events that carry the profile without its bio |
| `Listening` | playback, history, analytics | reports, the two consumers over `playLog`, retries and dead letters of the history, batches, recomputation, pages |
| `Recommendations` | builder.go, publisher.go, recommendation service | likes and other signals; builds as separate reads and pipelines, expiring sets, answers |
| `Playlist`, `PlaylistIndex` | playlist service; the indexer's playlist documents | requests over one playlist under its row lock; consumers that read the playlist and write a document versioned in milliseconds; failed writes, dead letters |
| `Library`, `Signals` | library service; the recommendation worker's signal tables | saves, removals, pages; events applied if newer |
| `SearchRebuild` | indexer.go, indices.go, the `reindex` command | live events, their retries and dead letters, the steps of a rebuild, the alias swap, failures |
| `Scoring` | scoring.go | operators in integer arithmetic over signals that grow one by one |
| `MediaFacts` | metadata and audio-analysis workers | deliveries that check, measure, save and commit, come again after a failure or are dead-lettered |
| `StreamAuth` | stream-auth | a request as cache and upstream calls, while status and variants change |
| `KeyDiscovery` | jwks.go | `Key`, the fetch, rotation |
| `WebSession` | session.ts, client.ts, auth's handler | tabs, calls, the shared cookie, the row in Auth |
| `WebPlayer` | player store, controller, reporter, HtmlAudioEngine | one record `app`; one action per click, element event or answer, with all its callbacks |
| `BffPages` | pages.go, playlists.go, catalog client | requests as stages of calls; `OpenPage`, `CallAnswers`, `PageCallFails`, `JoinCalls`, the genre cache |
| `Lifecycle` | the 19 `main.go`, server.go, shutdown.go | each program as its list of boot steps and joins; the steps are common |
| `Ordering` | what ORDER BY, LIMIT and the cursors of the lists do | `OrderedBy`, `FirstRows`, `NextPage`, `Walk` |
| `OutboxProofs`, `ConsumerProofs`, `AuthProofs`, `RuntimeProofs`, `MediaProofs`, `ServiceProofs`, `ProjectionProofs`, `OrderingProofs` | theorems (section 5) | – |
| `MC*` | constants, symmetry, initial backlogs for TLC | – |

Conventions. Each mutant operator (`… Mutant of X`) is a plausible bug of the code and
takes no part in the specifications; it exists to show that a property can fail. Failures
share a bounded budget (`MaxFaults` and its like), so every schedule of up to that many
failures is explored. External behaviour is modelled from its use: PostgreSQL (READ
COMMITTED visibility, row locks until the end of the transaction, advisory locks that end
with the session), Kafka (per-partition order, group assignment, commits of a former owner
that may be refused or not, a broker that took a record whose producer did not learn of
it), Redis (single commands are atomic, any call may fail), the object store (a PUT is
atomic and its digest is checked), and processes that die and are restarted.

Abstractions worth knowing:

- A row's key, a payload and a digest are values compared for equality. The refresh tokens
  of a session are numbered; the row knows the current one and the one before.
- All replicas read one clock; time advances in `Tick`.
- `MediaIngest` relays its events in any order: its topic is keyed by track and no row lock
  orders the uploads of a track (see finding 1), so this is what `EventStream` promises.
- `Transcoder` reads the variants of a track in one step although the code makes one call
  per quality. Variants are never removed, and the properties for which it matters what was
  read (`OneMaster`, `OlderOnlyAfterRebalance`) speak of runs in which only one live worker
  has the partition, the only writer.
- `WebPlayer`: JavaScript runs a task to its end, so an action composes what all listeners of
  a store or engine change do, in the order they subscribed.
- `Scoring` computes in hundredths and puts sounds on a line: what is checked is the order of
  the scores and the effect of a signal on them, not their decimals.
- `CatalogReads` and `Recommendations` keep, instead of a clock, how long ago a row changed and
  how long an entry still lives, up to the largest bound a property speaks of.
- The consumer groups of `MediaEvents` keep of `ConsumerGroup` what the handlers can see:
  records in order, redelivery from the committed offset, members that go on with records of
  a partition they lost. Retries and dead letters are part of the handlers' actions there.
- `MediaFacts`, `Listening`, `PlaylistIndex` and `SearchRebuild` do not count retries: a handler
  that fails may get its record again any number of times, or the record is dead-lettered and
  committed in one step (`DeadLetterFacts`, `HistoryDeadLetter`, `DeadLetterEvent`,
  `TrackDeadLettered`). How the consumer comes to that is `KafkaConsumer`'s.
- `PlaylistIndex` and `SearchRebuild` take the version of a deleted document to be remembered for as
  long as a write may be in flight; OpenSearch drops it after `index.gc_deletes`. Versions of
  one millisecond are modelled for the playlists (`Millis`, any clock that does not go back);
  in `SearchRebuild` each change of the track has a version of its own.
- `Recommendations` keeps of a listener's signals what decides about a set: which tracks they
  exclude (likes, skips, the tracks of a liked album) and whether there are any at all.

## 3. Runs

`tlc -workers 2 -config X.cfg Module`, with the module `PROJECT.json` names. Passing runs:

| Run | Instance | Shows |
|---|---|---|
| `Outbox_relay` | 3 transactions, 2 relays, 3 rows, batch 2, 1 failure | `KeyOrder`, `ImplementsStream` (refinement with liveness: exactly the committed rows, all of them) |
| `Consumer` | 2 members, 3 records, one poison, with and without DLQ, 1 retry, 3 failures, no restart when Run gives up | `CommitCovers`, `PoisonBlocks`, `SettledUnlessAllGaveUp` |
| `Runtime` | batch: 3 records, batches of 2, one poison, one skipped, with and without DLQ, 3 failures; all 19 programs with every choice of optional parts; one page of each kind, or two album pages sharing the genre cache, budget 2, TTL 1, clock 0..5 | `BatchCommitCovers`, `EveryRecordFlushed`; `OrderlyClose`, `ProgramsStop`; `PagesHonest` |
| `Auth` | 1 session, 4 requests, 1 verifier, clock 0..2, 1 failure; 3 login attempts, limit 2, 3 windows, 2 failed Redis calls; 2 tabs with 2 calls, 1 expiry, 3 page loads; 2 verifiers, 2 keys, clock 0..7 | `ReuseIsCaught`, `RevocationHolds`; `FailuresBounded`; `SingleFlight`; `KeysFollow` |
| `Media_services` | ingest: 2 uploads (one of rejected bytes), 3 Complete calls, 1 failure; transcoder: 3 backlogs of 3 events, 2 workers, 2 qualities, 1 retry, 2 failures, 1 lost partition; catalog: 4 logs, 2 replicas, 2 edits, 1 failure; a good, a broken and a missing master for the metadata and analysis workers, 2 deliveries; one stream request after another, clock 0..5; a player over 3 tracks, one unavailable, 3 tracks started, 1 renewal | `SettledOnce`; `VariantsSound`; `StaysUntilEdited`; `FactsExact`; `GrantsCurrent`; `PlayerObeys` |
| `Media_pipeline` | 2 uploads (one undecodable), 1 worker, 2 qualities, 1 retry, a failure in the transcoder and one in Catalog, 1 edit | `ReadyHasAudio`, `UploadsTakeEffect` |
| `Services` | 2 listeners and an artist, 2 requests, 3 events, pages of one; an artist, album and track with 1 reader, TTL 2, timeout 1; 3 accounts wanting one username, of 2, 2 handlers; 3 playbacks, 3 reports, batches cut in 2 blocks; 2 builders, 1 listener, 2 tracks, TTL 2, build time 1 | `GraphConsistent`; `CacheHonest`; `ProfilesKept`; `ListensExact`; `RecommendationsCurrent` |
| `Projections` | 2 playlist requests over 2 songs and 2 titles, 6 clock readings, two to a millisecond (where 2 indexers follow: 4, and only create, rename and delete); 2 library items, 2 requests, 3 events that share 2 clock readings; follows and features in any order; 3 generations and 3 versions of a track; 3 tracks by 2 artists for the scores | `PlaylistFollowed`; `LibraryFollowed`, `TasteFollows`; `RebuildSafe`; `RankingSound` |

Most of these properties are conjunctions of named parts, each stated and explained where its
state is:

| Property | Parts |
|---|---|
| `ReuseIsCaught`, `RevocationHolds` | `RotatedOnce`, `ReuseRevokes`; `RevokedIsFinal`, `RevokedNotAccepted` |
| `SingleFlight`, `KeysFollow` | `KeptUnlessFailedOrOverlap`, `SharedRotation`; `NewKeyFound`, `OldKeyRefused` |
| `OrderlyClose`, `ProgramsStop` | `ClosedInReverse`, `QuietClose`; `StopsWhenAsked`, `DeadConsumerStops` |
| `PagesHonest` | `UnavailableIsExact`, `OnlyRequiredRefuses`, `TagsFresh`, `PagesAnswered` |
| `SettledOnce` | `EventMatchesStatus`, `AnswersAgree`, `MasterKept` |
| `VariantsSound` | `TranscodedIsStored`, `JobAnnounced`, `OneMaster`, `OlderOnlyAfterRebalance` |
| `UploadsTakeEffect` | `ProcessingEnds`, `AcceptedBecomesPlayable` |
| `FactsExact`, `GrantsCurrent` | `FactsAnnouncedOnce`, `CommittedHasFacts`; `BlockTakesEffect`, `BestVariantGranted` |
| `PlayerObeys` | `QuietWhenPaused`, `RightTrackPlays`, `PlaysWhenAsked`, `ReportedOnce` |
| `GraphConsistent` | `CountersMatchEdges`, `EventsReplayGraph`, `PagesComplete`, `NobodyWaitsForEver` |
| `CacheHonest`, `RecommendationsCurrent` | `StalenessBounded`, `CreatedIsFound`; `LikedLeaves`, `FallsBackToPopular` |
| `ProfilesKept` | `EventsReplayProfiles`, `AcknowledgedHasProfile`, `OnlyOwnerChanges` |
| `ListensExact` | `FirstCountedListen`, `HistoryPagesEnumerate`, `ReportExact`, `ArtistsKept` |
| `PlaylistFollowed` | `EventsReplayPlaylist`, `PositionsDistinct`, `NoGhostPlaylist` |
| `LibraryFollowed`, `TasteFollows` | `EventsReplayLibrary`, `PagesEnumerate`; `LastByTimeWins`, `LikesMatchLibrary` |
| `RebuildSafe` | `AliasAlwaysReads`, `AliasNeverLost`, `ExactAfterReindex` |
| `RankingSound` | `ScoresInRange`, `BestOfTheRest`, `FollowHelps`, `SkipNeverHelps` |

All but `Outbox_relay`, `Consumer` and `Media_pipeline` put parts that share no state, or are fed a
prepared input, into one run: the `MC` module chooses in the initial state which part the
behaviour is about (`subject`), and only that part moves. The states
explored are the sum of those of the parts.

The bounds are the smallest at which the hazards occur: two relays for a lost session, a
third transaction so that an unlocked key is mixed into a batch, two members and a poison
record in the middle of the log for a late commit, four requests on one session (a login,
two refreshes with one token, a revocation), two uploads whose events cross. That they
occur is shown by the mutants (each property has one that TLC refutes in the same
instance) and by the refuted runs below.

Deadlock is checked for the outbox. It is off elsewhere because those instances end:
finite logs, finite requests and a bounded clock.

Refuted runs. Each checks what a comment or a document says and finds a behaviour of the
code that contradicts it:

1. `Outbox_key_order`: "per-key order holds" fails on keys no row lock protects.
2. `Consumer_silent`: with every `main` but the analytics worker's, a consumer that gave up is
   not restarted and records stay unhandled. `Consumer` shows, for the same `main`, that this
   takes every member of the group to give up (`SettledUnlessAllGaveUp`).
3. `Auth_revoke_event`: two overlapping revocations publish `session.revoked` twice.
4. `Media_zombie`: a worker that lost its partition overwrites newer variants.
   `OlderOnlyAfterRebalance` says that nothing less leads there.

Three more sentences are stronger than what the code does, or differ from it, and the models include
the behaviour without a refuted run of their own. relay.go says that "only one relay per table
publishes at a time": when the leader's session breaks during Publish the lock is free and a second
relay publishes the same rows; `KeyOrder` and `NothingLost` hold all the same. consumer.go says that
at shutdown "the record in flight is finished and committed": its handler runs under the cancelled
context, so it may be abandoned, and is then delivered again (`CommitCovers`).
`services/stream-auth/README.md:27` says that a non-empty set of variants is cached for an hour; the
code caches complete sets only (storage/cache.go:39), so that a quality that appears later is
granted at once. `BestVariantGranted` holds of the code and would fail of the README: caching any
non-empty set is the mutant `VariantsSetAny`, which `Media_services` refutes.

Met while modelling, included in the models and excepted by name in the properties, or
outside what the properties speak of:

- Dead letters: the platform's consumer commits a record whose handler keeps failing. What the
  record would have brought is then missing, and each property says so by name: a good master
  stays without facts (`CommittedHasFacts`), a play without its listen (`FirstCountedListen`), a
  deleted playlist can still be found (`NoGhostPlaylist`), a track's document stays as it was
  until the next event of the track or the next reindex (`ExactAfterReindex`).
- Playlist index: versions are in milliseconds and an equal version overwrites, so an edit of
  the millisecond of the deletion that is written late brings a deleted playlist back
  (`NoGhostPlaylist` excepts it).
- Search: what a live event writes through the old alias during a `reindex` is lost with the old
  index. The command's comment (main.go:131-135) says to stop the consumer for an exact result; only
  that case is covered (`ExactAfterReindex`), the race has no property.
- Playlist: the stamp that becomes the event's `occurredAt` and the document's version is read
  before the row lock, so of two edits the later one may carry the older version and the index
  keeps the earlier document until the next edit.
- User Profile: an update writes back the whole profile it read outside the transaction; of
  two concurrent updates of different fields one is lost. The model has this behaviour and no
  property forbids it. `profile.updated` carries no bio: `EventsReplayProfiles` speaks of the
  username and of what is shown.
- Search: the aliases are swapped one by one; a `reindex` that fails in between leaves some
  aliases on the new generation and some on the old. Each of them still reads a full index.
- Metadata: a read of a good master that the object store cuts short is taken for an
  undecodable file and the master is skipped for good (`CommittedHasFacts` excepts it).
- Lifecycle: when the HTTP server itself fails, `run` returns and closes resources that loops
  still use (`QuietClose` excepts it).
- Web session: two refreshes from different tabs that overlap, or an answer that is lost,
  sign the listener out (`KeptUnlessFailedOrOverlap` says that nothing else does).
- Player: after a failed authorization `play` does not authorize again and starts the old
  source; an end or an error of the old source while the new track is being authorized is
  applied to the new one; a seek made while a grant is renewed is lost.
- BFF: a recently played item that cannot be fetched disappears without being listed
  (`UnavailableIsExact` excepts it); artist names are asked for in one call, which Catalog
  refuses above 100 ids, so a playlist with more distinct artists shows none of their names.

## 4. Fairness

- Outbox: weak fairness of each relay's steps. `Relay.Run` repeats `RelayOnce` until
  shutdown and retries after errors. Transactions need not end; failures are finitely many.
- Consumers: weak fairness of Run's steps, of assignment and of restart (where `main` exits,
  constant `RestartOnStop`: true of the analytics worker and so of `Runtime`, false of the
  others and of `Consumer`).
  Failing handlers are not required to fail or to succeed for ever.
- Pipeline: weak fairness of the relay, of the workers' and replicas' steps and of the
  assignment of a free partition. None for clients, editors and the clock: nothing
  promises that an upload is completed.
- Lifecycle: weak fairness of the main goroutine, of the drain goroutine, and of a loop's end
  once its context is cancelled: every loop selects on the context. None for signals,
  requests (the server's shutdown timeout bounds them) and loops that end by themselves.
- BFF: weak fairness of the clock, of the join of a group, and of the end of a call whose
  context has expired. The services need never answer.

## 5. Theorems

All proofs are for arbitrary constants satisfying the modules' `ASSUME`s; no bound on the
number of processes, records, failures or steps of the clock enters. The assumptions say that
constants have their types, that the sets a property counts over are finite (`Tabs`, `Songs`,
`Listeners`, `Plays`, `LikedItems`), that "none" values are not ordinary ones, that a page's
budget is not zero and that a track has an artist (track.go:106); each is true of the
configuration the code accepts. Every theorem has the same shape: an inductive invariant, one
lemma per action that it is kept, and a last lemma that it implies the property.
What follows is, for each, what had to be added to the property and why.

**Outbox** (`OutboxProofs`). `IInv` strengthens the properties with: rows in the table
belong to transactions not rolled back; an open transaction with a row on a locked key
holds that key's lock and, hence, has larger ids on it than every committed row
(`CommitsInIdOrder`: what makes id order and commit order agree there); each relay's batch
holds committed rows and is closed under smaller committed undelivered ids of a locked key
(`BatchesClosed`: why a relay without its lock still appends in order); topics hold rows of
their key. Proved: `TypeCorrect`, `ExactlyCommitted` (`NoPhantom` and `NothingLost`),
`LockedKeysInOrder` (`KeyOrder`) and `ImplementsStreamSafety`, the step-by-step refinement
of `EventStream`'s safety part.

**Consumer** (`ConsumerProofs`). `CommitCovers` is not inductive: the offset a member is
about to commit must be covered too. `MemberInv` says that everything before the record at
hand is settled, also for members that lost the partition, and that fetch positions are
covered up to the fetch in progress. Proved: `TypeCorrect`, `AtLeastOnce`, `InLogOrder`,
`PoisonHoldsBack`.

**Throttle** (`AuthProofs`). The failures already let through count as if they had
happened: `count[window] + Cardinality(Pending)` is bounded, and windows that have not begun
are empty. Proved: `FailuresStayBounded`.

**Sessions and keys** (`AuthProofs`).
- `TokensWorkOnce` (`ReuseIsCaught`) and `RevocationIsFinal` (`RevocationHolds`) rest on what a
  request that read the row in one step still knows in a later one (`RequestKnows`: a refresh
  that has rotated left the row past its token; one that answers "reuse" left it revoked) and on
  `EntriesOutlive`: the entry in Redis lives longer than every access token of the session that
  exists or that a refresh in flight may still sign. Without the second half the invariant is not
  inductive, and the property would be false.
- `KeysFollowRotation` (`KeysFollow`): a fetch that was answered with an old key began before Auth
  changed it (`FetchesSound`), so an old key in memory arrived at most a fetch's timeout after the
  change (`CacheSound`).

**The web application** (`AuthProofs`).
- `CallsShareRotation` (`SingleFlight`): a tab has at most one refresh (`OneRefresh`); the newest
  refresh token is in the cookie or in one answer on its way (`OneHolder`); while nothing failed
  and no tabs overlapped, the one refresh presents it (`Undisturbed`); and every rotation is paid
  for by an expiry or a page load not yet spent by that tab (`NeedsRefresh`, `RotationsCounted`).
- `PlayerDoesAsTold` (`PlayerObeys`), for any queue. Between tasks `Obeying` holds: the element is
  quiet when the store says paused (`Quiet`), its source is another track's only while the grant of
  the current one is awaited or has failed (`Right`), audio that can be heard has been reported
  started (`Hears`), and the reports of every playback, past and current, are those of a
  playback begun and ended once (`Told`). A task is several store and engine changes, and between
  two of them a player that shows "playing" may stand still: the lemmas about the parts of a
  task carry `Nearly`, which is `Obeying` without that last part.

**What runs in every process** (`RuntimeProofs`).
- `TypeCorrect` and `BatchAtLeastOnce` (`BatchCommitCovers`): a batch collected over two
  assignments may have holes, and another member has filled them (`Holed`); what a member
  fetched is in its batch or done (`Fetched`).
- `ProgramsCloseOrderly` (`OrderlyClose`), for all 19 programs: each is `WellMade` (nothing that may
  fail comes after its first loop, each loop starts once, all that started are joined), proved
  program by program; then what is closed and what is still on the stack are together the resources
  in the order of their boot steps (`OpenedRight`), every loop that runs is one to join
  (`LoopsKnown`), and those already joined have left their result (`JoinKnows`).
- `PagesStayHonest`, the safety parts of `PagesHonest`: a page has listed what has no source and
  the lost sections of which no call is left (`PageKnows`; sections belong to one stage each,
  `Place`, so none is listed twice), and a genre list in the cache, in a call or on a page was
  read within a budget of its replacement (`ListsSound`, `TagsSound`).

**Media** (`MediaProofs`). One invariant for the composed pipeline gives `TypeCorrect`,
`SessionsSettledOnce` (`SettledOnce`: one event per settled session, and what each Complete call
found is still so, `CallKnows`), `TrackVariants` (`VariantsSound`: jobs go through the qualities in
order, `JobKnows`; without a lost partition one worker has it, `Sole`, and variants of an older
master are replaced by a record still to come, `Repairs`) and `TrackStaysUntilEdited`.
`ReadyTrackHasAudio` (`ReadyHasAudio`) has the hypothesis that READY is not among the statuses an
editor sets: Catalog's API lets an editor set it on a track without audio, which is also why the
run of `Media_pipeline` leaves it out. `FactsAreExact` (`FactsExact`) holds of the metadata and
analysis workers on their own: what ends a delivery has either found or stored the facts, or is
in one of the histories the property excepts (a reading cut short, a dead-lettered record).

**Services** (`ServiceProofs`).
- `CacheIsHonest` (`CacheHonest`): an entry, and what a reader is about to store, is of a row
  replaced no longer ago than the life spent plus one request (`EntryKnows`, `ReaderKnows`).
- `GrantsAreCurrent` (`GrantsCurrent`): the same for the status a request read or found cached
  (`StatusKnown`); the cached variants are all there are, because variants are not removed.
- `RecommendationsStayCurrent` (`RecommendationsCurrent`): what a build read of the likes is as
  old as the build (`BuildKnows`), a set as old as its build plus the life spent (`SetKnows`), for
  listeners with signals of any kind.
- `ProfilesAreKept` (`ProfilesKept`): of one account only one transaction has the row (`OneWriter`), so
  its last event says what the row does, the bio excepted.
- `GraphIsConsistent` (`GraphConsistent`). Counters and events: of one edge only one open
  transaction has the key (`OneHolder`), so that counter, edge and event change together. The paging
  client: what it has seen is sorted and ends at its cursor (`ReaderSorted`), and what stayed since
  it began and is not seen yet is behind the cursor (`ReaderMisses`). Locks: if no open transaction
  could commit or take a counter row, each would wait for a row that another one holds, and all of
  them would be a circle that PostgreSQL resolves (`OpenOnesMove`).
- `ListensAreExact` (`ListensExact`). The history: a play without a listen has no end that counts
  before the next record that was not dead-lettered (`HistoryKnows`), and the pages of a user are a
  walk through sorted rows. The artists: a track the cache takes for unknown was unknown to the
  Catalog when a play in the log was reported (`IngestKnows`). The reports: every row is the row of
  a record of the log, so FINAL leaves one row of each event whatever cuts of the batches came in
  (`RowsOfLog`, `FinalRows`); what the running job has passed is fresh (`JobGotTo`), and so are all
  recent days when a job ended without an error and nothing was ingested since (`SettledIsFresh`). A
  total is then a sum of daily numbers, shown equal to the count over the log by counting units: a
  sum is the size of a set of pairs, and disjoint sets add up (`SumCounts`, `SumOfParts`).

**Projections** (`ProjectionProofs`).
- `LibraryIsFollowed` (`LibraryFollowed`): of one item only one open transaction has the row
  (`OneSaver`), so its events alternate; a list is a walk through the rows of its kind, which the
  time of the save and the item tell apart (`ListIsEnumerated`).
- `TasteFollowsEvents` (`TasteFollows`): the stored signal is that of the newest event heard, and
  all heard were published (`HeardPublished`, `NothingHeard`, `LastByTimeWins`).
- `SearchFollowsPlaylist` (`PlaylistFollowed`): a request holds the lock of what it read
  (`ReqHolds`, `OneLock`), so what it commits is still what its statement makes of the row
  (`CommitsMade`), and the event makes the same of what a consumer had (`EventTells`); the delete
  event is the last (`DeletedIsLast`). A write still to come makes a document only for an event that
  is no deletion (`JobSound`); the document's version is at least as new as the events the group has
  committed and not dead-lettered (`Covers`), and what is in it was written for an event
  (`WrittenFor`). So once the deletion is consumed the document is gone (`DeletionWritten`), unless
  the deletion was dead-lettered or an edit of the same millisecond written late. Of the clock it is
  used that readings in order have milliseconds in order (`MillisAssumption`). That a consumer goes
  through one sequence of playlists only is an induction over the events, done as the choice of a
  least counterexample.
- `RebuildIsSafe` (`RebuildSafe`, an invariant and an action property): at every step of the command
  the new indices exist and the aliases not yet moved have their old one (`Command`); while nobody
  disturbs it, the document is as far as the events consumed (`DocAsFar`, `DocWritten`) and one that
  the events still to be consumed make exact (`DocFits`, `Alone`), unless the last one consumed was
  dead-lettered.

**Lists** (`OrderingProofs`). The lists of Social, Library and History share three facts: the rows of
a finite set under a total order come out each once and in order (`SortedRows`); the page after a
cursor is a run of what is behind it, with the next cursor at its end (`PageOfRows`); and who follows
the cursors from the first page to the last has every row once (`WalkEnumerates`). Since no
induction theorem can be used, an induction is the choice of a least counterexample
(`LeastExists`).

**Types, and what TLC ran** (`RunsAreBehaviours` of `AuthProofs`, `RuntimeProofs`, `ServiceProofs`
and `ProjectionProofs`). Those modules extend the MC module of their run, which lets one part move
at a time. `RunsAreBehaviours` says that whatever TLC explored there is a behaviour of the
specifications the theorems are about: the theorems cover the runs, for every instance and without
the restrictions an MC module puts on its parts to keep them small. `AuthTypesHold`,
`RuntimeTypesHold`, `ServicesTypesHold` and `ProjectionsTypesHold` are the type invariants of those
runs. They needed more than types in three places: a counter of the graph is a natural because it is
the size of a set of edges, and a subject that is no listener follows nobody
(`OnlyListenersFollow`); no event is written without a time, which depends on where each use case of
the playlist service reads the clock (`TimesRead`); and the boot step a program is at exists
(`WellMade`).

What the proofs changed in the models. `OneMaster` compared uploads where the code compares
digests; two uploads of the same bytes make it false, and it now compares digests
(`MasterOf`). The event-replay properties of `Library`, `Signals`, `Social` and `MediaFacts` and
`ClosedInReverse` were stated with filtered sequences and are now stated over sets of positions,
which says the same and can be reasoned about; `EventsReplayPlaylist` used a fold and now a
recursive function. ORDER BY was a call of a sorting operator and is now what SQL promises, each row
at the place its rank gives it (`Ordering`); so `RecentSources`, whose query leaves ties open,
became the set of the lists it may return, and a walk through pages is a recursive function.
`ReportExact` compares its sums through `SumOf` over rows instead of a fold over the log.
`NobodyWaitsForEver` said ENABLED of three actions and now names their guards (`CommitReady`,
`RowReady`, `Deadlocked`), which those actions use. A program's position `at` was bounded by its boot
steps in every stage, and is now bounded by the list that the stage goes through.
Constants got named assumptions.

Model-checked only:
- all liveness: `SettledUnlessAllGaveUp`, `EveryRecordFlushed`, `ProcessingEnds`,
  `AcceptedBecomesPlayable`, `StopsWhenAsked`, `DeadConsumerStops`, `PagesAnswered` and the liveness
  half of `ImplementsStream`. The prover has no rules for fairness and ENABLED.
- `RankingSound`. The scores are sums over sets of tracks, square roots and logarithms of what an
  instance says of its tracks, and the property is about those numbers: with tracks of two
  analyzer versions, for one, a skip may change which version counts and raise a score. A theorem
  about all instances would have to exclude such data, which the code does not.

## 6. Not modelled

- Rendering, request decoding, response layout, metrics, tracing, configuration: no state.
- Cryptography (password hashes, token and URL signatures): outside what TLC can say.
- The signal processing of the audio analysis and the decimals of the scores: numeric code.
- Search queries: translated to OpenSearch's language without state; relevance is OpenSearch's.
- Genres and the paged listings of Catalog, updates of artists and albums (the track's path),
  the audit log of Stream Authorization, the synchronous analytics sink of Playback.
- The clients of object storage, OpenSearch and ClickHouse: the models contain what their
  calls do, at the place of the caller.

## 7. Plan

Done: all parts of the inventory that keep state of their own, with proofs of the outbox, the
consumers, the throttle, sessions and key discovery, the web session and the player, the media
pipeline, Catalog's cache, stream grants, recommendations, profiles, social, listening history,
library, signals, playlists and their index, rebuilds, program lifecycle and pages.

Every invariant the runs check, but for `RankingSound`, is proved for all values of the constants, and
so are the action properties, the latter as parts of `RevocationHolds`, `ProfilesKept`, `RebuildSafe`
and their like.

Left: the liveness properties, for a prover that has rules for fairness; and, of the parts listed
in section 6, the paged listings of Catalog with `Ordering`, which already has what their proofs need.
