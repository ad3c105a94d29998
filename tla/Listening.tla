------------------------------ MODULE Listening ------------------------------
(***************************************************************************)
(* What happens to a player's reports: the Playback Service publishes them *)
(* to playback.events, Listening History records the plays that count as   *)
(* listens, and the Analytics Worker inserts them in ClickHouse in batches *)
(* and recomputes the daily tables from the rows.  Both consumers see      *)
(* every event at least once and start again at the committed offset.      *)
(***************************************************************************)
EXTENDS Integers, FiniteSets, Sequences, SequencesExt, FiniteSetsExt, Ordering

CONSTANTS Plays,         \* playbacks: [id, user, track, source]; ids are naturals
          HistoryReports,   \* what players report, [kind, play, listened, duration],
          AnalyticsReports, \* when the history and when Analytics is looked at
          ListenSlack,   \* a player may report this much more than the duration
          MinListen,     \* the rule: listened for so long, or for half the track
          TrackArtists,  \* the artists of each track
          TrackCacheMax, \* entries of the track cache
          Lookback,      \* days recomputed before today
          LastDay,       \* bound: days are 1..LastDay
          MaxReports,    \* bound: events published
          MaxBlocks      \* bound: blocks inserted in ClickHouse

\* Reports are about known playbacks of tracks, and a track has an artist.
ASSUME ListeningAssumption ==
  /\ \A e \in HistoryReports \cup AnalyticsReports : e.play \in Plays /\ e.listened \in Int
  /\ IsFiniteSet(Plays)
  /\ \A p \in Plays : p.id \in Nat /\ p.track \in DOMAIN TrackArtists
  /\ \A p, q \in Plays : p.id = q.id => p = q
  /\ DOMAIN TrackArtists \subseteq Nat
  /\ \A t \in DOMAIN TrackArtists : TrackArtists[t] # {}
  /\ Lookback \in Nat /\ LastDay \in Nat \ {0}

VARIABLES playLog,     \* playback.events, the partition of a user
          today,
          listens,     \* history.listens by playback, 0 or the position of its event
          hist,        \* the history consumer: [next, committed]
          histDead,    \* history: positions it has dead-lettered
          analytics,   \* the analytics consumer: [next, committed, batch]
          trackCache,  \* "none", "known" or "unknown" for each track
          catalogued,  \* tracks the Catalog has
          eventRows,   \* playback_events, the rows of every block
          blocks,      \* deduplication tokens the table remembers
          daily,       \* the three daily tables: day, key -> stats
          aggJob,      \* the aggregation job
          settled      \* the tables are as the last complete job left them

reportVars == <<playLog, today>>
historyVars == <<listens, hist, histDead>>
ingestVars == <<analytics, trackCache, eventRows, blocks>>
aggregateVars == <<daily, aggJob, settled>>
listeningVars == <<reportVars, historyVars, ingestVars, catalogued, aggregateVars>>

Kinds == {"started", "finished", "skipped"}
Days == 1..LastDay
TrackIds == DOMAIN TrackArtists
Tables == <<"track", "artist", "totals">>
NoAggJob == [day |-> 0, to |-> 0, table |-> 0, ok |-> FALSE]

ListeningInit ==
  /\ playLog = <<>> /\ today = 1
  /\ listens = [p \in Plays |-> 0] /\ hist = [next |-> 1, committed |-> 1] /\ histDead = {}
  /\ analytics = [next |-> 1, committed |-> 1, batch |-> <<>>]
  /\ trackCache = [t \in TrackIds |-> "none"]
  /\ catalogued \in SUBSET TrackIds
  /\ eventRows = {} /\ blocks = {}
  /\ daily = [t \in Range(Tables) |-> [d \in Days |-> <<>>]]
  /\ aggJob = NoAggJob /\ settled = FALSE

-----------------------------------------------------------------------------
(* Playback Service.                                                         *)

\* Event.Validate; the identifiers and the source are valid ones here.
Validate(e) ==
  /\ e.kind \in Kinds
  /\ e.duration > 0
  /\ e.listened >= 0 /\ e.listened <= e.duration + ListenSlack

\* Report: stamped with the server's time, which may be yesterday's when it
\* reaches the log, and published under an event ID of its own.
Report(e) ==
  /\ Len(playLog) < MaxReports
  /\ \E at \in {today, today - 1} \cap Days :
       playLog' = IF Validate(e)
                  THEN Append(playLog, [e |-> e, at |-> at, known |-> e.play.track \in catalogued])
                  ELSE playLog
  /\ UNCHANGED <<today, historyVars, ingestVars, catalogued, aggregateVars>>

Midnight ==
  /\ today < LastDay /\ today' = today + 1
  /\ settled' = FALSE
  /\ UNCHANGED <<playLog, historyVars, ingestVars, catalogued, daily, aggJob>>

\* An upload puts a track in the Catalog.
TrackCreated(t) ==
  /\ t \notin catalogued /\ catalogued' = catalogued \cup {t}
  /\ UNCHANGED <<reportVars, historyVars, ingestVars, aggregateVars>>

-----------------------------------------------------------------------------
(* Listening History.                                                        *)

\* Rule.Counts.
CountsAsListen(e) ==
  /\ e.listened > 0
  /\ e.listened >= MinListen \/ (e.duration > 0 /\ 2 * e.listened >= e.duration)

\* Mutant of Record: the listen heard of last is kept.
RecordLast(p, i) == [listens EXCEPT ![p] = i]
\* Record: INSERT ... ON CONFLICT (playback_id) DO NOTHING.
Record(p, i) == [listens EXCEPT ![p] = IF @ = 0 THEN i ELSE @]

\* PlayEnded: a play that counts becomes a listen.
PlayEnded(i) == IF CountsAsListen(playLog[i].e) THEN Record(playLog[i].e.play, i) ELSE listens

\* The handler; playback.started carries nothing to record.
HistoryHandle ==
  LET i == hist.next IN
  /\ i <= Len(playLog)
  /\ listens' = IF playLog[i].e.kind = "started" THEN listens ELSE PlayEnded(i)
  /\ \E c \in {hist.committed, i + 1} : hist' = [next |-> i + 1, committed |-> c]
  /\ UNCHANGED <<reportVars, histDead, ingestVars, catalogued, aggregateVars>>

\* The insert of a listen failed until no retry was left, its own answer perhaps
\* lost: the record goes to the dead-letter topic and the consumer goes on.
HistoryDeadLetter ==
  LET i == hist.next IN
  /\ i <= Len(playLog)
  /\ playLog[i].e.kind # "started" /\ CountsAsListen(playLog[i].e)
  /\ listens' \in {listens, PlayEnded(i)}
  /\ histDead' = histDead \cup {i}
  /\ \E c \in {hist.committed, i + 1} : hist' = [next |-> i + 1, committed |-> c]
  /\ UNCHANGED <<reportVars, ingestVars, catalogued, aggregateVars>>

HistoryRestart ==
  /\ hist' = [hist EXCEPT !.next = hist.committed]
  /\ UNCHANGED <<reportVars, listens, histDead, ingestVars, catalogued, aggregateVars>>

\* Listens of a user, newest first by (playedAt, playback).
NewerListen(a, b) == a.at > b.at \/ (a.at = b.at /\ a.id > b.id)
ListenRows(u) ==
  {[at |-> playLog[listens[p]].at, id |-> p.id, track |-> p.track, source |-> p.source] :
     p \in {q \in Plays : q.user = u /\ listens[q] # 0}}
\* Repository.Tracks: WHERE (played_at, playback_id) < cursor.
TracksAfter(u, after) == {x \in ListenRows(u) : after = <<>> \/ NewerListen(after, x)}
\* Service.Tracks, pages of one.
TracksPage(u, after) ==
  LET rows == TracksAfter(u, after)
  IN NextPage(FirstRows(rows, {p \in rows \X rows : NewerListen(p[1], p[2])}, 2), 1)
\* RecentSources: GROUP BY source, by the latest listen alone: sources that were
\* last heard at the same time come in any order.
SourceRows(u) ==
  LET of(s) == {x \in ListenRows(u) : x.source = s}
  IN {[source |-> s, last |-> Max({x.at : x \in of(s)})] : s \in {x.source : x \in ListenRows(u)} \ {""}}
RecentSources(u) ==
  LET n == Cardinality(SourceRows(u))
  IN {list \in [1..n -> SourceRows(u)] : \A i, j \in 1..n : i < j => list[i] # list[j] /\ list[i].last >= list[j].last}

-----------------------------------------------------------------------------
(* Analytics Worker: ingesting.                                              *)

\* The batch consumer hands the next records to Ingest; Decode and
\* FromEnvelope give their events.
TakeBatch(n) ==
  LET a == analytics IN
  /\ a.batch = <<>> /\ a.next + n - 1 <= Len(playLog)
  /\ analytics' = [a EXCEPT !.batch = [k \in 1..n |-> a.next + k - 1]]
  /\ UNCHANGED <<reportVars, historyVars, trackCache, eventRows, blocks, catalogued, aggregateVars>>

BatchTracks == {playLog[i].e.play.track : i \in Range(analytics.batch)}

\* Client.Tracks: the Catalog's answer, tracks unknown to it absent.
CatalogTracks(ids) == ids \cap catalogued

\* TrackCache.Tracks after the Catalog answered for the missing ids: the cache
\* is emptied when they do not fit.
CacheTracks(missing) ==
  LET entries == {t \in TrackIds : trackCache[t] # "none"}
      full == Cardinality(entries) + Cardinality(missing) > TrackCacheMax
  IN [t \in TrackIds |-> IF t \in missing THEN (IF t \in CatalogTracks(missing) THEN "known" ELSE "unknown")
                         ELSE IF full THEN "none" ELSE trackCache[t]]

CacheExpires(t) ==
  /\ trackCache[t] # "none" /\ trackCache' = [trackCache EXCEPT ![t] = "none"]
  /\ UNCHANGED <<reportVars, historyVars, analytics, eventRows, blocks, catalogued, aggregateVars>>

\* Enrich: the row of an event, with the track's artists if they are known.
Enrich(i, known) ==
  [id |-> i, e |-> playLog[i].e, at |-> playLog[i].at, block |-> Cardinality(blocks) + 1,
   artists |-> IF playLog[i].e.play.track \in known THEN TrackArtists[playLog[i].e.play.track] ELSE {}]

\* InsertEvents: one block; a token the table has seen makes it a no-op.
InsertEvents(rows, token) ==
  IF token \in blocks THEN UNCHANGED <<eventRows, blocks, aggJob, settled>>
  ELSE /\ Cardinality(blocks) < MaxBlocks
       /\ eventRows' = eventRows \cup rows
       /\ blocks' = blocks \cup {token}
       /\ settled' = FALSE /\ aggJob' = [aggJob EXCEPT !.ok = FALSE]

\* Ingest: missing tracks are resolved, or the batch fails and is tried again;
\* the answer to the insert may be lost, and the batch is inserted again.
Ingest(acked, up) ==
  LET missing == {t \in BatchTracks : trackCache[t] = "none"}
      hits == {t \in BatchTracks : trackCache[t] = "known"} IN
  /\ analytics.batch # <<>>
  /\ missing # {} => up
  /\ InsertEvents({Enrich(i, hits \cup CatalogTracks(missing)) : i \in Range(analytics.batch)}, analytics.batch)
  /\ trackCache' = CacheTracks(missing)
  /\ analytics' = IF acked THEN [next |-> Last(analytics.batch) + 1, committed |-> analytics.committed, batch |-> <<>>]
                           ELSE analytics
  /\ UNCHANGED <<reportVars, historyVars, catalogued, daily>>

CommitOffsets ==
  /\ analytics.batch = <<>>
  /\ analytics' = [analytics EXCEPT !.committed = analytics.next]
  /\ UNCHANGED <<reportVars, historyVars, trackCache, eventRows, blocks, catalogued, aggregateVars>>

\* The process dies, or gave up on the sink and was restarted: memory is gone
\* and the records since the commit come again, in other batches.
AnalyticsRestart ==
  /\ analytics' = [next |-> analytics.committed, committed |-> analytics.committed, batch |-> <<>>]
  /\ trackCache' = [t \in TrackIds |-> "none"]
  /\ aggJob' = NoAggJob
  /\ UNCHANGED <<reportVars, historyVars, eventRows, blocks, catalogued, daily, settled>>

-----------------------------------------------------------------------------
(* Analytics Worker: the daily tables.                                       *)

\* FINAL: of the rows of an event the one ingested last.
Final(rows) == {r \in rows : \A o \in rows : o.id = r.id => o.block <= r.block}

\* sum() over rows or days.
SumOf(f, S) == MapThenSumSet(LAMBDA x : f[x], S)
TimeListened(e) == IF e.kind = "started" THEN 0 ELSE e.listened

\* statsColumns.
StatsOf(rows) ==
  LET of(kind) == Cardinality({r \in rows : r.e.kind = kind})
  IN [plays |-> of("started"), completions |-> of("finished"), skips |-> of("skipped"),
      listeners |-> Cardinality({r.e.play.user : r \in rows}),
      listened |-> SumOf([r \in rows |-> TimeListened(r.e)], rows)]

\* GROUP BY: the keys of a table, and the rows of a key.
KeysOf(table, rows) ==
  CASE table = "track" -> {r.e.play.track : r \in rows}
    [] table = "artist" -> UNION {r.artists : r \in rows}
    [] OTHER -> IF rows = {} THEN {} ELSE {"total"}
RowsOf(table, k, rows) ==
  {r \in rows : (table = "track" => r.e.play.track = k) /\ (table = "artist" => k \in r.artists)}

DayRows(day) == {r \in Final(eventRows) : r.at = day}

\* INSERT ... SELECT: newer rows for the keys the day has now.
RecomputeTable(table, day) ==
  LET rows == DayRows(day)
      keys == KeysOf(table, rows)
      old == daily[table][day]
  IN [k \in keys \cup DOMAIN old |-> IF k \in keys THEN StatsOf(RowsOf(table, k, rows)) ELSE old[k]]

\* RecomputeRecent: today and the days before it.
RecentFrom(day) == IF day > Lookback THEN day - Lookback ELSE 1
RecomputeRecent ==
  /\ aggJob.day = 0
  /\ aggJob' = [day |-> RecentFrom(today), to |-> today, table |-> 1, ok |-> TRUE]
  /\ UNCHANGED <<reportVars, historyVars, ingestVars, catalogued, daily, settled>>

\* RecomputeDay, a statement at a time.  One that fails ends the day, and
\* Recompute goes on with the next.
RecomputeDay(ok) ==
  LET endDay == ~ok \/ aggJob.table = Len(Tables)
      done == endDay /\ aggJob.day = aggJob.to
      good == aggJob.ok /\ ok IN
  /\ aggJob.day # 0
  /\ daily' = IF ok THEN [daily EXCEPT ![Tables[aggJob.table]][aggJob.day] = RecomputeTable(Tables[aggJob.table], aggJob.day)]
                    ELSE daily
  /\ aggJob' = IF done THEN NoAggJob
            ELSE [aggJob EXCEPT !.day = IF endDay THEN @ + 1 ELSE @,
                             !.table = IF endDay THEN 1 ELSE @ + 1, !.ok = good]
  /\ settled' = IF done THEN good /\ aggJob.to = today ELSE settled
  /\ UNCHANGED <<reportVars, historyVars, ingestVars, catalogued>>

DaysWith(table, k, from, to) == {d \in from..to : k \in DOMAIN daily[table][d]}

\* Store.Report: sums of the daily rows, unique listeners from the raw rows.
ReportTotals(from, to) ==
  LET days == DaysWith("totals", "total", from, to)
      sum(f) == SumOf([d \in days |-> daily["totals"][d]["total"][f]], days)
  IN [plays |-> sum("plays"), completions |-> sum("completions"), skips |-> sum("skips"),
      listeners |-> Cardinality({r.e.play.user : r \in {x \in eventRows : x.at \in from..to}}),
      listened |-> sum("listened")]
\* top: by plays, then by key.
TopKeys(table, from, to) ==
  LET keys == UNION {DOMAIN daily[table][d] : d \in from..to}
      plays(k) == SumOf([d \in DaysWith(table, k, from, to) |-> daily[table][d][k].plays], DaysWith(table, k, from, to))
      above(a, b) == plays(a) > plays(b) \/ (plays(a) = plays(b) /\ a < b)
  IN OrderedBy(keys, {p \in keys \X keys : above(p[1], p[2])})

-----------------------------------------------------------------------------
HistoryNext ==
  \/ \E e \in HistoryReports : Report(e)
  \/ Midnight \/ HistoryHandle \/ HistoryDeadLetter \/ HistoryRestart

IngestNext ==
  \/ \E e \in AnalyticsReports : Report(e)
  \/ \E t \in TrackIds : TrackCreated(t) \/ CacheExpires(t)
  \/ \E n \in 1..2 : TakeBatch(n)
  \/ \E acked, up \in BOOLEAN : Ingest(acked, up)
  \/ CommitOffsets \/ AnalyticsRestart

\* The job beside the consumer; the Catalog stays as it is.
AggregateNext ==
  \/ \E e \in AnalyticsReports : Report(e)
  \/ Midnight
  \/ \E n \in 1..2 : TakeBatch(n)
  \/ \E acked, up \in BOOLEAN : Ingest(acked, up)
  \/ CommitOffsets \/ AnalyticsRestart \/ RecomputeRecent
  \/ \E ok \in BOOLEAN : RecomputeDay(ok)

ListeningSpec == ListeningInit /\ [][HistoryNext \/ IngestNext \/ AggregateNext]_listeningVars

-----------------------------------------------------------------------------
\* Of every play, the history has the first report of its end that satisfies
\* the rule, once, and no other, however often the events were delivered: a
\* short skip before the end does not hide the listen.  Only reports that went
\* to the dead-letter topic may be missing.
FirstCountedListen ==
  \A p \in Plays :
    LET ends == {i \in 1..Len(playLog) : /\ playLog[i].e.play = p /\ playLog[i].e.kind # "started"
                                         /\ CountsAsListen(playLog[i].e)}
    IN IF listens[p] = 0 THEN \A i \in ends : i >= hist.next \/ i \in histDead
       ELSE listens[p] \in ends /\ \A i \in ends : i >= listens[p] \/ i \in histDead

\* The pages of a user's listens, after each cursor.
ListenPages(u) == [after \in ListenRows(u) \cup {<<>>} |-> TracksPage(u, after)]

\* Following the cursors gives every listen of a user who has any once, plays
\* that ended at the same time too, and the sources list each source once.
HistoryPagesEnumerate ==
  \A u \in {p.user : p \in {q \in Plays : listens[q] # 0}} :
    LET walk == Walk(ListenPages(u), Cardinality(Plays))
    IN /\ Range(walk) = ListenRows(u) /\ Len(walk) = Cardinality(ListenRows(u))
       /\ \A list \in RecentSources(u) :
            {row.source : row \in Range(list)} = {x.source : x \in ListenRows(u)} \ {""}

\* Events inserted at least once.
Ingested == {r.id : r \in eventRows}
\* What the recent days' statistics should say, from the log.
Expected(from, to) ==
  LET ids == {i \in Ingested : playLog[i].at \in from..to}
      of(kind) == Cardinality({i \in ids : playLog[i].e.kind = kind})
  IN [plays |-> of("started"), completions |-> of("finished"), skips |-> of("skipped"),
      listeners |-> Cardinality({playLog[i].e.play.user : i \in ids}),
      listened |-> SumOf([i \in ids |-> TimeListened(playLog[i].e)], ids)]

\* A complete job makes the report exact: each event inserted counts once,
\* although batches were retried, cut again after a restart and inserted twice,
\* and the top lists exactly the tracks that were played.
ReportExact ==
  LET from == RecentFrom(today) IN
  settled => /\ ReportTotals(from, today) = Expected(from, today)
             /\ Range(TopKeys("track", from, today)) =
                  {playLog[i].e.play.track : i \in {j \in Ingested : playLog[j].at \in from..today}}

\* "events stored without artists would be missing from artist charts for
\* good": a row is without them only if a play of the track was reported
\* before the Catalog had the track.
ArtistsKept ==
  \A r \in eventRows :
    r.artists = {} => \E i \in 1..Len(playLog) : playLog[i].e.play.track = r.e.play.track /\ ~playLog[i].known

\* A listener's history and the reports of Analytics count every play once,
\* from a log that is delivered again and cut differently, dead-lettered
\* reports aside.
ListensExact == FirstCountedListen /\ HistoryPagesEnumerate /\ ReportExact /\ ArtistsKept
=============================================================================
