---------------------------- MODULE SearchRebuild ----------------------------
(***************************************************************************)
(* The search indices of the catalog: catalog.events write one track's     *)
(* document through the alias, with occurredAt as its version; `reindex`   *)
(* fills a new generation of physical indices from Catalog, swaps the      *)
(* aliases one request after the other and drops the old indices.  Any     *)
(* request may fail, which dead-letters an event in the end, and the       *)
(* command may be killed.                                                  *)
(***************************************************************************)
EXTENDS Integers, FiniteSets, Sequences, SequencesExt

CONSTANTS MaxGeneration,   \* bound: generations of indices
          MaxUpdates       \* bound: versions of the track

\* Two of the aliases, in the order of search.Aliases and sorted.
SearchAliases == {"tracks", "albums"}
CreateOrder == <<"tracks", "albums">>
SwapOrder == <<"albums", "tracks">>

VARIABLES track,       \* Catalog's row: its version (updatedAt) and whether it is searchable
          feed,        \* catalog.events, in order
          aliasOf,     \* generations each alias points to
          indexDocs,   \* [alias, generation] of the indices that exist -> the document
          consumer,    \* position, and whether it runs
          reindexer,   \* the command
          missed       \* history: the event consumed last was dead-lettered, and no reindex began since

rebuildVars == <<track, feed, aliasOf, indexDocs, consumer, reindexer, missed>>

NoDoc == [v |-> 0, on |-> FALSE]
\* n counts aliases; before is where they pointed; alone: no consumer ran meanwhile.
NotRunning == [pc |-> "idle", n |-> 1, made |-> {}, pending |-> NoDoc, before |-> <<>>, alone |-> FALSE]
NextGeneration(a) == Max({0} \cup aliasOf[a]) + 1

RebuildInit ==
  /\ track = NoDoc /\ feed = <<>>
  /\ aliasOf = [a \in SearchAliases |-> {}]
  /\ indexDocs = <<>>
  /\ consumer = [at |-> 0, runs |-> FALSE]
  /\ reindexer = NotRunning
  /\ missed = FALSE

CommandStep(from, rec) == reindexer.pc = from /\ reindexer' = rec
Ready == \A a \in SearchAliases : aliasOf[a] # {}

\* The track is created, updated, blocked or deleted in Catalog.
TrackUpdate(on) ==
  /\ track.v < MaxUpdates
  /\ track' = [v |-> track.v + 1, on |-> on]
  /\ feed' = Append(feed, track')
  /\ UNCHANGED <<aliasOf, indexDocs, consumer, reindexer, missed>>

\* Bulk with version_type external_gte: an older version is a conflict, which
\* Apply does not take for an error.  A tombstone outlives the writes in flight.
BulkWrite(old, new) == IF new.v >= old.v THEN new ELSE old

WriteAlias(new) ==
  LET i == <<"tracks", CHOOSE g \in aliasOf["tracks"] : TRUE>>
  IN indexDocs' = [indexDocs EXCEPT ![i] = BulkWrite(@, new)]

\* The consumer starts, from an offset it has committed or an earlier one.
StartConsumer(at) ==
  /\ ~consumer.runs /\ Ready /\ at \in 0..consumer.at
  /\ consumer' = [at |-> at, runs |-> TRUE]
  /\ reindexer' = [reindexer EXCEPT !.alone = @ /\ reindexer.pc = "idle"]
  /\ UNCHANGED <<track, feed, aliasOf, indexDocs, missed>>
StopConsumer ==
  /\ consumer.runs /\ consumer' = [consumer EXCEPT !.runs = FALSE]
  /\ UNCHANGED <<track, feed, aliasOf, indexDocs, reindexer, missed>>

NextEvent == feed[consumer.at + 1]
HasEvent == consumer.runs /\ consumer.at < Len(feed)
CommitTrackEvent == consumer' = [consumer EXCEPT !.at = @ + 1]

\* TrackChanged: what is not searchable is deleted.
TrackChanged ==
  /\ HasEvent /\ WriteAlias(NextEvent) /\ CommitTrackEvent
  /\ missed' = FALSE
  /\ UNCHANGED <<track, feed, aliasOf, reindexer>>

\* The write's answer is lost: the event comes again, as it does after a read
\* or a write that fails, which change nothing.
TrackChangeFails ==
  /\ HasEvent /\ WriteAlias(NextEvent)
  /\ UNCHANGED <<track, feed, aliasOf, consumer, reindexer, missed>>

\* No retry is left, or Catalog has no such album: the event goes to the
\* dead-letter topic and is committed.
TrackDeadLettered ==
  /\ HasEvent /\ CommitTrackEvent
  /\ missed' = TRUE
  /\ UNCHANGED <<track, feed, aliasOf, indexDocs, reindexer>>

-----------------------------------------------------------------------------
(* migrate and reindex                                                      *)

\* CreateIndex refuses a name that is taken.
CreateIndex(a, g) ==
  /\ <<a, g>> \notin DOMAIN indexDocs /\ g <= MaxGeneration
  /\ indexDocs' = [i \in DOMAIN indexDocs \cup {<<a, g>>} |-> IF i = <<a, g>> THEN NoDoc ELSE indexDocs[i]]
DeleteIndex(is) == indexDocs' = [i \in DOMAIN indexDocs \ is |-> indexDocs[i]]

\* Ensure: -v1 behind an alias that does not exist.  Creating the index and
\* adding the alias are two requests, which a failure may separate.
EnsureIndex(a) ==
  /\ aliasOf[a] = {} /\ reindexer.pc = "idle" /\ CreateIndex(a, 1)
  /\ aliasOf' \in {aliasOf, [aliasOf EXCEPT ![a] = {1}]}
  /\ UNCHANGED <<track, feed, consumer, reindexer, missed>>

\* reindex, after Ensure.
StartReindex ==
  /\ Ready
  /\ CommandStep("idle", [NotRunning EXCEPT !.pc = "create", !.before = aliasOf, !.alone = ~consumer.runs])
  /\ missed' = FALSE
  /\ UNCHANGED <<track, feed, aliasOf, indexDocs, consumer>>

\* NewGeneration, alias by alias.
NewGeneration ==
  LET a == CreateOrder[reindexer.n] IN
  /\ reindexer.pc = "create"
  /\ CreateIndex(a, NextGeneration(a))
  /\ reindexer' = [reindexer EXCEPT !.made = @ \cup {<<a, NextGeneration(a)>>},
                                    !.n = IF @ = 2 THEN 1 ELSE 2, !.pc = IF reindexer.n = 2 THEN "read" ELSE @]
  /\ UNCHANGED <<track, feed, aliasOf, consumer, missed>>

\* trackDoc, versioned by the row's updatedAt.
RebuildDoc(row) == row

\* Rebuild walks the albums and reads their tracks ...
RebuildRead ==
  /\ CommandStep("read", [reindexer EXCEPT !.pc = "flush", !.pending = IF track.on THEN RebuildDoc(track) ELSE NoDoc])
  /\ UNCHANGED <<track, feed, aliasOf, indexDocs, consumer, missed>>
\* ... and writes them in batches to the new index, which is then refreshed.
RebuildFlush ==
  LET i == CHOOSE j \in reindexer.made : j[1] = "tracks" IN
  /\ CommandStep("flush", [reindexer EXCEPT !.pc = "swap"])
  /\ indexDocs' = [indexDocs EXCEPT ![i] = BulkWrite(@, reindexer.pending)]
  /\ UNCHANGED <<track, feed, aliasOf, consumer, missed>>

\* Mutant of Promote: an alias leaves the old index before it has the new one.
PromoteRemoveFirst ==
  LET a == SwapOrder[reindexer.n]
      new == {j[2] : j \in {i \in reindexer.made : i[1] = a}} IN
  /\ reindexer.pc = "swap"
  /\ IF aliasOf[a] = reindexer.before[a] THEN aliasOf' = [aliasOf EXCEPT ![a] = {}] /\ UNCHANGED reindexer
     ELSE /\ aliasOf' = [aliasOf EXCEPT ![a] = new]
          /\ reindexer' = [reindexer EXCEPT !.n = IF @ = 2 THEN 1 ELSE 2, !.pc = IF reindexer.n = 2 THEN "drop" ELSE @]
  /\ UNCHANGED <<track, feed, indexDocs, consumer, missed>>
\* Promote: SwapAlias for every alias, each one atomic request ...
Promote ==
  LET a == SwapOrder[reindexer.n]
      new == {j[2] : j \in {i \in reindexer.made : i[1] = a}} IN
  /\ reindexer.pc = "swap"
  /\ aliasOf' = [aliasOf EXCEPT ![a] = new]
  /\ reindexer' = [reindexer EXCEPT !.n = IF @ = 2 THEN 1 ELSE 2, !.pc = IF reindexer.n = 2 THEN "drop" ELSE @]
  /\ UNCHANGED <<track, feed, indexDocs, consumer, missed>>
\* ... and then the old indices are dropped.
PromoteDrop ==
  LET a == SwapOrder[reindexer.n] IN
  /\ reindexer.pc = "drop"
  /\ DeleteIndex({<<a, g>> : g \in reindexer.before[a]})
  /\ reindexer' = IF reindexer.n = 2 THEN [NotRunning EXCEPT !.alone = reindexer.alone]
                                     ELSE [reindexer EXCEPT !.n = 2]
  /\ UNCHANGED <<track, feed, aliasOf, consumer, missed>>

\* A request of Rebuild or Refresh fails: Abandon drops the new indices.  One
\* of NewGeneration or Promote fails: nothing is taken back.
ReindexFails ==
  /\ reindexer.pc # "idle"
  /\ IF reindexer.pc \in {"read", "flush"} THEN DeleteIndex(reindexer.made) ELSE UNCHANGED indexDocs
  /\ reindexer' = NotRunning
  /\ UNCHANGED <<track, feed, aliasOf, consumer, missed>>

\* The process is killed: the new indices stay.
ReindexKilled ==
  /\ reindexer.pc # "idle" /\ reindexer' = NotRunning
  /\ UNCHANGED <<track, feed, aliasOf, indexDocs, consumer, missed>>

RebuildNext ==
  \/ \E on \in BOOLEAN : TrackUpdate(on)
  \/ \E at \in 0..MaxUpdates : StartConsumer(at)
  \/ StopConsumer \/ TrackChanged \/ TrackChangeFails \/ TrackDeadLettered
  \/ \E a \in SearchAliases : EnsureIndex(a)
  \/ StartReindex \/ NewGeneration \/ RebuildRead \/ RebuildFlush \/ Promote \/ PromoteDrop
  \/ ReindexFails \/ ReindexKilled

RebuildSpec == RebuildInit /\ [][RebuildNext]_rebuildVars

-----------------------------------------------------------------------------
\* "readers never see an empty or doubled alias": once it is there an alias
\* names one index that exists, at every step of a reindex that succeeds,
\* fails or is killed.
AliasAlwaysReads ==
  \A a \in SearchAliases : aliasOf[a] # {} => Cardinality(aliasOf[a]) = 1 /\ \A g \in aliasOf[a] : <<a, g>> \in DOMAIN indexDocs
AliasNeverLost == [][\A a \in SearchAliases : aliasOf[a] # {} => aliasOf'[a] # {}]_rebuildVars

\* "run it with the consumer stopped, for an exact result": a reindex (the one
\* that ended last) nobody disturbed, and the events consumed since, from an
\* offset however old, give the document of the row, unless the last of them
\* was dead-lettered.
ExactAfterReindex ==
  reindexer.pc = "idle" /\ reindexer.alone /\ ~missed /\ consumer.at = Len(feed) =>
    LET doc == indexDocs[<<"tracks", CHOOSE g \in aliasOf["tracks"] : TRUE>>]
    IN doc.on = track.on /\ (doc.on => doc.v = track.v)

\* A rebuild never takes search away, and one that is not disturbed is exact.
RebuildSafe == [](AliasAlwaysReads /\ ExactAfterReindex) /\ AliasNeverLost
=============================================================================
