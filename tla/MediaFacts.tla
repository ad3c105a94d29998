------------------------------ MODULE MediaFacts ------------------------------
(***************************************************************************)
(* The metadata and the audio-analysis workers: each reads every uploaded  *)
(* master once and stores and announces what it measured.  A record may be *)
(* handled by two processes at once (a rebalance), again after a failure   *)
(* or a crash, and is dead-lettered when its handler keeps failing.        *)
(***************************************************************************)
EXTENDS Integers, FiniteSets, Sequences

CONSTANTS Masters,        \* uploads announced by track.uploaded
          MasterKind,     \* of each: "audio", "broken" (undecodable), "missing"
          Deliveries,     \* handlers at work
          MaxFacts        \* bound: times a worker measures a file

VARIABLES facts,       \* rows by worker and upload: 0, or the measurement stored
          factEvents,  \* rows of the two outboxes
          delivery,    \* each handler
          measured,    \* measurements made
          ended,       \* history: <<worker, upload>> whose record was committed
          cut,         \* history: <<worker, upload>> whose reading was cut short by storage
          deadFacts    \* history: <<worker, upload>> of a good master, dead-lettered

factsVars == <<facts, factEvents, delivery, measured, ended, cut, deadFacts>>

FactWorkers == {"metadata", "features"}
Works == FactWorkers \X Masters
NoDelivery == [pc |-> "idle", work |-> <<>>, probe |-> 0]

FactsInit ==
  /\ facts = [w \in Works |-> 0]
  /\ factEvents = <<>>
  /\ delivery = [d \in Deliveries |-> NoDelivery]
  /\ measured = 0 /\ ended = {} /\ cut = {} /\ deadFacts = {}

FactStep(d, from, rec) == delivery[d].pc = from /\ delivery' = [delivery EXCEPT ![d] = rec]
At(d, pc) == [delivery[d] EXCEPT !.pc = pc]

\* The consumer hands the record to the worker's handler.
MetadataRecord(d, u) ==
  /\ FactStep(d, "idle", [NoDelivery EXCEPT !.pc = "exists", !.work = <<"metadata", u>>])
  /\ UNCHANGED <<facts, factEvents, measured, ended, cut, deadFacts>>
FeaturesRecord(d, u) ==
  /\ FactStep(d, "idle", [NoDelivery EXCEPT !.pc = "exists", !.work = <<"features", u>>])
  /\ UNCHANGED <<facts, factEvents, measured, ended, cut, deadFacts>>

\* The consumer is done with the record, whose offset is committed.
Commit(d) == FactStep(d, delivery[d].pc, NoDelivery) /\ ended' = ended \cup {delivery[d].work}

\* The work at hand, if its master could be measured.
OfGoodMaster(d) == {w \in {delivery[d].work} : MasterKind[w[2]] = "audio"}

\* Exists: an upload that is stored is a duplicate.
MetadataExists(w) == w[1] = "metadata" /\ facts[w] # 0
FeaturesExist(w) == w[1] = "features" /\ facts[w] # 0
CheckStored(d) ==
  /\ delivery[d].pc = "exists"
  /\ IF MetadataExists(delivery[d].work) \/ FeaturesExist(delivery[d].work)
     THEN Commit(d)
     ELSE FactStep(d, "exists", At(d, "source")) /\ UNCHANGED ended
  /\ UNCHANGED <<facts, factEvents, measured, cut, deadFacts>>

\* Source.URL: a missing master is skipped.
SourceURL(d) ==
  /\ delivery[d].pc = "source"
  /\ IF MasterKind[delivery[d].work[2]] = "missing" THEN Commit(d)
     ELSE FactStep(d, "source", At(d, "probe")) /\ UNCHANGED ended
  /\ UNCHANGED <<facts, factEvents, measured, cut, deadFacts>>

Measure(d, worker) ==
  /\ delivery[d].pc = "probe" /\ delivery[d].work[1] = worker
  /\ MasterKind[delivery[d].work[2]] = "audio"
  /\ measured < MaxFacts
  /\ FactStep(d, "probe", [At(d, "save") EXCEPT !.probe = measured + 1])
  /\ measured' = measured + 1
  /\ UNCHANGED <<facts, factEvents, ended, cut, deadFacts>>
\* Probe and Analyze of a file they can decode; Validate finds nothing wrong.
Probe(d) == Measure(d, "metadata")
Analyze(d) == Measure(d, "features")

\* ffprobe or ffmpeg exits with an error: the file is undecodable and skipped.
\* The program reads the master over HTTP and exits with an error, too, when
\* storage stops answering.
Undecodable(d) ==
  /\ delivery[d].pc = "probe"
  /\ Commit(d)
  /\ cut' = cut \cup OfGoodMaster(d)
  /\ UNCHANGED <<facts, factEvents, measured, deadFacts>>

\* Mutant of SaveFacts: the event is written whatever the insert did.
SaveFactsAlways(d) ==
  LET w == delivery[d].work IN
  /\ delivery[d].pc = "save"
  /\ facts' = [facts EXCEPT ![w] = IF @ = 0 THEN delivery[d].probe ELSE @]
  /\ factEvents' = Append(factEvents, [work |-> w, probe |-> delivery[d].probe])
  /\ Commit(d) /\ UNCHANGED <<measured, cut, deadFacts>>

\* Save: INSERT ... ON CONFLICT DO NOTHING and the event, in one transaction.
SaveFacts(d) ==
  LET w == delivery[d].work
      inserted == facts[w] = 0 IN
  /\ delivery[d].pc = "save"
  /\ facts' = IF inserted THEN [facts EXCEPT ![w] = delivery[d].probe] ELSE facts
  /\ factEvents' = IF inserted THEN Append(factEvents, [work |-> w, probe |-> delivery[d].probe]) ELSE factEvents
  /\ Commit(d) /\ UNCHANGED <<measured, cut, deadFacts>>
SaveMetadata(d) == delivery[d].pc = "save" /\ delivery[d].work[1] = "metadata" /\ SaveFacts(d)
SaveAnalysis(d) == delivery[d].pc = "save" /\ delivery[d].work[1] = "features" /\ SaveFacts(d)

\* The handler returns an error: the database failed, storage did not answer,
\* the job's deadline passed.  While retries are left, and when the process
\* dies or cannot reach the dead-letter topic, the record comes again.
HandleFails(d) ==
  /\ delivery[d].pc # "idle"
  /\ FactStep(d, delivery[d].pc, NoDelivery)
  /\ UNCHANGED <<facts, factEvents, measured, ended, cut, deadFacts>>

\* The error is permanent (an invalid job) or the last retry failed: the record
\* goes to the dead-letter topic and its offset is committed like any other.
DeadLetterFacts(d) ==
  /\ delivery[d].pc # "idle"
  /\ Commit(d)
  /\ deadFacts' = deadFacts \cup OfGoodMaster(d)
  /\ UNCHANGED <<facts, factEvents, measured, cut>>

\* Extractor.Handle and Service.Handle after the check.
MetadataHandle(d) == CheckStored(d) \/ SourceURL(d) \/ Probe(d) \/ Undecodable(d) \/ SaveMetadata(d)
FeaturesHandle(d) == Analyze(d) \/ SaveAnalysis(d)

FactsNext ==
  \E d \in Deliveries :
    \/ \E u \in Masters : MetadataRecord(d, u) \/ FeaturesRecord(d, u)
    \/ MetadataHandle(d) \/ FeaturesHandle(d) \/ HandleFails(d) \/ DeadLetterFacts(d)

FactsSpec == FactsInit /\ [][FactsNext]_factsVars

-----------------------------------------------------------------------------
EventsOf(w) == {i \in 1..Len(factEvents) : factEvents[i].work = w}

\* What is announced is what is stored: one event for each row, with the
\* measurement of the row, although two deliveries measured the file at once.
FactsAnnouncedOnce ==
  \A w \in Works :
    IF facts[w] = 0 THEN EventsOf(w) = {}
    ELSE \E i \in 1..Len(factEvents) : EventsOf(w) = {i} /\ factEvents[i].probe = facts[w]

\* A record is committed only when its master's facts are stored, the master
\* has none, storage broke off the reading, or the record was dead-lettered.
CommittedHasFacts ==
  \A w \in ended : MasterKind[w[2]] = "audio" => facts[w] # 0 \/ w \in cut \cup deadFacts

\* The metadata and analysis of a master are stored before its record is
\* committed, unless it was given up, and announced as they are stored, once.
FactsExact == FactsAnnouncedOnce /\ CommittedHasFacts
=============================================================================
