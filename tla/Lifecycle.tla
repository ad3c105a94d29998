------------------------------ MODULE Lifecycle ------------------------------
(***************************************************************************)
(* How the 19 programs (cmd/*/main.go) start, serve and stop: resources    *)
(* are opened in order and pushed on a shutdown.Stack, background loops    *)
(* are started, the HTTP server runs until the context is cancelled, the   *)
(* loops are joined and the stack is closed in reverse.  A program is its  *)
(* list of boot steps and the loops it joins; the steps are common.        *)
(***************************************************************************)
EXTENDS Naturals, SequencesExt

CONSTANT MaxInFlight   \* HTTP requests running at a time

ASSUME LifecycleAssumption == MaxInFlight \in Nat

VARIABLES program,    \* the program that runs
          off,        \* the optional parts its configuration turns off
          stage,      \* where run is
          at,         \* the next boot step, then the next join
          stack,      \* shutdown.Stack
          closing,    \* what Close has closed, first to last
          running,    \* the background loops that run
          joinable,   \* loops whose done channel yields a value
          asked,      \* the context is cancelled
          drained,    \* health.Checker.draining
          inFlight,   \* HTTP requests running
          failure     \* the error run returns: none, boot, server, consumer

lifecycleVars == <<program, off, stage, at, stack, closing, running, joinable, asked,
                   drained, inFlight, failure>>
runtimeVars == <<stage, at, stack, closing, running, joinable, asked, drained, inFlight, failure>>

-----------------------------------------------------------------------------
\* Boot steps: a call that may fail and leaves something to close, one that
\* leaves nothing, one that may also be the whole command (migrate, ensure,
\* reindex, build), and a loop started in a goroutine.
Opens(r) == [does |-> "open", what |-> r, needs |-> "always"]
Checks == [does |-> "check", what |-> "", needs |-> "always"]
Commands == [does |-> "command", what |-> "", needs |-> "always"]
Starts(l) == [does |-> "start", what |-> l, needs |-> "always"]
If(part, step) == [step EXCEPT !.needs = part]

Database == <<Opens("tracing"), Opens("postgres"), Commands>>
Relayed == <<If("kafka", Opens("producer")), If("kafka", Checks), If("kafka", Starts("relay"))>>

Serves(boot, join, optional) ==
  [boot |-> boot, join |-> join, optional |-> optional, consumerStops |-> FALSE]

Playlist_main == Serves(Database \o <<Opens("redis")>> \o Relayed, <<"relay">>, {"kafka"})
Social_main == Serves(Database \o <<Opens("redis")>> \o Relayed, <<"relay">>, {"kafka"})
Library_main == Serves(Database \o <<Opens("redis")>> \o Relayed, <<"relay">>, {"kafka"})

\* Auth parses or makes its signing key, and may refuse its settings.
Auth_main ==
  Serves(Database \o <<Opens("redis"), If("kafka", Opens("producer")), If("kafka", Checks),
                       Checks, If("kafka", Starts("relay"))>>, <<"relay">>, {"kafka"})

\* Media Ingest builds the object store client first.
MediaIngest_main ==
  Serves(Database \o <<Opens("redis"), Checks>> \o Relayed, <<"relay">>, {"kafka"})

\* Catalog opens Redis only for its cache, after the producer.
Catalog_main ==
  Serves(Database \o <<If("kafka", Opens("producer")), If("kafka", Checks),
                       If("cache", Opens("redis")), If("kafka", Checks),
                       If("kafka", Starts("consumer")), If("kafka", Starts("relay"))>>,
         <<"relay", "consumer">>, {"kafka", "cache"})

UserProfile_main ==
  Serves(Database \o <<Opens("redis"), If("kafka", Opens("producer")), If("kafka", Checks),
                       If("kafka", Checks), If("kafka", Starts("consumer")),
                       If("kafka", Starts("relay"))>>,
         <<"relay", "consumer">>, {"kafka"})

History_main ==
  Serves(Database \o <<Opens("redis"), If("kafka", Checks), If("kafka", Starts("consumer"))>>,
         <<"consumer">>, {"kafka"})

Playback_main ==
  Serves(<<Opens("tracing"), Opens("redis"), If("kafka", Opens("producer"))>>, <<>>, {"kafka"})

Bff_main == Serves(<<Opens("tracing")>>, <<>>, {})
Search_main == Serves(<<Opens("tracing")>>, <<>>, {})
Recommendation_main == Serves(<<Opens("tracing"), Opens("redis")>>, <<>>, {})
StreamAuth_main == Serves(<<Opens("tracing"), Opens("redis"), Checks>>, <<>>, {})

\* The metadata worker, and below the audio analysis worker, look for their
\* tool, build the object store client and join the consumer first.
Metadata_main ==
  Serves(Database \o <<Checks, Checks, Opens("producer"), Checks, Checks,
                       Starts("consumer"), Starts("relay")>>, <<"consumer", "relay">>, {})
AudioAnalysis_main ==
  Serves(Database \o <<Checks, Checks, Opens("producer"), Checks, Checks,
                       Starts("consumer"), Starts("relay")>>, <<"consumer", "relay">>, {})

RecommendationWorker_main ==
  Serves(Database \o <<Opens("redis"), Commands, Checks, Starts("consumer"), Starts("builder")>>,
         <<"builder", "consumer">>, {})

SearchIndexer_main ==
  Serves(<<Opens("tracing"), Commands, Checks, Starts("consumer")>>, <<"consumer">>, {})

Transcoder_main ==
  Serves(<<Opens("tracing"), Checks, Checks, Opens("producer"), Checks, Starts("consumer")>>,
         <<"consumer">>, {})

\* In Analytics a consumer that gave up cancels the context of the process.
Analytics_serve ==
  [Serves(<<Opens("tracing"), Checks, Starts("consumer"), Starts("aggregator")>>,
          <<"aggregator", "consumer">>, {})
     EXCEPT !.consumerStops = TRUE]

Programs == {Playlist_main, Social_main, Library_main, Auth_main, MediaIngest_main,
             Catalog_main, UserProfile_main, History_main, Playback_main, Bff_main,
             Search_main, Recommendation_main, StreamAuth_main, Metadata_main,
             AudioAnalysis_main, RecommendationWorker_main, SearchIndexer_main,
             Transcoder_main, Analytics_serve}

Stages == {"boot", "serving", "stopping", "joining", "closing", "exited"}

LifecycleInit ==
  /\ program \in Programs
  /\ off \in SUBSET program.optional
  /\ stage = "boot" /\ at = 1
  /\ stack = <<>> /\ closing = <<>>
  /\ running = {} /\ joinable = {}
  /\ asked = FALSE /\ drained = FALSE
  /\ inFlight = 0 /\ failure = "none"

-----------------------------------------------------------------------------
\* Booting.
BootStep == program.boot[at]
Booting == stage = "boot" /\ at <= Len(program.boot)
Enabled == BootStep.needs \notin off

\* shutdown.Stack.Add: a deferred Close will find the resource.
Open ==
  /\ Booting /\ Enabled /\ BootStep.does = "open"
  /\ stack' = Append(stack, BootStep.what)
  /\ at' = at + 1
  /\ UNCHANGED <<stage, closing, running, joinable, asked, drained, inFlight, failure>>

Check ==
  /\ Booting /\ Enabled /\ BootStep.does \in {"check", "command"}
  /\ at' = at + 1
  /\ UNCHANGED <<stage, stack, closing, running, joinable, asked, drained, inFlight, failure>>

\* go func() { done <- loop.Run(ctx) }()
Start ==
  /\ Booting /\ Enabled /\ BootStep.does = "start"
  /\ running' = running \cup {BootStep.what}
  /\ at' = at + 1
  /\ UNCHANGED <<stage, stack, closing, joinable, asked, drained, inFlight, failure>>

\* Mutant of Skip: the channel of a loop that is turned off is never closed.
SkipOnly ==
  /\ Booting /\ ~ Enabled
  /\ at' = at + 1
  /\ UNCHANGED <<stage, stack, closing, running, joinable, asked, drained, inFlight, failure>>

\* A part that is turned off: its done channel is closed, or filled at once.
Skip ==
  /\ Booting /\ ~ Enabled
  /\ joinable' = joinable \cup ({BootStep.what} \cap {"consumer", "relay"})
  /\ at' = at + 1
  /\ UNCHANGED <<stage, stack, closing, running, asked, drained, inFlight, failure>>

\* run returns an error: the deferred calls run.  Analytics defers cancelRun
\* after the closers, so it comes before them.
Return(err) ==
  /\ stage' = "closing"
  /\ failure' = err
  /\ asked' = (asked \/ program.consumerStops)
  /\ UNCHANGED <<at, stack, closing, running, joinable, drained, inFlight>>

BootFails == Booting /\ Enabled /\ BootStep.does # "start" /\ Return("boot")

\* A one-shot command returns when it is done.
CommandDone == Booting /\ BootStep.does = "command" /\ Return("none")

-----------------------------------------------------------------------------
\* httpserver.Server.Run.
Listen ==
  /\ stage = "boot" /\ at > Len(program.boot)
  /\ stage' = "serving"
  /\ UNCHANGED <<at, stack, closing, running, joinable, asked, drained, inFlight, failure>>

\* The address is taken, or Accept fails while serving.
ServerFails ==
  /\ at > Len(program.boot) /\ stage \in {"boot", "serving"}
  /\ Return("server")

Request ==
  /\ stage = "serving"
  /\ inFlight < MaxInFlight
  /\ inFlight' = inFlight + 1
  /\ UNCHANGED <<stage, at, stack, closing, running, joinable, asked, drained, failure>>

Answer ==
  /\ inFlight > 0
  /\ inFlight' = inFlight - 1
  /\ UNCHANGED <<stage, at, stack, closing, running, joinable, asked, drained, failure>>

\* SIGINT or SIGTERM.
Signal ==
  /\ ~ asked /\ stage # "exited"
  /\ asked' = TRUE
  /\ UNCHANGED <<stage, at, stack, closing, running, joinable, drained, inFlight, failure>>

\* The goroutine that waits for the context: checks.Drain(), ...
Drain ==
  /\ asked /\ ~ drained
  /\ stage \in {"boot", "serving"} /\ at > Len(program.boot)
  /\ drained' = TRUE
  /\ UNCHANGED <<stage, at, stack, closing, running, joinable, asked, inFlight, failure>>

\* ... then cancelServe(): Run stops listening and calls Shutdown.
StopServing ==
  /\ stage = "serving" /\ drained
  /\ stage' = "stopping"
  /\ UNCHANGED <<at, stack, closing, running, joinable, asked, drained, inFlight, failure>>

\* Mutant of ShutdownDone: the server is closed without waiting.
CloseServer ==
  /\ stage = "stopping"
  /\ stage' = "joining" /\ at' = 1
  /\ UNCHANGED <<stack, closing, running, joinable, asked, drained, inFlight, failure>>

\* Shutdown returns when no request runs, or with an error at its deadline.
ShutdownDone ==
  /\ stage = "stopping" /\ inFlight = 0
  /\ stage' = "joining" /\ at' = 1
  /\ UNCHANGED <<stack, closing, running, joinable, asked, drained, inFlight, failure>>

ShutdownTimeout == stage = "stopping" /\ inFlight > 0 /\ Return("server")

-----------------------------------------------------------------------------

\* A loop ends when its context is cancelled; a consumer also by itself, when
\* it gives up on a record.  The channel has room for the result.
LoopEnds(l) ==
  /\ l \in running
  /\ asked \/ l = "consumer"
  /\ running' = running \ {l}
  /\ joinable' = joinable \cup {l}
  /\ asked' = (asked \/ (l = "consumer" /\ program.consumerStops))
  /\ UNCHANGED <<stage, at, stack, closing, drained, inFlight, failure>>

\* The loops are joined in the program's order.
Join ==
  /\ stage = "joining" /\ at <= Len(program.join)
  /\ program.join[at] \in joinable
  /\ at' = at + 1
  /\ UNCHANGED <<stage, stack, closing, running, joinable, asked, drained, inFlight, failure>>

\* run returns; Analytics returns the error of its consumer, if it had one.
Joined ==
  /\ stage = "joining" /\ at > Len(program.join)
  /\ \/ Return("none")
     \/ program.consumerStops /\ Return("consumer")

\* Stack.Close, the next step: an error is logged and the rest closed too.
CloseNext ==
  /\ stage = "closing" /\ stack # <<>>
  /\ closing' = Append(closing, Last(stack))
  /\ stack' = Front(stack)
  /\ UNCHANGED <<stage, at, running, joinable, asked, drained, inFlight, failure>>

\* The process ends, and with it what still ran.
Exit ==
  /\ stage = "closing" /\ stack = <<>>
  /\ stage' = "exited"
  /\ running' = {} /\ inFlight' = 0
  /\ UNCHANGED <<at, stack, closing, joinable, asked, drained, failure>>

-----------------------------------------------------------------------------
Main ==
  \/ Open \/ Check \/ Start \/ Skip \/ BootFails \/ CommandDone
  \/ Listen \/ ServerFails \/ StopServing \/ ShutdownDone \/ ShutdownTimeout
  \/ Join \/ Joined \/ CloseNext \/ Exit

Loops == {"relay", "consumer", "builder", "aggregator"}

LifecycleNext ==
  /\ Main \/ Request \/ Answer \/ Signal \/ Drain \/ \E l \in Loops : LoopEnds(l)
  /\ UNCHANGED <<program, off>>

\* The main goroutine and the one that drains run; a cancelled loop returns.
\* Main has a fair step in "serving" only once it is drained: a server that
\* is not asked to stop serves for ever.
MainMoves == (stage # "serving" /\ Main) \/ StopServing

LifecycleSpec == LifecycleInit /\ [][LifecycleNext]_lifecycleVars

-----------------------------------------------------------------------------
LifecycleTypeOK ==
  /\ program \in Programs
  /\ off \subseteq program.optional
  /\ stage \in Stages
  /\ at \in Nat \ {0}
  /\ stage \in {"boot", "serving"} => at <= Len(program.boot) + 1
  /\ stage = "joining" => at <= Len(program.join) + 1
  /\ running \subseteq Loops /\ joinable \subseteq Loops
  /\ asked \in BOOLEAN /\ drained \in BOOLEAN
  /\ inFlight \in 0..MaxInFlight
  /\ failure \in {"none", "boot", "server", "consumer"}

\* The boot steps that open something, and the place of step k among them.
Openings == {k \in 1..Len(program.boot) : program.boot[k].does = "open" /\ program.boot[k].needs \notin off}
Rank(k) == Cardinality({j \in Openings : j <= k})

\* "Dependencies opened first are closed last" (shutdown.go): whatever step
\* run returned at, what it opened is closed in reverse, and all of it before
\* the process ends.
ClosedInReverse ==
  LET opened == stack \o Reverse(closing) IN
  /\ Len(opened) <= Cardinality(Openings)
  /\ \A k \in Openings : Rank(k) <= Len(opened) => opened[Rank(k)] = program.boot[k].what
  /\ stage = "exited" => stack = <<>>

\* Unless the HTTP server itself returned an error, nothing is closed while a
\* loop or a request that may use it still runs: no step that can fail comes
\* after the first loop is started, and the loops are joined first.
QuietClose ==
  closing # <<>> /\ failure # "server" => stage = "exited" \/ (running = {} /\ inFlight = 0)

\* A program that is asked to stop ends, whatever it was doing and whichever
\* of its parts are turned off: no join waits for a loop that never ran.
StopsWhenAsked == asked ~> stage = "exited"

\* "A consumer that gave up ... stops the whole process, so the orchestrator
\* restarts it" (analytics main.go).
DeadConsumerStops ==
  (program.consumerStops /\ "consumer" \in joinable) ~> stage = "exited"

\* What a program opened is closed in reverse, when nothing uses it any more.
OrderlyClose == ClosedInReverse /\ QuietClose

\* A program ends when it is told to, and when it is of no use without its
\* consumer.
ProgramsStop == StopsWhenAsked /\ DeadConsumerStops
=============================================================================
