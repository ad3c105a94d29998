------------------------------ MODULE WebPlayer ------------------------------
(***************************************************************************)
(* The web player: the store holds what the listener wants, the controller *)
(* gets a stream grant for the current track and drives one audio element, *)
(* and the reporter tells the Playback Service what was played.  A click,  *)
(* an event of the element or the answer of Stream Authorization is one    *)
(* JavaScript task: what its callbacks do to the state is composed here,   *)
(* s being the state so far.  Volume, the spinner and the duration shown   *)
(* are left out, and of the position only whether it is past the restart   *)
(* threshold.                                                              *)
(***************************************************************************)
EXTENDS Integers, Sequences, FiniteSets, FiniteSetsExt

CONSTANTS Queue,        \* whether each track of the queue is available
          MaxPlays,     \* bound: tracks started
          MaxRenewals   \* bound: grants renewed

ASSUME PlayerAssumption == Queue \in Seq(BOOLEAN) /\ MaxPlays \in Nat /\ MaxRenewals \in Nat

VARIABLE app   \* the store, the audio element, the grant, the calls in flight,
               \* the playback being reported, and what was reported

Silent == [load |-> 0, paused |-> TRUE, ok |-> TRUE, starting |-> FALSE, rejected |-> FALSE]

NewPlayer ==
  [index |-> 0, load |-> 0, playing |-> FALSE, past |-> FALSE, repeat |-> "off", shuffle |-> FALSE,
   audio |-> Silent, grant |-> [load |-> 0, expired |-> FALSE], calls |-> {}, renewals |-> 0,
   playback |-> [load |-> 0, started |-> FALSE, done |-> FALSE],
   reports |-> [l \in 1..MaxPlays |-> <<>>], failed |-> {}, ended |-> {}]

PlayerInit == app = NewPlayer

-----------------------------------------------------------------------------
(* HtmlAudioEngine.                                                          *)

\* play(): without a source nothing; one that is broken rejects later.
EnginePlay(s) ==
  IF s.audio.load = 0 THEN s
  ELSE [s EXCEPT !.audio.paused = FALSE, !.audio.starting = TRUE, !.audio.rejected = @ \/ ~s.audio.ok]
EnginePause(s) == [s EXCEPT !.audio.paused = TRUE, !.audio.starting = FALSE]
\* load(): the element is paused and forgets the events of the old source, but
\* not a rejection of play() that is on its way.
EngineLoad(s, load) == [s EXCEPT !.audio = [Silent EXCEPT !.load = load, !.rejected = s.audio.rejected]]

(* The playback reporter.                                                    *)

Send(s, type) == [s EXCEPT !.reports[s.playback.load] = Append(@, type)]

\* begin: the playback that is replaced was skipped, unless it is done.
Begin(s) ==
  LET r == IF s.playback.started /\ ~s.playback.done THEN Send(s, "skipped") ELSE s
  IN [r EXCEPT !.playback = [load |-> s.load, started |-> FALSE, done |-> FALSE]]

\* Its listener on the element; it looks only whether the store has moved on.
Heard(s, event) ==
  LET c == s.playback IN
  IF c.load = 0 \/ c.load # s.load THEN s
  ELSE CASE event = "playing" /\ ~c.started -> [Send(s, "started") EXCEPT !.playback.started = TRUE]
         [] event = "ended" /\ c.started /\ ~c.done -> [Send(s, "finished") EXCEPT !.playback.done = TRUE]
         [] OTHER -> s

-----------------------------------------------------------------------------
(* The store, and the controller that is subscribed to it.                   *)

\* isPlaying is set; the controller tells the engine when it changed.
SetPlaying(s, v) ==
  LET t == [s EXCEPT !.playing = v]
  IN IF v = s.playing THEN t ELSE IF v THEN EnginePlay(t) ELSE EnginePause(t)

\* startAt: the reporter begins a playback, the controller asks for a grant.
StartAt(s, i) ==
  LET t == [s EXCEPT !.index = i, !.load = @ + 1, !.playing = TRUE, !.past = FALSE]
  IN [Begin(t) EXCEPT !.calls = @ \cup {[kind |-> "load", load |-> t.load, n |-> 0]}]

FindPlayable(from, step, wrap) ==
  LET n == Len(Queue)
      idx(i) == IF wrap THEN ((from + step * i - 1 + n) % n) + 1 ELSE from + step * i
      hits == {i \in 1..n : idx(i) \in 1..n /\ Queue[idx(i)]}
  IN IF hits = {} THEN 0 ELSE idx(Min(hits))

\* advance: where it may go; 0 is the end of the queue.
NextIndexes(s, auto) ==
  IF auto /\ s.repeat = "one" THEN {s.index}
  ELSE IF s.shuffle /\ Len(Queue) > 1
       THEN LET others == {i \in 1..Len(Queue) : i # s.index /\ Queue[i]}
            IN IF others = {} THEN {0} ELSE others
       ELSE {FindPlayable(s.index, 1, s.repeat = "all")}
Advance(s, auto) ==
  {IF i = 0 THEN [SetPlaying(s, FALSE) EXCEPT !.past = FALSE] ELSE StartAt(s, i) : i \in NextIndexes(s, auto)}

EngineError(s) == SetPlaying(s, FALSE)

\* A media error: an expired grant is renewed, else it is an error.
MediaError(s) ==
  IF s.index # 0 /\ s.grant.load = s.load /\ s.grant.expired
  THEN [s EXCEPT !.calls = @ \cup {[kind |-> "renew", load |-> s.load, n |-> s.renewals]}, !.renewals = @ + 1]
  ELSE EngineError(s)

-----------------------------------------------------------------------------
(* The listener.                                                             *)
InBounds(s) == s.load <= MaxPlays /\ s.renewals <= MaxRenewals
Does(s) == app' = s /\ InBounds(s)

PlayQueue(start) ==
  LET first == IF Queue[start] THEN start ELSE FindPlayable(start, 1, TRUE)
  IN first # 0 /\ Does(StartAt(app, first))
Play == app.index # 0 /\ Does(SetPlaying(app, TRUE))
Pause == Does(SetPlaying(app, FALSE))
NextTrack == app.index # 0 /\ \E s \in Advance(app, FALSE) : Does(s)
Previous ==
  LET i == FindPlayable(app.index, -1, app.repeat = "all")
  IN app.index # 0 /\ Does(IF app.past \/ i = 0 THEN [app EXCEPT !.past = FALSE] ELSE StartAt(app, i))

ToggleShuffle == Does([app EXCEPT !.shuffle = ~@])
CycleRepeat ==
  Does([app EXCEPT !.repeat = CASE @ = "off" -> "all" [] @ = "all" -> "one" [] OTHER -> "off"])

(* The audio element.                                                        *)
Audible == ~app.audio.paused /\ app.audio.ok

\* Also after a stall.
Playing == Audible /\ Does([Heard(app, "playing") EXCEPT !.audio.starting = FALSE])

TimePasses == Audible /\ ~app.audio.starting /\ Does([app EXCEPT !.past = TRUE])

\* The end of the source: the reporter was bound first.
Ended ==
  LET a == [app EXCEPT !.audio.paused = TRUE,
                       !.ended = IF app.audio.load = app.load THEN @ \cup {app.load} ELSE @]
  IN /\ Audible /\ ~app.audio.starting
     /\ \E s \in Advance(Heard(a, "ended"), TRUE) : Does(s)

\* The source cannot be read any more, or not decoded: a play() that waits is
\* rejected, too.
SourceFails ==
  /\ app.audio.load # 0 /\ app.audio.ok
  /\ Does(MediaError([app EXCEPT !.audio.ok = FALSE, !.audio.rejected = @ \/ app.audio.starting]))

PlayRejected ==
  /\ app.audio.rejected
  /\ Does(MediaError([app EXCEPT !.audio.rejected = FALSE]))

\* The autoplay policy.
PlayBlocked ==
  /\ app.audio.starting /\ app.audio.ok
  /\ Does(MediaError([app EXCEPT !.audio.paused = TRUE, !.audio.starting = FALSE]))

(* Stream Authorization.                                                     *)
GrantExpires ==
  app.grant.load # 0 /\ Does([app EXCEPT !.grant.expired = TRUE])

\* Mutant of Resolved: whatever was resolved is loaded.
ResolvedLate(c) ==
  LET t == [app EXCEPT !.calls = @ \ {c}]
      g == EngineLoad([t EXCEPT !.grant = [load |-> c.load, expired |-> FALSE]], c.load)
  IN c \in app.calls /\ Does(IF t.playing THEN EnginePlay(g) ELSE g)

\* load and renew after the await: a newer track may have been requested.
Resolved(c) ==
  LET t == [app EXCEPT !.calls = @ \ {c}]
      g == EngineLoad([t EXCEPT !.grant = [load |-> c.load, expired |-> FALSE]], c.load)
  IN /\ c \in app.calls
     /\ Does(IF app.load # c.load THEN t ELSE IF t.playing THEN EnginePlay(g) ELSE g)

ResolveFails(c) ==
  LET t == [app EXCEPT !.calls = @ \ {c}, !.failed = @ \cup {c.load}]
  IN c \in app.calls /\ Does(IF app.load # c.load THEN t ELSE EngineError(t))

PlayerNext ==
  \/ \E i \in 1..Len(Queue) : PlayQueue(i)
  \/ Play \/ Pause \/ NextTrack \/ Previous \/ ToggleShuffle \/ CycleRepeat
  \/ Playing \/ TimePasses \/ Ended \/ SourceFails \/ PlayRejected \/ PlayBlocked
  \/ GrantExpires \/ \E c \in app.calls : Resolved(c) \/ ResolveFails(c)

PlayerSpec == PlayerInit /\ [][PlayerNext]_app

-----------------------------------------------------------------------------
Authorizing == \E c \in app.calls : c.load = app.load

\* The element never plays against the listener's intent: not after a pause
\* made while a grant was being fetched or renewed, nor after an error.
QuietWhenPaused == ~app.audio.paused => app.playing

\* What is heard is the current track, although grants may arrive in any order
\* and after further clicks: another one plays only while the current one is
\* being authorized, or after that failed.
RightTrackPlays ==
  ~app.audio.paused /\ app.audio.load # app.load => Authorizing \/ app.load \in app.failed

\* A player that shows "playing" plays, or is about to: its track is being
\* authorized, an error is on its way, or authorizing it failed.
PlaysWhenAsked ==
  app.playing => ~app.audio.paused \/ Authorizing \/ app.audio.rejected \/ app.load \in app.failed

\* Every playback is reported started at most once, then ended at most once,
\* and one whose audio came to its end is reported finished, not skipped.
ReportedOnce ==
  \A l \in 1..MaxPlays :
    /\ app.reports[l] \in {<<>>, <<"started">>, <<"started", "finished">>, <<"started", "skipped">>}
    /\ l \in app.ended => app.reports[l] = <<"started", "finished">>

\* The player does what the listener asked last, and reports what was heard.
PlayerObeys == QuietWhenPaused /\ RightTrackPlays /\ PlaysWhenAsked /\ ReportedOnce
=============================================================================
