------------------------------- MODULE Signals -------------------------------
(***************************************************************************)
(* Taste signals of the recommendation worker: likes from library.events,  *)
(* artist follows from social.events and audio features from media.events, *)
(* each applied unless a newer one is stored, whatever order, repetition   *)
(* or dead-letter redrive delivers them in.                                *)
(***************************************************************************)
EXTENDS Library

CONSTANTS OtherSignals   \* events of other services: [kind, on, at]

ASSUME SignalsAssumption == \A e \in OtherSignals : e.on \in BOOLEAN /\ e.at \in Nat

VARIABLES signal,        \* liked_tracks, liked_albums, followed_artists, track_features
          heard          \* signals delivered at least once

signalVars == <<signal, heard>>

SignalKeys == LikedItems \cup {<<"artist">>, <<"features">>}
NoSignal == [on |-> FALSE, at |-> 0]

SignalsInit == signal = [k \in SignalKeys |-> NoSignal] /\ heard = {}

\* like, follow and features decode their events; a follow of a user is skipped.
LikeOf(e) == [key |-> e.item, on |-> e.on, at |-> e.at]
FollowOf(e) == [key |-> <<"artist">>, on |-> e.on, at |-> e.at]
FeaturesOf(e) == [key |-> <<"features">>, on |-> e.on, at |-> e.at]
OtherOf(e) == IF e.kind = "follow" THEN FollowOf(e) ELSE FeaturesOf(e)

\* Mutant of SetSignal: the event delivered last wins.
SetSignalLast(old, s) == [on |-> s.on, at |-> s.at]
\* set: INSERT ... ON CONFLICT DO UPDATE ... WHERE excluded.changed_at >= changed_at.
SetSignal(old, s) == IF s.at >= old.at THEN [on |-> s.on, at |-> s.at] ELSE old
\* SaveFeatures: the same, by the master's uploadedAt.
SaveFeatures(old, s) == IF s.at >= old.at THEN [on |-> s.on, at |-> s.at] ELSE old

\* The handler: any event that was published, for the first time or again.
HandleSignal(s) ==
  /\ signal' = [signal EXCEPT ![s.key] = IF s.key = <<"features">> THEN SaveFeatures(@, s) ELSE SetSignal(@, s)]
  /\ heard' = heard \cup {s}

LikesNext ==
  \/ LibraryNext /\ UNCHANGED signalVars
  \/ (\E i \in 1..Len(libraryEvents) : HandleSignal(LikeOf(libraryEvents[i]))) /\ UNCHANGED libraryVars

OthersNext ==
  (\E e \in OtherSignals : e.kind # "user_follow" /\ HandleSignal(OtherOf(e))) /\ UNCHANGED libraryVars

SignalsSpec ==
  LibraryInit /\ SignalsInit /\ [][LikesNext \/ OthersNext]_<<libraryVars, signalVars>>

-----------------------------------------------------------------------------
HeardOf(k) == {s \in heard : s.key = k}

\* "the last event by time wins whatever the delivery order": what is stored is
\* one of the newest of the events that were delivered.
LastByTimeWins ==
  \A k \in SignalKeys :
    HeardOf(k) # {} => \E s \in HeardOf(k) : /\ signal[k] = [on |-> s.on, at |-> s.at]
                                             /\ \A o \in HeardOf(k) : o.at <= s.at

\* Every event of the item was delivered, and their times have the order of
\* the commits.
InOrder(x) ==
  /\ \A i \in ItemEvents(x) : LikeOf(libraryEvents[i]) \in heard
  /\ \A i, j \in ItemEvents(x) : i < j => libraryEvents[i].at < libraryEvents[j].at

\* Likes are the library: once its events are delivered, in any order and any
\* number of times, a listener likes an item exactly if it is saved, unless
\* requests for it overlapped so that their times contradict their commits.
LikesMatchLibrary == \A x \in LikedItems : InOrder(x) => signal[x].on = (saved[x] # 0)

\* The tastes the worker stores follow the events by their time, in whatever
\* order and however often they come.
TasteFollows == LastByTimeWins /\ LikesMatchLibrary
=============================================================================
