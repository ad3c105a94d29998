----------------------------- MODULE UserProfile -----------------------------
(***************************************************************************)
(* User Profile Service: user.registered creates a profile, at least once  *)
(* per account and under a username that may need a suffix; the owner      *)
(* changes it with PATCH /users/me, which reads the profile outside the    *)
(* transaction that writes it back.                                        *)
(*                                                                         *)
(* Username n is the derived name with its n-th suffix, 1 the name itself; *)
(* all accounts here have the same local part.  shown stands for the other *)
(* editable fields that profile.updated carries (display name, country and *)
(* language), bio is the one that it does not.                             *)
(***************************************************************************)
EXTENDS Integers, Sequences, SequencesExt

CONSTANTS Accounts,
          ProfileCalls,         \* event handlers and requests in flight
          MaxUsernameAttempts,
          Usernames,            \* 1..n, n >= MaxUsernameAttempts
          Texts,                \* what the other fields may be set to
          MaxProfileEvents      \* bound: events written

ASSUME ProfileAssumption ==
  /\ MaxUsernameAttempts \in Nat \ {0}
  /\ Usernames \subseteq Nat \ {0} /\ 1..MaxUsernameAttempts \subseteq Usernames

VARIABLES profile,         \* profile.profiles
          profileEvents,   \* rows written to profile.outbox, in commit order
          acked,           \* accounts whose user.registered was handled without an error
          call             \* what each handler or request is doing

profileVars == <<profile, profileEvents, acked, call>>

NoProfile == [name |-> 0, shown |-> "", bio |-> ""]
NoCall == [pc |-> "idle", op |-> "none", user |-> "", p |-> NoProfile, attempt |-> 0, status |-> 0]

ProfileTypeOK ==
  /\ \A u \in Accounts : profile[u].name \in Usernames \cup {0}
  /\ acked \subseteq Accounts
  /\ \A c \in ProfileCalls : /\ call[c].pc \in {"idle", "insert", "inserting", "update", "record", "answer"}
                             /\ call[c].attempt \in 0..MaxUsernameAttempts
                             /\ call[c].status \in {0, 200, 404, 409, 422, 500}
  /\ \A i \in 1..Len(profileEvents) : profileEvents[i].user \in Accounts /\ profileEvents[i].p.name # 0

ProfileInit ==
  /\ profile = [u \in Accounts |-> NoProfile]
  /\ profileEvents = <<>>
  /\ acked = {}
  /\ call = [c \in ProfileCalls |-> NoCall]

CallStep(c, from, rec) == call[c].pc = from /\ call' = [call EXCEPT ![c] = rec]
ProfilesUnchanged == UNCHANGED <<profile, profileEvents>>

\* An open transaction has the row of its user and the username it wrote.
InFlight(c, u, n) ==
  \E o \in ProfileCalls \ {c} : call[o].pc = "record" /\ (call[o].user = u \/ call[o].p.name = n)
\* profiles_username_key, on what is committed.
Taken(u, n) == \E v \in Accounts \ {u} : profile[v].name = n

-----------------------------------------------------------------------------
(* user.registered                                                          *)

FromRegistration == [NoProfile EXCEPT !.name = 1]
Suffixed(p, attempt) == [p EXCEPT !.name = attempt]

\* The event is delivered, again after a rebalance or a failed commit; other
\* types are skipped.  CreateForNewUser starts its first attempt.
UserRegistered(c, u) ==
  /\ CallStep(c, "idle", [NoCall EXCEPT !.pc = "insert", !.op = "register", !.user = u,
                                        !.p = FromRegistration, !.attempt = 1])
  /\ ProfilesUnchanged /\ UNCHANGED acked

\* The handler returns: nil is acknowledged; an error is retried and in the
\* end sent to the dead letter queue.
Acknowledge(c, err) ==
  /\ acked' = IF err = "nil" THEN acked \cup {call[c].user} ELSE acked
  /\ CallStep(c, call[c].pc, NoCall)

\* ON CONFLICT (user_id) DO NOTHING: a committed row of the user ends it.
CreateIfAbsent(c) ==
  /\ call[c].pc = "insert"
  /\ IF profile[call[c].user] # NoProfile
     THEN Acknowledge(c, "nil")
     ELSE CallStep(c, "insert", [call[c] EXCEPT !.pc = "inserting"]) /\ UNCHANGED acked
  /\ ProfilesUnchanged

\* ErrUsernameTaken aborted the transaction: the next suffix in a new one, or no more.
NextAttempt(c) ==
  LET n == call[c].attempt + 1 IN
  IF n <= MaxUsernameAttempts
  THEN /\ CallStep(c, "inserting", [call[c] EXCEPT !.pc = "insert", !.attempt = n, !.p = Suffixed(@, n)])
       /\ UNCHANGED acked
  ELSE Acknowledge(c, "no free username")

\* Mutant of Insert: ON CONFLICT (user_id) DO UPDATE.
Upsert(c) ==
  LET q == call[c] IN
  /\ q.pc = "inserting"
  /\ ~InFlight(c, q.user, q.p.name)
  /\ IF Taken(q.user, q.p.name) THEN NextAttempt(c)
     ELSE CallStep(c, "inserting", [q EXCEPT !.pc = "record"]) /\ UNCHANGED acked
  /\ ProfilesUnchanged

\* The row goes in once no other transaction has its keys.  Of two handlers
\* that insert one user at once the later sees either conflict: with the user,
\* or with the username that this user now has.
Insert(c) ==
  LET q == call[c] IN
  /\ q.pc = "inserting"
  /\ ~InFlight(c, q.user, q.p.name)
  /\ \/ profile[q.user] # NoProfile /\ Acknowledge(c, "nil")
     \/ (Taken(q.user, q.p.name) \/ profile[q.user].name = q.p.name) /\ NextAttempt(c)
     \/ /\ profile[q.user] = NoProfile /\ ~Taken(q.user, q.p.name)
        /\ CallStep(c, "inserting", [q EXCEPT !.pc = "record"]) /\ UNCHANGED acked
  /\ ProfilesUnchanged

-----------------------------------------------------------------------------
(* PATCH /users/me                                                          *)

\* Handler.fail, and 200.
ProfileStatus(err) ==
  CASE err = "nil" -> 200 [] err = "ValidationError" -> 422 [] err = "ErrUsernameTaken" -> 409
    [] err = "ErrProfileNotFound" -> 404 [] OTHER -> 500
ProfileReply(err) == [NoCall EXCEPT !.pc = "answer", !.status = ProfileStatus(err)]

\* Profile.Apply: only the fields that were sent.
ApplyChanges(p, sent, n, x) == [name |-> IF "name" \in sent THEN n ELSE p.name,
                                shown |-> IF "shown" \in sent THEN x ELSE p.shown,
                                bio |-> IF "bio" \in sent THEN x ELSE p.bio]

\* Update reads the row and applies the changes; an invalid field refuses them all.
Update(c, u, sent, n, x, valid) ==
  LET p == ApplyChanges(profile[u], sent, n, x) IN
  /\ CallStep(c, "idle", IF profile[u] = NoProfile THEN ProfileReply("ErrProfileNotFound")
                         ELSE IF ~valid THEN ProfileReply("ValidationError")
                         ELSE IF p = profile[u] THEN ProfileReply("nil")
                         ELSE [NoCall EXCEPT !.pc = "update", !.op = "patch", !.user = u, !.p = p])
  /\ ProfilesUnchanged /\ UNCHANGED acked

\* UPDATE ... SET every editable column.
UpdateRow(c) ==
  LET q == call[c] IN
  /\ ~InFlight(c, q.user, q.p.name)
  /\ CallStep(c, "update", IF Taken(q.user, q.p.name) THEN ProfileReply("ErrUsernameTaken")
                                                      ELSE [q EXCEPT !.pc = "record"])
  /\ ProfilesUnchanged /\ UNCHANGED acked

\* Publisher.ProfileUpdated, called by record in the transaction.
\* The payload has no Bio: a change of that alone repeats the rest.
Carried(p) == [name |-> p.name, shown |-> p.shown]
ProfileUpdated(c) == profileEvents' = Append(profileEvents, [user |-> call[c].user, p |-> Carried(call[c].p)])

\* record, and the transaction commits.
CommitProfile(c) ==
  LET q == call[c] IN
  /\ q.pc = "record"
  /\ Len(profileEvents) < MaxProfileEvents
  /\ ProfileUpdated(c)
  /\ profile' = [profile EXCEPT ![q.user] = q.p]
  /\ IF q.op = "register" THEN Acknowledge(c, "nil")
                          ELSE CallStep(c, "record", ProfileReply("nil")) /\ UNCHANGED acked

\* The database fails, before or at the commit.
ProfileTxFails(c) ==
  /\ call[c].pc \in {"insert", "inserting", "update", "record"}
  /\ IF call[c].op = "register" THEN Acknowledge(c, "failed")
                                ELSE CallStep(c, call[c].pc, ProfileReply("failed")) /\ UNCHANGED acked
  /\ ProfilesUnchanged

ProfileAnswered(c) == CallStep(c, "answer", NoCall) /\ ProfilesUnchanged /\ UNCHANGED acked

ProfileCall(c) ==
  \/ \E u \in Accounts :
       \/ UserRegistered(c, u)
       \/ \E sent \in SUBSET {"name", "shown", "bio"}, n \in Usernames, x \in Texts, valid \in BOOLEAN :
            Update(c, u, sent, n, x, valid)
  \/ CreateIfAbsent(c) \/ Insert(c) \/ UpdateRow(c) \/ CommitProfile(c) \/ ProfileTxFails(c) \/ ProfileAnswered(c)

ProfileNext == \E c \in ProfileCalls : ProfileCall(c)
ProfileSpec == ProfileInit /\ [][ProfileNext]_profileVars

-----------------------------------------------------------------------------
\* Whoever folds profile.events by user has what the events carry of the
\* profiles: of every account the last event says what its row does, of
\* whichever overlapping registrations and changes were committed.
EventsReplayProfiles ==
  \A u \in Accounts :
    LET of == {i \in 1..Len(profileEvents) : profileEvents[i].user = u} IN
    /\ of = {} => profile[u] = NoProfile
    /\ \A i \in of : (\A j \in of : j <= i) => Carried(profile[u]) = profileEvents[i].p

\* "a second run is a no-op": a redelivered registration that finds its own
\* username taken, by itself, still ends with the account's one profile, and
\* no acknowledged registration is without one.
AcknowledgedHasProfile == \A u \in acked : profile[u] # NoProfile

\* A profile that exists is only changed by its owner's request: no late or
\* repeated registration resets what the owner has edited.
OnlyOwnerChanges ==
  [][\A u \in Accounts : profile[u] # NoProfile /\ profile'[u] # profile[u]
       => \E c \in ProfileCalls : call[c].op = "patch" /\ call[c].user = u /\ call[c].pc = "record"]_profileVars

\* Profiles survive repeated registrations and concurrent edits: the events
\* tell them, no acknowledged account is without one, and only its owner
\* changes it.
ProfilesKept == [](EventsReplayProfiles /\ AcknowledgedHasProfile) /\ OnlyOwnerChanges
=============================================================================
