---------------------------- MODULE AuthSessions ----------------------------
(***************************************************************************)
(* Auth Service sessions: login, refresh-token rotation, logout, explicit  *)
(* revocation, and the access-token check every service runs.              *)
(*                                                                         *)
(* Each database or Redis call of a request is one step, so requests on    *)
(* several replicas interleave between a read and the write based on it.   *)
(* The hashes of a session's refresh tokens are numbered: `gen' is the     *)
(* current one and gen - 1 the one rotated out last (previous_hash).       *)
(* All replicas read one clock.                                            *)
(***************************************************************************)
EXTENDS Integers, FiniteSets

CONSTANTS Sessions,    \* session ids
          UserOf,      \* UserOf[s]: the account session s is created for
          Users,
          Reqs,        \* requests, one use case execution each
          Checks,      \* access-token verifications, one Verify call each
          SessionTTL, AccessTTL,
          Leeway,      \* Verifier.leeway
          MaxTime,     \* bound: last instant of the clock
          MaxFaults,   \* bound: failed calls
          None

ASSUME AuthAssumption ==
  /\ Sessions # {}
  /\ UserOf \in [Sessions -> Users]
  /\ SessionTTL \in Nat \ {0}
  /\ AccessTTL \in Nat \ {0}
  /\ Leeway \in Nat
  /\ MaxTime \in Nat
  /\ MaxFaults \in Nat
  /\ None \notin Sessions \cup {"logout", "revoked", "token_reuse"}

VARIABLES clock,
          row,      \* auth.sessions; gen = 0 where the row does not exist
          req,      \* where each request is, and what it has read
          held,     \* refresh tokens clients have received
          access,   \* access tokens clients have received
          events,   \* session.revoked events written to the outbox
          until,    \* revoked:session:<sid> in Redis: when it expires, 0 if never set
          check,    \* where each Verify call is
          faults

vars == <<clock, row, req, held, access, events, until, check, faults>>

Reasons  == {"logout", "revoked", "token_reuse"}
Token    == [sid : Sessions, gen : Nat]
Access   == [sid : Sessions, exp : Nat]
Ongoing  == {"start", "find", "previous", "save", "account", "revoke", "tell"}
Outcomes == {"ok", "invalid", "inactive", "conflict", "reuse", "notfound", "error"}

TypeOK ==
  /\ clock \in 0..MaxTime
  /\ row \in [Sessions -> [gen : Nat, expires : Nat, revoked : Reasons \cup {None}]]
  /\ req \in [Reqs -> [pc : {"idle"} \cup Ongoing \cup Outcomes,
                       op : {"login", "refresh", "logout", "revoke"},
                       sid : Sessions, gen : Nat, now : Nat, user : Users]]
  /\ held \in SUBSET Token
  /\ access \in SUBSET Access
  /\ events \in SUBSET [req : Reqs, sid : Sessions, reason : Reasons]
  /\ until \in [Sessions -> Nat]
  /\ check \in [Checks -> [pc : {"idle", "lookup", "accepted", "failopen", "refused"},
                           tok : Access \cup {None}]]
  /\ faults \in 0..MaxFaults

Init ==
  /\ clock = 0
  /\ row = [s \in Sessions |-> [gen |-> 0, expires |-> 0, revoked |-> None]]
  /\ req \in [Reqs -> [pc : {"idle"}, op : {"login"}, sid : {CHOOSE s \in Sessions : TRUE},
                       gen : {0}, now : {0}, user : {CHOOSE u \in Users : TRUE}]]
  /\ held = {}
  /\ access = {}
  /\ events = {}
  /\ until = [s \in Sessions |-> 0]
  /\ check = [c \in Checks |-> [pc |-> "idle", tok |-> None]]
  /\ faults = 0

Tick ==
  /\ clock < MaxTime
  /\ clock' = clock + 1
  /\ UNCHANGED <<row, req, held, access, events, until, check, faults>>

-----------------------------------------------------------------------------
(* Requests *)

At(r, pc, ops) == req[r].pc = pc /\ req[r].op \in ops
Goto(r, pc) == req' = [req EXCEPT ![r].pc = pc]

\* Session.Active.
Active(s, now) == row[s].revoked = None /\ now < row[s].expires

\* Mutant of Issue: the clock is read when the token is made.
IssueNow(s, now) == access' = access \cup {[sid |-> s, exp |-> clock + AccessTTL]}

\* JWTIssuer.Issue: the token expires AccessTTL after the `now' it is given.
Issue(s, now) == access' = access \cup {[sid |-> s, exp |-> now + AccessTTL]}

Arrive(r, op, s, g, u) ==
  /\ req[r].pc = "idle"
  /\ req' = [req EXCEPT ![r] = [pc |-> IF op = "login" THEN "start" ELSE "find", op |-> op,
                                sid |-> s, gen |-> g, now |-> clock, user |-> u]]
  /\ UNCHANGED <<clock, row, held, access, events, until, check, faults>>

\* Register or Login past the password check: startSession reads the clock,
\* and creates the row when its transaction commits.
ArriveLogin(r) == \E s \in Sessions : row[s].gen = 0 /\ Arrive(r, "login", s, 0, UserOf[s])

\* Refresh reads the clock before it looks the token up.
ArriveRefresh(r) == \E t \in held : Arrive(r, "refresh", t.sid, t.gen, UserOf[t.sid])

ArriveLogout(r) == \E t \in held : Arrive(r, "logout", t.sid, t.gen, UserOf[t.sid])

\* DELETE /sessions/{id} by an authenticated user, for any session id.
ArriveRevoke(r) == \E s \in Sessions, u \in Users : Arrive(r, "revoke", s, 0, u)

\* startSession inside InTx: the row, the events and the answer together.
StartSession(r) ==
  LET s == req[r].sid IN
  /\ At(r, "start", {"login"})
  /\ row[s].gen = 0
  /\ row' = [row EXCEPT ![s].gen = 1, ![s].expires = req[r].now + SessionTTL]
  /\ held' = held \cup {[sid |-> s, gen |-> 1]}
  /\ Issue(s, req[r].now)
  /\ Goto(r, "ok")
  /\ UNCHANGED <<clock, events, until, check, faults>>

\* Refresh: ByRefreshHash, and Active on the session it returned.
Lookup(r) ==
  LET s == req[r].sid IN
  /\ At(r, "find", {"refresh"})
  /\ Goto(r, CASE row[s].gen # req[r].gen   -> "previous"
               [] Active(s, req[r].now)     -> "save"
               [] OTHER                     -> "inactive")
  /\ UNCHANGED <<clock, row, held, access, events, until, check, faults>>

\* Refresh: ByPreviousHash; Session.Revoke does nothing on a revoked snapshot.
LookupPrevious(r) ==
  LET s == req[r].sid IN
  /\ At(r, "previous", {"refresh"})
  /\ Goto(r, CASE row[s].gen # req[r].gen + 1  -> "invalid"
               [] row[s].revoked # None        -> "reuse"
               [] OTHER                        -> "revoke")
  /\ UNCHANGED <<clock, row, held, access, events, until, check, faults>>

\* Mutant of SaveRotation: without refresh_hash = $3.
SaveRotationById(r) ==
  LET s == req[r].sid
      swap == row[s].revoked = None IN
  /\ At(r, "save", {"refresh"})
  /\ row' = IF swap
            THEN [row EXCEPT ![s].gen = req[r].gen + 1,
                             ![s].expires = req[r].now + SessionTTL]
            ELSE row
  /\ Goto(r, IF swap THEN "account" ELSE "conflict")
  /\ UNCHANGED <<clock, held, access, events, until, check, faults>>

\* SaveRotation: compare-and-swap on refresh_hash.
SaveRotation(r) ==
  LET s == req[r].sid
      swap == row[s].gen = req[r].gen /\ row[s].revoked = None IN
  /\ At(r, "save", {"refresh"})
  /\ row' = IF swap
            THEN [row EXCEPT ![s].gen = req[r].gen + 1,
                             ![s].expires = req[r].now + SessionTTL]
            ELSE row
  /\ Goto(r, IF swap THEN "account" ELSE "conflict")
  /\ UNCHANGED <<clock, held, access, events, until, check, faults>>

\* Accounts.ByID, Issue with the `now' read on arrival, and the answer.
IssueRefreshed(r) ==
  LET s == req[r].sid IN
  /\ At(r, "account", {"refresh"})
  /\ held' = held \cup {[sid |-> s, gen |-> req[r].gen + 1]}
  /\ Issue(s, req[r].now)
  /\ Goto(r, "ok")
  /\ UNCHANGED <<clock, row, events, until, check, faults>>

\* Logout: only the current token ends the session; anything else is ignored.
LookupLogout(r) ==
  LET s == req[r].sid IN
  /\ At(r, "find", {"logout"})
  /\ Goto(r, IF row[s].gen = req[r].gen /\ row[s].revoked = None THEN "revoke" ELSE "ok")
  /\ UNCHANGED <<clock, row, held, access, events, until, check, faults>>

\* RevokeSession: Get, the owner check, Session.Revoke on the snapshot.
LookupOwn(r) ==
  LET s == req[r].sid IN
  /\ At(r, "find", {"revoke"})
  /\ Goto(r, CASE row[s].gen = 0 \/ UserOf[s] # req[r].user -> "notfound"
               [] row[s].revoked # None                     -> "ok"
               [] OTHER                                     -> "revoke")
  /\ UNCHANGED <<clock, row, held, access, events, until, check, faults>>

\* Mutant of ReasonOf: the request's name is stored as the reason.
ReasonIsOp(op) == op

ReasonOf(op) == CASE op = "logout"  -> "logout"
                  [] op = "revoke"  -> "revoked"
                  [] OTHER          -> "token_reuse"

\* revoke's transaction: SaveRevocation (the first one wins) and the event.
SaveRevocation(r) ==
  LET s == req[r].sid
      reason == ReasonOf(req[r].op) IN
  /\ At(r, "revoke", {"refresh", "logout", "revoke"})
  /\ row' = IF row[s].revoked = None THEN [row EXCEPT ![s].revoked = reason] ELSE row
  /\ events' = events \cup {[req |-> r, sid |-> s, reason |-> reason]}
  /\ Goto(r, "tell")
  /\ UNCHANGED <<clock, held, access, until, check, faults>>

Answer(r) == IF req[r].op = "refresh" THEN "reuse" ELSE "ok"

\* RedisRevocations.Revoke for the access token lifetime.
TellVerifiers(r) ==
  /\ At(r, "tell", {"refresh", "logout", "revoke"})
  /\ until' = [until EXCEPT ![req[r].sid] = clock + AccessTTL]
  /\ Goto(r, Answer(r))
  /\ UNCHANGED <<clock, row, held, access, events, check, faults>>

\* The Redis write failed: logged only.
TellFails(r) ==
  /\ At(r, "tell", {"refresh", "logout", "revoke"})
  /\ faults < MaxFaults
  /\ faults' = faults + 1
  /\ Goto(r, Answer(r))
  /\ UNCHANGED <<clock, row, held, access, events, until, check>>

\* A database call failed, or the process died, before the next step.
Fail(r) ==
  /\ req[r].pc \in Ongoing \ {"tell"}
  /\ faults < MaxFaults
  /\ faults' = faults + 1
  /\ Goto(r, "error")
  /\ UNCHANGED <<clock, row, held, access, events, until, check>>

Request(r) ==
  \/ ArriveLogin(r) \/ ArriveRefresh(r) \/ ArriveLogout(r) \/ ArriveRevoke(r)
  \/ StartSession(r)
  \/ Lookup(r) \/ LookupPrevious(r) \/ SaveRotation(r) \/ IssueRefreshed(r)
  \/ LookupLogout(r) \/ LookupOwn(r)
  \/ SaveRevocation(r) \/ TellVerifiers(r) \/ TellFails(r) \/ Fail(r)

-----------------------------------------------------------------------------
(* Verifier.Verify, in any service *)

\* jwt.ParseWithClaims: expiry with the leeway.
ParseToken(c) ==
  \E a \in access :
    /\ check[c].pc = "idle"
    /\ check' = [check EXCEPT ![c] = [tok |-> a,
                   pc |-> IF clock < a.exp + Leeway THEN "lookup" ELSE "refused"]]
    /\ UNCHANGED <<clock, row, req, held, access, events, until, faults>>

\* IsRevoked: the entry is there until it expires.
IsRevoked(c) ==
  /\ check[c].pc = "lookup"
  /\ check' = [check EXCEPT ![c].pc =
                 IF clock < until[check[c].tok.sid] THEN "refused" ELSE "accepted"]
  /\ UNCHANGED <<clock, row, req, held, access, events, until, faults>>

\* Redis does not answer: fail open.
IsRevokedFails(c) ==
  /\ check[c].pc = "lookup"
  /\ faults < MaxFaults
  /\ faults' = faults + 1
  /\ check' = [check EXCEPT ![c].pc = "failopen"]
  /\ UNCHANGED <<clock, row, req, held, access, events, until>>

Verify(c) == ParseToken(c) \/ IsRevoked(c) \/ IsRevokedFails(c)

Next == Tick \/ (\E r \in Reqs : Request(r)) \/ (\E c \in Checks : Verify(c))

Spec == Init /\ [][Next]_vars

-----------------------------------------------------------------------------
(* Properties *)

\* repositories.go SaveRotation: of two refreshes that present the same token,
\* however their reads and writes interleave, at most one rotates the session.
RotatedOnce ==
  \A p, q \in Reqs :
    /\ p # q
    /\ req[p].op = "refresh" /\ req[q].op = "refresh"
    /\ req[p].sid = req[q].sid /\ req[p].gen = req[q].gen
    /\ req[p].pc \in {"account", "ok"}
    => req[q].pc \notin {"account", "ok"}

\* A refresh answered with ErrRefreshReuse has left the session revoked, also
\* when it met another revocation or another rotation half-way.
ReuseRevokes ==
  \A r \in Reqs : req[r].pc = "reuse" => row[req[r].sid].revoked # None

\* A revoked row never changes again: a rotation that read the session before
\* the revocation cannot revive or extend it, and the first reason stays.
RevokedIsFinal ==
  [][\A s \in Sessions : row[s].revoked # None => row'[s] = row[s]]_vars

\* Once verifiers have been told of a revocation, Verify accepts no unexpired
\* access token of that session while Redis answers: the entry outlives even a
\* token whose refresh was in flight when the session was revoked.
RevokedNotAccepted ==
  [][\A c \in Checks :
       check'[c].pc = "accepted" /\ check[c].pc # "accepted"
       => LET a == check[c].tok IN until[a.sid] = 0 \/ clock >= a.exp]_vars

\* A refresh token works once: of those who present it one rotates the session,
\* and one who is told of reuse has left it revoked.
ReuseIsCaught == RotatedOnce /\ ReuseRevokes

\* A revocation holds: in the row for ever, and for access tokens, the ones in
\* flight included, as soon as verifiers are told.
RevocationHolds == RevokedIsFinal /\ RevokedNotAccepted

\* domain.go Session.Revoke: "Revoking twice is a no-op", so one session.revoked.
RevokedEventOnce ==
  \A e, f \in events : e.sid = f.sid => e = f
=============================================================================
