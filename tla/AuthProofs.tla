------------------------------ MODULE AuthProofs ------------------------------
(***************************************************************************)
(* Proofs about sessions on both sides.  The Auth Service: refresh         *)
(* rotation and revocation, for every number of sessions, requests,        *)
(* verifications and failures, and for every token lifetime; the keys a    *)
(* verifier knows, for every number of callers and all three durations;    *)
(* the login throttle's bound, for every number of clients, failures and   *)
(* windows.  The web application: the calls of a tab share a rotation and  *)
(* do not lose the session (WebSession), for any number of tabs, calls and *)
(* expiries; the player does what the listener asked last and reports what *)
(* was heard (WebPlayer), for any queue and any number of tracks started,  *)
(* grants renewed and failures.                                            *)
(***************************************************************************)
EXTENDS MCAuth, WebPlayer, FiniteSetTheorems, SequenceTheorems, WellFoundedInduction, TLAPS

\* A row that does not exist is not revoked, and clients hold only tokens that
\* were made for a row.
RowsSound ==
  /\ \A s \in Sessions : row[s].gen = 0 => row[s].revoked = None
  /\ \A t \in held : t.gen # 0

\* What a request knows of the row of its session.
RequestKnows(r) ==
  LET s == req[r].sid IN
  /\ req[r].now <= clock
  /\ req[r].op \in {"refresh", "logout"} => req[r].gen # 0
  /\ req[r].op = "refresh" /\ req[r].pc \in {"account", "ok"} => row[s].gen > req[r].gen
  /\ req[r].pc = "account" => req[r].op = "refresh"
  /\ req[r].pc = "revoke" => row[s].gen # 0
  /\ req[r].pc \in {"tell", "reuse"} => row[s].revoked # None

\* The entry in Redis outlives every access token there is, or may still be
\* made by a refresh that rotated before the revocation.
EntriesOutlive ==
  /\ \A a \in access : a.exp <= clock + AccessTTL
  /\ \A s \in Sessions : until[s] # 0 =>
       /\ row[s].revoked # None
       /\ \A a \in access : a.sid = s => a.exp <= until[s]
       /\ \A r \in Reqs : req[r].pc = "account" /\ req[r].sid = s => req[r].now + AccessTTL <= until[s]

ChecksSound == \A c \in Checks : check[c].pc = "lookup" => check[c].tok \in access

IInv ==
  /\ TypeOK
  /\ RowsSound
  /\ \A r \in Reqs : RequestKnows(r)
  /\ RotatedOnce
  /\ EntriesOutlive
  /\ ChecksSound

RequestRecord ==
  [pc : {"idle"} \cup Ongoing \cup Outcomes, op : {"login", "refresh", "logout", "revoke"},
   sid : Sessions, gen : Nat, now : Nat, user : Users]

-----------------------------------------------------------------------------
\* The initial state satisfies the inductive invariant.
LEMMA InitIInv == Init => IInv
<1> SUFFICES ASSUME Init PROVE IInv
  OBVIOUS
<1>1. (CHOOSE s \in Sessions : TRUE) \in Sessions /\ (CHOOSE u \in Users : TRUE) \in Users
  BY AuthAssumption
<1>2. TypeOK
  BY <1>1, AuthAssumption DEF Init, TypeOK, Ongoing, Outcomes, Token, Access
<1>3. QED
  BY <1>2, AuthAssumption DEF Init, IInv, TypeOK, RowsSound, RequestKnows, RotatedOnce, EntriesOutlive, ChecksSound

\* Goto moves one request and leaves what it has read, and the others, alone.
LEMMA GotoMoves ==
  ASSUME TypeOK, NEW r \in Reqs, NEW pc \in {"idle"} \cup Ongoing \cup Outcomes, Goto(r, pc)
  PROVE  /\ req' \in [Reqs -> RequestRecord]
         /\ req'[r].pc = pc
         /\ \A q \in Reqs : /\ req'[q].op = req[q].op /\ req'[q].sid = req[q].sid
                            /\ req'[q].gen = req[q].gen /\ req'[q].now = req[q].now
                            /\ q # r => req'[q] = req[q]
<1>1. req \in [Reqs -> RequestRecord]
  BY DEF TypeOK, RequestRecord
<1> QED
  BY <1>1 DEF Goto, RequestRecord

\* A request that only moves on, without claiming a rotation, keeps the
\* invariant if what it knows at the new place is true.
LEMMA MoveIInv ==
  ASSUME IInv, NEW r \in Reqs, NEW pc \in {"idle"} \cup Ongoing \cup Outcomes, Goto(r, pc),
         UNCHANGED <<clock, row, held, access, events, until, check>>, faults' \in 0..MaxFaults,
         pc # "account", pc = "ok" => req[r].op # "refresh",
         pc = "revoke" => row[req[r].sid].gen # 0,
         pc \in {"tell", "reuse"} => row[req[r].sid].revoked # None
  PROVE  IInv'
<1>1. TypeOK
  BY DEF IInv
<1>2. /\ req' \in [Reqs -> RequestRecord] /\ req'[r].pc = pc
      /\ \A q \in Reqs : /\ req'[q].op = req[q].op /\ req'[q].sid = req[q].sid
                         /\ req'[q].gen = req[q].gen /\ req'[q].now = req[q].now
                         /\ q # r => req'[q] = req[q]
  BY <1>1, GotoMoves
<1>3. TypeOK'
  BY <1>1, <1>2 DEF TypeOK, RequestRecord
<1>4. \A q \in Reqs : RequestKnows(q)'
  BY <1>2 DEF IInv, RequestKnows
<1>5. RotatedOnce'
  <2> SUFFICES ASSUME NEW p \in Reqs, NEW q \in Reqs, p # q,
                      req'[p].op = "refresh", req'[q].op = "refresh",
                      req'[p].sid = req'[q].sid, req'[p].gen = req'[q].gen,
                      req'[p].pc \in {"account", "ok"}, req'[q].pc \in {"account", "ok"}
               PROVE  FALSE
    BY DEF RotatedOnce
  <2>1. p # r /\ q # r
    BY <1>2
  <2>2. QED
    BY <1>2, <2>1 DEF IInv, RotatedOnce
<1>6. EntriesOutlive'
  <2>1. \A q \in Reqs : req'[q].pc = "account" => req'[q] = req[q]
    BY <1>2
  <2>2. QED
    BY <2>1 DEF IInv, EntriesOutlive
<1>7. RowsSound' /\ ChecksSound'
  BY DEF IInv, RowsSound, ChecksSound
<1>8. QED
  BY <1>3, <1>4, <1>5, <1>6, <1>7 DEF IInv

\* A request that arrives has read nothing but the clock.
LEMMA ArriveIInv ==
  ASSUME IInv, NEW r \in Reqs,
         ArriveLogin(r) \/ ArriveRefresh(r) \/ ArriveLogout(r) \/ ArriveRevoke(r)
  PROVE  IInv'
<1>1. TypeOK
  BY DEF IInv
<1>2. PICK op \in {"login", "refresh", "logout", "revoke"}, s \in Sessions, g \in Nat, u \in Users :
        Arrive(r, op, s, g, u) /\ (op \in {"refresh", "logout"} => g # 0)
  <2>1. \A s \in Sessions : UserOf[s] \in Users
    BY AuthAssumption
  <2>2. \A t \in held : t.sid \in Sessions /\ t.gen \in Nat /\ t.gen # 0
    BY <1>1 DEF IInv, RowsSound, TypeOK, Token
  <2>3. QED
    BY <2>1, <2>2 DEF ArriveLogin, ArriveRefresh, ArriveLogout, ArriveRevoke
<1> DEFINE new == [pc |-> IF op = "login" THEN "start" ELSE "find", op |-> op,
                   sid |-> s, gen |-> g, now |-> clock, user |-> u]
<1>3. new \in RequestRecord /\ req \in [Reqs -> RequestRecord] /\ clock \in Nat
  BY <1>1, AuthAssumption DEF TypeOK, RequestRecord, Ongoing
<1>4. req' = [req EXCEPT ![r] = new] /\ UNCHANGED <<clock, row, held, access, events, until, check, faults>>
  BY <1>2 DEF Arrive
<1>5. /\ req' \in [Reqs -> RequestRecord] /\ req'[r] = new
      /\ \A q \in Reqs : q # r => req'[q] = req[q]
  BY <1>3, <1>4
<1>6. new.pc \in {"start", "find"} /\ new.now = clock /\ new.op = op /\ new.gen = g
  OBVIOUS
<1> HIDE DEF new
<1>7. TypeOK'
  BY <1>1, <1>4, <1>5 DEF TypeOK, RequestRecord
<1>8. \A q \in Reqs : RequestKnows(q)'
  BY <1>2, <1>3, <1>4, <1>5, <1>6 DEF IInv, RequestKnows
<1>9. RotatedOnce'
  BY <1>5, <1>6 DEF IInv, RotatedOnce
<1>10. EntriesOutlive'
  BY <1>4, <1>5, <1>6 DEF IInv, EntriesOutlive
<1>11. RowsSound' /\ ChecksSound'
  BY <1>4 DEF IInv, RowsSound, ChecksSound
<1>12. QED
  BY <1>7, <1>8, <1>9, <1>10, <1>11 DEF IInv

\* The reads of the use cases, and what fails: the request moves, nothing else.
LEMMA ReadIInv ==
  ASSUME IInv, NEW r \in Reqs,
         \/ Lookup(r) \/ LookupPrevious(r) \/ LookupLogout(r) \/ LookupOwn(r)
         \/ TellFails(r) \/ Fail(r)
  PROVE  IInv'
<1>1. TypeOK /\ RequestKnows(r)
  BY DEF IInv
<1>2. /\ req[r] \in RequestRecord /\ row[req[r].sid].gen \in Nat
      /\ faults \in 0..MaxFaults /\ MaxFaults \in Nat
  BY <1>1, AuthAssumption DEF TypeOK, RequestRecord
<1>3. CASE Lookup(r)
  BY <1>2, <1>3, MoveIInv DEF Lookup, At, Ongoing, Outcomes
<1>4. CASE LookupPrevious(r)
  <2>1. req[r].gen \in Nat
    BY <1>2 DEF RequestRecord
  <2>2. PICK pc \in {"invalid", "reuse", "revoke"} :
          /\ Goto(r, pc)
          /\ pc = "reuse" => row[req[r].sid].revoked # None
          /\ pc = "revoke" => row[req[r].sid].gen = req[r].gen + 1
    BY <1>4 DEF LookupPrevious
  <2>3. pc = "revoke" => row[req[r].sid].gen # 0
    BY <2>1, <2>2
  <2>4. QED
    BY <1>2, <1>4, <2>2, <2>3, MoveIInv DEF LookupPrevious, Ongoing, Outcomes
<1>5. CASE LookupLogout(r)
  <2>1. req[r].op = "logout" /\ req[r].gen # 0
    BY <1>1, <1>5 DEF LookupLogout, At, RequestKnows
  <2>2. QED
    BY <1>2, <1>5, <2>1, MoveIInv DEF LookupLogout, Ongoing, Outcomes
<1>6. CASE LookupOwn(r)
  BY <1>2, <1>6, MoveIInv DEF LookupOwn, At, Ongoing, Outcomes
<1>7. CASE TellFails(r)
  <2>1. row[req[r].sid].revoked # None
    BY <1>1, <1>7 DEF TellFails, At, RequestKnows
  <2>2. Answer(r) \in {"reuse", "ok"} /\ (Answer(r) = "ok" => req[r].op # "refresh")
    BY DEF Answer
  <2>3. QED
    BY <1>2, <1>7, <2>1, <2>2, MoveIInv DEF TellFails, Ongoing, Outcomes
<1>8. CASE Fail(r)
  BY <1>2, <1>8, MoveIInv DEF Fail, Ongoing, Outcomes
<1>9. QED
  BY <1>3, <1>4, <1>5, <1>6, <1>7, <1>8

\* startSession makes the row of a session that has none.
LEMMA StartIInv ==
  ASSUME IInv, NEW r \in Reqs, StartSession(r)
  PROVE  IInv'
<1> DEFINE s == req[r].sid
<1>1. /\ TypeOK /\ RequestKnows(r) /\ req[r] \in RequestRecord /\ s \in Sessions
      /\ clock \in Nat /\ AccessTTL \in Nat \ {0} /\ SessionTTL \in Nat
  BY AuthAssumption DEF IInv, TypeOK, RequestRecord
<1>2. /\ req[r].op = "login" /\ row[s].gen = 0
      /\ row' = [row EXCEPT ![s].gen = 1, ![s].expires = req[r].now + SessionTTL]
      /\ held' = held \cup {[sid |-> s, gen |-> 1]}
      /\ access' = access \cup {[sid |-> s, exp |-> req[r].now + AccessTTL]}
      /\ Goto(r, "ok") /\ UNCHANGED <<clock, events, until, check, faults>>
  BY DEF StartSession, At, Issue
<1>3. /\ req' \in [Reqs -> RequestRecord] /\ req'[r].pc = "ok"
      /\ \A q \in Reqs : /\ req'[q].op = req[q].op /\ req'[q].sid = req[q].sid
                         /\ req'[q].gen = req[q].gen /\ req'[q].now = req[q].now
                         /\ q # r => req'[q] = req[q]
  BY <1>1, <1>2, GotoMoves DEF Outcomes
<1>4. /\ row'[s].gen = 1 /\ row'[s].revoked = row[s].revoked
      /\ \A x \in Sessions : x # s => row'[x] = row[x]
  BY <1>1, <1>2 DEF TypeOK
<1>5. req[r].now \in Nat /\ req[r].now <= clock /\ row[s].revoked = None
  BY <1>1, <1>2 DEF IInv, RowsSound, RequestKnows, RequestRecord
<1>6. TypeOK'
  <2>1. row' \in [Sessions -> [gen : Nat, expires : Nat, revoked : Reasons \cup {None}]]
    BY <1>1, <1>2, <1>5 DEF TypeOK
  <2>2. held' \in SUBSET Token /\ access' \in SUBSET Access
    BY <1>1, <1>2, <1>5 DEF TypeOK, Token, Access
  <2>3. QED
    BY <1>1, <1>2, <1>3, <2>1, <2>2 DEF TypeOK, RequestRecord
<1>7. RowsSound'
  <2>1. \A t \in held' : t \in held \/ t = [sid |-> s, gen |-> 1]
    BY <1>2
  <2>2. \A t \in held' : t.gen # 0
    BY <2>1 DEF IInv, RowsSound
  <2>3. \A x \in Sessions : row'[x].gen = 0 => row'[x].revoked = None
    BY <1>4 DEF IInv, RowsSound
  <2>4. QED
    BY <2>2, <2>3 DEF RowsSound
<1>8. \A q \in Reqs : RequestKnows(q)'
  <2> SUFFICES ASSUME NEW q \in Reqs PROVE RequestKnows(q)'
    OBVIOUS
  <2>1. RequestKnows(q) /\ req[q] \in RequestRecord
    BY <1>1 DEF IInv, TypeOK, RequestRecord
  <2>2. CASE q = r
    BY <1>2, <1>3, <1>4, <2>1, <2>2 DEF RequestKnows
  <2>3. CASE q # r /\ req[q].sid # s
    BY <1>2, <1>3, <1>4, <2>1, <2>3, ZenonT(30) DEF RequestKnows, RequestRecord
  <2>4. CASE q # r /\ req[q].sid = s
    <3>1. row[s].gen > req[q].gen => FALSE
      BY <1>2, <2>1 DEF RequestRecord
    <3>2. QED
      BY <1>2, <1>3, <1>4, <1>5, <2>1, <2>4, <3>1 DEF RequestKnows, RequestRecord
  <2>5. QED
    BY <2>2, <2>3, <2>4
<1>9. RotatedOnce'
  BY <1>2, <1>3 DEF IInv, RotatedOnce
<1>10. EntriesOutlive'
  <2>1. until[s] = 0
    BY <1>1, <1>5 DEF IInv, EntriesOutlive
  <2>2. req[r].now + AccessTTL <= clock + AccessTTL
    BY <1>1, <1>5
  <2>3. \A a \in access' : a \in access \/ a = [sid |-> s, exp |-> req[r].now + AccessTTL]
    BY <1>2
  <2>4. \A a \in access' : a.exp <= clock' + AccessTTL
    BY <1>2, <2>2, <2>3 DEF IInv, EntriesOutlive
  <2>5. ASSUME NEW x \in Sessions, until'[x] # 0
        PROVE  /\ row'[x].revoked # None
               /\ \A a \in access' : a.sid = x => a.exp <= until'[x]
               /\ \A q \in Reqs : req'[q].pc = "account" /\ req'[q].sid = x => req'[q].now + AccessTTL <= until'[x]
    <3>1. x # s /\ until'[x] = until[x]
      BY <1>2, <2>1, <2>5
    <3>2. \A a \in access' : a.sid = x => a \in access
      BY <2>3, <3>1
    <3>3. \A q \in Reqs : req'[q].pc = "account" => req'[q] = req[q]
      BY <1>3
    <3>4. QED
      BY <1>4, <2>5, <3>1, <3>2, <3>3 DEF IInv, EntriesOutlive
  <2>6. QED
    BY <2>4, <2>5 DEF EntriesOutlive
<1>11. ChecksSound'
  BY <1>2 DEF IInv, ChecksSound
<1>12. QED
  BY <1>6, <1>7, <1>8, <1>9, <1>10, <1>11 DEF IInv

\* SaveRotation succeeds for one of the requests that present a token, and
\* only on a session that is not revoked.
LEMMA RotateIInv ==
  ASSUME IInv, NEW r \in Reqs, SaveRotation(r)
  PROVE  IInv'
<1> DEFINE s == req[r].sid
<1>1. /\ TypeOK /\ RequestKnows(r) /\ req[r] \in RequestRecord /\ s \in Sessions
      /\ clock \in Nat /\ AccessTTL \in Nat \ {0} /\ SessionTTL \in Nat
      /\ faults \in 0..MaxFaults
  BY AuthAssumption DEF IInv, TypeOK, RequestRecord
<1>2. CASE ~ (row[s].gen = req[r].gen /\ row[s].revoked = None)
  BY <1>1, <1>2, MoveIInv DEF SaveRotation, Outcomes
<1>3. CASE row[s].gen = req[r].gen /\ row[s].revoked = None
  <2>1. /\ req[r].op = "refresh"
        /\ row' = [row EXCEPT ![s].gen = req[r].gen + 1, ![s].expires = req[r].now + SessionTTL]
        /\ Goto(r, "account") /\ UNCHANGED <<clock, held, access, events, until, check, faults>>
    BY <1>3 DEF SaveRotation, At
  <2>2. /\ req' \in [Reqs -> RequestRecord] /\ req'[r].pc = "account"
        /\ \A q \in Reqs : /\ req'[q].op = req[q].op /\ req'[q].sid = req[q].sid
                           /\ req'[q].gen = req[q].gen /\ req'[q].now = req[q].now
                           /\ q # r => req'[q] = req[q]
    BY <1>1, <2>1, GotoMoves DEF Ongoing
  <2>3. req[r].gen \in Nat /\ req[r].now \in Nat
    BY <1>1 DEF RequestRecord
  <2>4. /\ row'[s].gen = req[r].gen + 1 /\ row'[s].revoked = None
        /\ \A x \in Sessions : x # s => row'[x] = row[x]
    BY <1>1, <1>3, <2>1 DEF TypeOK
  <2>5. TypeOK'
    <3>1. row' \in [Sessions -> [gen : Nat, expires : Nat, revoked : Reasons \cup {None}]]
      <4>1. req[r].gen + 1 \in Nat /\ req[r].now + SessionTTL \in Nat
        BY <1>1, <2>3
      <4>2. row \in [Sessions -> [gen : Nat, expires : Nat, revoked : Reasons \cup {None}]]
        BY <1>1 DEF TypeOK
      <4>3. QED
        BY <1>1, <2>1, <4>1, <4>2
    <3>2. QED
      BY <1>1, <2>1, <2>2, <3>1 DEF TypeOK, RequestRecord
  <2>6. RowsSound'
    BY <2>1, <2>3, <2>4 DEF IInv, RowsSound
  <2>7. \A q \in Reqs : RequestKnows(q)'
    <3> SUFFICES ASSUME NEW q \in Reqs PROVE RequestKnows(q)'
      OBVIOUS
    <3>1. RequestKnows(q) /\ req[q].gen \in Nat /\ req[q].sid \in Sessions
      BY <1>1 DEF IInv, TypeOK
    <3>2. CASE q = r
      <4>1. row'[s].gen > req[r].gen
        BY <2>3, <2>4
      <4>2. QED
        BY <2>1, <2>2, <3>1, <3>2, <4>1 DEF RequestKnows
    <3>3. CASE q # r /\ req[q].sid # s
      BY <2>1, <2>2, <2>4, <3>1, <3>3 DEF RequestKnows
    <3>4. CASE q # r /\ req[q].sid = s
      <4>1. row[s].gen > req[q].gen => row'[s].gen > req[q].gen
        BY <1>3, <2>3, <2>4, <3>1
      <4>2. row'[s].gen # 0 /\ row'[s].revoked = row[s].revoked
        BY <1>3, <2>3, <2>4
      <4>3. req'[q] = req[q] /\ clock' = clock
        BY <2>1, <2>2, <3>4
      <4>4. QED
        BY <3>1, <3>4, <4>1, <4>2, <4>3 DEF RequestKnows
    <3>5. QED
      BY <3>2, <3>3, <3>4
  <2>8. RotatedOnce'
    <3> SUFFICES ASSUME NEW p \in Reqs, NEW q \in Reqs, p # q,
                        req'[p].op = "refresh", req'[q].op = "refresh",
                        req'[p].sid = req'[q].sid, req'[p].gen = req'[q].gen,
                        req'[p].pc \in {"account", "ok"}, req'[q].pc \in {"account", "ok"}
                 PROVE  FALSE
      BY DEF RotatedOnce
    <3>1. ASSUME NEW x \in Reqs, x # r, req'[x].op = "refresh", req'[x].sid = s,
                 req'[x].pc \in {"account", "ok"}
          PROVE  req'[x].gen # req[r].gen
      BY <1>3, <2>2, <2>3, <3>1 DEF IInv, RequestKnows
    <3>2. p # r /\ q # r
      BY <2>2, <3>1
    <3>3. QED
      BY <2>2, <3>2 DEF IInv, RotatedOnce
  <2>9. EntriesOutlive'
    <3>1. until[s] = 0
      BY <1>1, <1>3 DEF IInv, EntriesOutlive
    <3>2. \A x \in Sessions : until'[x] # 0 => x # s /\ row'[x] = row[x]
      BY <2>1, <2>4, <3>1
    <3>3. \A q \in Reqs : req'[q].pc = "account" /\ until'[req'[q].sid] # 0 => req'[q] = req[q]
      BY <2>1, <2>2, <3>1
    <3>4. UNCHANGED <<clock, access, until>>
      BY <2>1
    <3>5. QED
      BY <3>2, <3>3, <3>4 DEF IInv, EntriesOutlive
  <2>10. ChecksSound'
    BY <2>1 DEF IInv, ChecksSound
  <2>11. QED
    BY <2>5, <2>6, <2>7, <2>8, <2>9, <2>10 DEF IInv
<1>4. QED
  BY <1>2, <1>3

\* The answer to a rotation carries a token that expires with the clock the
\* request read when it arrived, before any revocation of the session.
LEMMA IssueIInv ==
  ASSUME IInv, NEW r \in Reqs, IssueRefreshed(r)
  PROVE  IInv'
<1> DEFINE s == req[r].sid
           new == [sid |-> s, exp |-> req[r].now + AccessTTL]
<1>1. /\ TypeOK /\ RequestKnows(r) /\ req[r] \in RequestRecord /\ s \in Sessions
      /\ clock \in Nat /\ AccessTTL \in Nat \ {0}
  BY AuthAssumption DEF IInv, TypeOK, RequestRecord
<1>2. /\ req[r].op = "refresh" /\ req[r].pc = "account"
      /\ held' = held \cup {[sid |-> s, gen |-> req[r].gen + 1]}
      /\ access' = access \cup {new}
      /\ Goto(r, "ok") /\ UNCHANGED <<clock, row, events, until, check, faults>>
  BY DEF IssueRefreshed, At, Issue
<1>3. /\ req' \in [Reqs -> RequestRecord] /\ req'[r].pc = "ok"
      /\ \A q \in Reqs : /\ req'[q].op = req[q].op /\ req'[q].sid = req[q].sid
                         /\ req'[q].gen = req[q].gen /\ req'[q].now = req[q].now
                         /\ q # r => req'[q] = req[q]
  BY <1>1, <1>2, GotoMoves DEF Outcomes
<1>4. req[r].gen \in Nat /\ req[r].now \in Nat /\ req[r].now <= clock /\ row[s].gen > req[r].gen
  BY <1>1, <1>2 DEF RequestRecord, RequestKnows
<1>5. TypeOK'
  <2>1. held' \in SUBSET Token /\ access' \in SUBSET Access
    BY <1>1, <1>2, <1>4 DEF TypeOK, Token, Access
  <2>2. QED
    BY <1>1, <1>2, <1>3, <2>1 DEF TypeOK, RequestRecord
<1>6. RowsSound'
  <2>1. \A t \in held' : t \in held \/ t = [sid |-> s, gen |-> req[r].gen + 1]
    BY <1>2
  <2>2. \A t \in held' : t.gen # 0
    BY <1>4, <2>1 DEF IInv, RowsSound
  <2>3. QED
    BY <1>2, <2>2 DEF IInv, RowsSound
<1>7. \A q \in Reqs : RequestKnows(q)'
  BY <1>2, <1>3, <1>4 DEF IInv, RequestKnows
<1>8. RotatedOnce'
  <2>1. \A q \in Reqs : (req'[q].pc \in {"account", "ok"}) = (req[q].pc \in {"account", "ok"})
    BY <1>2, <1>3
  <2>2. QED
    BY <1>3, <2>1 DEF IInv, RotatedOnce
<1>9. EntriesOutlive'
  <2>1. \A a \in access' : a \in access \/ a = new
    BY <1>2
  <2>2. new.exp = req[r].now + AccessTTL /\ new.exp <= clock + AccessTTL /\ new.sid = s
    BY <1>1, <1>4
  <2>3. until[s] # 0 => new.exp <= until[s]
    BY <1>1, <1>2, <2>2 DEF IInv, EntriesOutlive
  <2>4. \A q \in Reqs : req'[q].pc = "account" => req'[q] = req[q]
    BY <1>3
  <2> HIDE DEF new
  <2>5. QED
    BY <1>2, <2>1, <2>2, <2>3, <2>4 DEF IInv, EntriesOutlive
<1>10. ChecksSound'
  BY <1>2 DEF IInv, ChecksSound
<1>11. QED
  BY <1>5, <1>6, <1>7, <1>8, <1>9, <1>10 DEF IInv

\* The first revocation is kept, later ones write their event only.
LEMMA RevokeIInv ==
  ASSUME IInv, NEW r \in Reqs, SaveRevocation(r)
  PROVE  IInv'
<1> DEFINE s == req[r].sid
           reason == ReasonOf(req[r].op)
<1>1. /\ TypeOK /\ RequestKnows(r) /\ req[r] \in RequestRecord /\ s \in Sessions
  BY DEF IInv, TypeOK, RequestRecord
<1>2. reason \in Reasons /\ reason # None
  BY AuthAssumption DEF ReasonOf, Reasons
<1> HIDE DEF reason
<1>3. /\ row' = IF row[s].revoked = None THEN [row EXCEPT ![s].revoked = reason] ELSE row
      /\ events' = events \cup {[req |-> r, sid |-> s, reason |-> reason]}
      /\ Goto(r, "tell") /\ UNCHANGED <<clock, held, access, until, check, faults>>
      /\ req[r].pc = "revoke"
  BY DEF SaveRevocation, At, reason
<1>4. /\ req' \in [Reqs -> RequestRecord] /\ req'[r].pc = "tell"
      /\ \A q \in Reqs : /\ req'[q].op = req[q].op /\ req'[q].sid = req[q].sid
                         /\ req'[q].gen = req[q].gen /\ req'[q].now = req[q].now
                         /\ q # r => req'[q] = req[q]
  BY <1>1, <1>3, GotoMoves DEF Ongoing
<1>5. /\ row'[s].revoked # None
      /\ \A x \in Sessions : /\ row'[x].gen = row[x].gen
                             /\ row[x].revoked # None => row'[x].revoked # None
                             /\ x # s => row'[x] = row[x]
  BY <1>1, <1>2, <1>3 DEF TypeOK
<1>6. TypeOK'
  <2>1. row \in [Sessions -> [gen : Nat, expires : Nat, revoked : Reasons \cup {None}]]
    BY <1>1 DEF TypeOK
  <2>2. row' \in [Sessions -> [gen : Nat, expires : Nat, revoked : Reasons \cup {None}]]
    BY <1>1, <1>2, <1>3, <2>1
  <2>3. events' \in SUBSET [req : Reqs, sid : Sessions, reason : Reasons]
    BY <1>1, <1>2, <1>3 DEF TypeOK
  <2>4. QED
    BY <1>1, <1>3, <1>4, <2>2, <2>3 DEF TypeOK, RequestRecord
<1>7. RowsSound'
  <2>1. row[s].gen # 0
    BY <1>1, <1>3 DEF RequestKnows
  <2>2. QED
    BY <1>3, <1>5, <2>1 DEF IInv, RowsSound
<1>8. \A q \in Reqs : RequestKnows(q)'
  <2> SUFFICES ASSUME NEW q \in Reqs PROVE RequestKnows(q)'
    OBVIOUS
  <2>1. RequestKnows(q) /\ req[q].sid \in Sessions /\ clock' = clock
    BY <1>1, <1>3 DEF IInv, TypeOK
  <2>2. QED
    BY <1>4, <1>5, <2>1 DEF RequestKnows
<1>9. RotatedOnce'
  BY <1>4 DEF IInv, RotatedOnce
<1>10. EntriesOutlive'
  <2>1. \A q \in Reqs : req'[q].pc = "account" => req'[q] = req[q]
    BY <1>4
  <2>2. UNCHANGED <<clock, access, until>>
    BY <1>3
  <2>3. QED
    BY <1>5, <2>1, <2>2 DEF IInv, EntriesOutlive
<1>11. ChecksSound'
  BY <1>3 DEF IInv, ChecksSound
<1>12. QED
  BY <1>6, <1>7, <1>8, <1>9, <1>10, <1>11 DEF IInv

\* The entry made now outlives the tokens made up to now.
LEMMA TellIInv ==
  ASSUME IInv, NEW r \in Reqs, TellVerifiers(r)
  PROVE  IInv'
<1> DEFINE s == req[r].sid
<1>1. /\ TypeOK /\ RequestKnows(r) /\ req[r] \in RequestRecord /\ s \in Sessions
      /\ clock \in Nat /\ AccessTTL \in Nat \ {0}
  BY AuthAssumption DEF IInv, TypeOK, RequestRecord
<1>2. /\ until' = [until EXCEPT ![s] = clock + AccessTTL]
      /\ Goto(r, Answer(r)) /\ UNCHANGED <<clock, row, held, access, events, check, faults>>
      /\ req[r].pc = "tell"
  BY DEF TellVerifiers, At
<1>3. Answer(r) \in {"ok", "reuse"} /\ (Answer(r) = "ok" => req[r].op # "refresh")
  BY DEF Answer
<1>4. /\ req' \in [Reqs -> RequestRecord] /\ req'[r].pc = Answer(r)
      /\ \A q \in Reqs : /\ req'[q].op = req[q].op /\ req'[q].sid = req[q].sid
                         /\ req'[q].gen = req[q].gen /\ req'[q].now = req[q].now
                         /\ q # r => req'[q] = req[q]
  BY <1>1, <1>2, <1>3, GotoMoves DEF Outcomes
<1>5. row[s].revoked # None
  BY <1>1, <1>2 DEF RequestKnows
<1>6. TypeOK'
  <2>1. until' \in [Sessions -> Nat]
    BY <1>1, <1>2 DEF TypeOK
  <2>2. QED
    BY <1>1, <1>2, <1>4, <2>1 DEF TypeOK, RequestRecord
<1>7. \A q \in Reqs : RequestKnows(q)'
  BY <1>2, <1>3, <1>4, <1>5 DEF IInv, RequestKnows
<1>8. RotatedOnce'
  BY <1>3, <1>4 DEF IInv, RotatedOnce
<1>9. EntriesOutlive'
  <2>1. \A q \in Reqs : req'[q].pc = "account" => req'[q] = req[q]
    BY <1>3, <1>4
  <2>2. \A q \in Reqs : req[q].now + AccessTTL <= clock + AccessTTL
    BY <1>1 DEF IInv, RequestKnows, TypeOK
  <2>3. until'[s] = clock + AccessTTL /\ \A x \in Sessions : x # s => until'[x] = until[x]
    BY <1>1, <1>2 DEF TypeOK
  <2>4. UNCHANGED <<clock, access, row>>
    BY <1>2
  <2>5. QED
    BY <1>5, <2>1, <2>2, <2>3, <2>4 DEF IInv, EntriesOutlive
<1>10. RowsSound' /\ ChecksSound'
  BY <1>2 DEF IInv, RowsSound, ChecksSound
<1>11. QED
  BY <1>6, <1>7, <1>8, <1>9, <1>10 DEF IInv

\* Time passes.
LEMMA TickIInv ==
  ASSUME IInv, Tick
  PROVE  IInv'
<1>1. TypeOK /\ clock \in Nat /\ clock' = clock + 1 /\ clock < MaxTime
      /\ AccessTTL \in Nat /\ MaxTime \in Nat
      /\ UNCHANGED <<row, req, held, access, events, until, check, faults>>
  BY AuthAssumption DEF IInv, TypeOK, Tick
<1>2. TypeOK'
  <2>1. clock' \in 0..MaxTime
    BY <1>1
  <2>2. QED
    BY <1>1, <2>1 DEF TypeOK
<1>3. \A r \in Reqs : RequestKnows(r)'
  <2> SUFFICES ASSUME NEW r \in Reqs PROVE RequestKnows(r)'
    OBVIOUS
  <2>1. RequestKnows(r) /\ req[r].now \in Nat
    BY <1>1 DEF IInv, TypeOK
  <2>2. req'[r].now <= clock'
    BY <1>1, <2>1 DEF RequestKnows
  <2>3. QED
    BY <1>1, <2>1, <2>2 DEF RequestKnows
<1>4. EntriesOutlive'
  <2>1. \A a \in access : a.exp \in Nat
    BY <1>1 DEF TypeOK, Access
  <2>2. \A a \in access' : a.exp <= clock' + AccessTTL
    BY <1>1, <2>1 DEF IInv, EntriesOutlive
  <2>3. QED
    BY <1>1, <2>2 DEF IInv, EntriesOutlive
<1>5. RowsSound' /\ RotatedOnce' /\ ChecksSound'
  BY <1>1 DEF IInv, RowsSound, RotatedOnce, ChecksSound
<1>6. QED
  BY <1>2, <1>3, <1>4, <1>5 DEF IInv

\* Verify changes nothing but its own progress.
LEMMA VerifyIInv ==
  ASSUME IInv, NEW c \in Checks, Verify(c)
  PROVE  IInv'
<1>1. /\ TypeOK /\ MaxFaults \in Nat
      /\ UNCHANGED <<clock, row, req, held, access, events, until>>
  BY AuthAssumption DEF IInv, Verify, ParseToken, IsRevoked, IsRevokedFails
<1>2. access \subseteq Access
  BY <1>1 DEF TypeOK
<1>3. check' \in [Checks -> [pc : {"idle", "lookup", "accepted", "failopen", "refused"},
                           tok : Access \cup {None}]]
      /\ faults' \in 0..MaxFaults
  BY <1>1, <1>2, SMTT(30) DEF Verify, ParseToken, IsRevoked, IsRevokedFails, TypeOK
<1>4. TypeOK'
  BY <1>1, <1>3 DEF TypeOK
<1>5. ChecksSound'
  BY <1>1 DEF Verify, ParseToken, IsRevoked, IsRevokedFails, TypeOK, IInv, ChecksSound
<1>6. RowsSound' /\ RotatedOnce' /\ EntriesOutlive' /\ \A r \in Reqs : RequestKnows(r)'
  BY <1>1 DEF IInv, RowsSound, RotatedOnce, EntriesOutlive, RequestKnows
<1>7. QED
  BY <1>4, <1>5, <1>6 DEF IInv

\* Every step of the sessions preserves the inductive invariant.
LEMMA NextIInv == IInv /\ [Next]_vars => IInv'
<1> SUFFICES ASSUME IInv, [Next]_vars PROVE IInv'
  OBVIOUS
<1>1. CASE UNCHANGED vars
  BY <1>1 DEF vars, IInv, TypeOK, RowsSound, RequestKnows, RotatedOnce, EntriesOutlive, ChecksSound
<1>2. CASE Tick
  BY <1>2, TickIInv
<1>3. ASSUME NEW r \in Reqs, Request(r) PROVE IInv'
  BY <1>3, ArriveIInv, StartIInv, ReadIInv, RotateIInv, IssueIInv, RevokeIInv, TellIInv DEF Request
<1>4. ASSUME NEW c \in Checks, Verify(c) PROVE IInv'
  BY <1>4, VerifyIInv
<1>5. QED
  BY <1>1, <1>2, <1>3, <1>4 DEF Next

\* The inductive invariant holds throughout.
THEOREM Invariance == Spec => []IInv
BY InitIInv, NextIInv, PTL DEF Spec

\* Every reachable state of the sessions is well typed.
THEOREM TypeCorrect == Spec => []TypeOK
<1>1. IInv => TypeOK BY DEF IInv
<1>2. QED BY <1>1, Invariance, PTL

\* A refresh token works once: of the requests that present it at most one
\* rotates the session, and one that is told of reuse has left it revoked.
THEOREM TokensWorkOnce == Spec => []ReuseIsCaught
<1>1. IInv => ReuseIsCaught
  BY DEF IInv, ReuseIsCaught, ReuseRevokes, RequestKnows
<1>2. QED BY <1>1, Invariance, PTL

\* No step of any request changes a revoked row.
LEMMA RevokedRowsKept ==
  ASSUME IInv, [Next]_vars, NEW s \in Sessions, row[s].revoked # None
  PROVE  row'[s] = row[s]
<1>1. TypeOK /\ row \in [Sessions -> [gen : Nat, expires : Nat, revoked : Reasons \cup {None}]]
  BY DEF IInv, TypeOK
<1>2. row[s].gen # 0
  BY DEF IInv, RowsSound
<1>3. ASSUME NEW r \in Reqs, Request(r) PROVE row'[s] = row[s]
  <2>1. req[r].sid \in Sessions
    BY <1>1 DEF TypeOK
  <2>2. CASE StartSession(r)
    BY <1>1, <1>2, <2>1, <2>2 DEF StartSession
  <2>3. CASE SaveRotation(r)
    BY <1>1, <2>1, <2>3 DEF SaveRotation
  <2>4. CASE SaveRevocation(r)
    BY <1>1, <2>1, <2>4 DEF SaveRevocation
  <2>5. CASE UNCHANGED row
    BY <2>5
  <2>6. QED
    BY <1>3, <2>2, <2>3, <2>4, <2>5
    DEF Request, ArriveLogin, ArriveRefresh, ArriveLogout, ArriveRevoke, Arrive, Lookup, LookupPrevious,
        IssueRefreshed, LookupLogout, LookupOwn, TellVerifiers, TellFails, Fail
<1>4. ASSUME NEW c \in Checks, Verify(c) PROVE row'[s] = row[s]
  BY <1>4 DEF Verify, ParseToken, IsRevoked, IsRevokedFails
<1>5. CASE Tick \/ UNCHANGED vars
  BY <1>5 DEF Tick, vars
<1>6. QED
  BY <1>3, <1>4, <1>5 DEF Next

\* A verification that accepts found no entry, or the token had expired.
LEMMA AcceptedWithoutEntry ==
  ASSUME IInv, [Next]_vars, NEW c \in Checks, check'[c].pc = "accepted", check[c].pc # "accepted"
  PROVE  until[check[c].tok.sid] = 0 \/ clock >= check[c].tok.exp
<1>1. TypeOK
  BY DEF IInv
<1>2. ~ UNCHANGED check
  OBVIOUS
<1>3. ASSUME NEW r \in Reqs, Request(r) PROVE UNCHANGED check
  BY <1>3 DEF Request, ArriveLogin, ArriveRefresh, ArriveLogout, ArriveRevoke, Arrive, StartSession, Lookup,
        LookupPrevious, SaveRotation, IssueRefreshed, LookupLogout, LookupOwn, SaveRevocation, TellVerifiers,
        TellFails, Fail
<1>4. PICK d \in Checks : Verify(d)
  BY <1>2, <1>3 DEF Next, Tick, vars
<1>5. IsRevoked(c) /\ ~ (clock < until[check[c].tok.sid])
  BY <1>1, <1>4 DEF Verify, ParseToken, IsRevoked, IsRevokedFails, TypeOK
<1>6. check[c].tok \in access /\ access \subseteq Access
  BY <1>1, <1>5 DEF IsRevoked, IInv, ChecksSound, TypeOK
<1>7. check[c].tok.sid \in Sessions /\ check[c].tok.exp \in Nat
  BY <1>6 DEF Access
<1>8. until[check[c].tok.sid] \in Nat /\ clock \in Nat
  BY <1>1, <1>7 DEF TypeOK
<1>9. until[check[c].tok.sid] # 0 => check[c].tok.exp <= until[check[c].tok.sid]
  BY <1>6, <1>7 DEF IInv, EntriesOutlive
<1>10. QED
  BY <1>5, <1>7, <1>8, <1>9

\* A revocation holds: in the row for ever, and, once verifiers are told, for
\* every access token that has not expired, the ones a refresh in flight made
\* after the revocation included.
THEOREM RevocationIsFinal == Spec => RevocationHolds
<1>1. IInv /\ [Next]_vars => [\A s \in Sessions : row[s].revoked # None => row'[s] = row[s]]_vars
  BY RevokedRowsKept
<1>2. IInv /\ [Next]_vars =>
        [\A c \in Checks :
           check'[c].pc = "accepted" /\ check[c].pc # "accepted"
           => LET a == check[c].tok IN until[a.sid] = 0 \/ clock >= a.exp]_vars
  BY AcceptedWithoutEntry
<1>3. Spec => RevokedIsFinal
  BY <1>1, Invariance, PTL DEF Spec, RevokedIsFinal
<1>4. Spec => RevokedNotAccepted
  BY <1>2, Invariance, PTL DEF Spec, RevokedNotAccepted
<1>5. QED
  BY <1>3, <1>4 DEF RevocationHolds

-----------------------------------------------------------------------------
(* Key discovery *)

KeyCallRecord ==
  [pc : {"idle", "waiting", "fetching", "done"}, kid : Nat, since : Nat, body : Nat,
   fetch : {"none", "ok", "failed"}, found : BOOLEAN]

KeysTyped ==
  /\ keyClock \in Nat
  /\ signingKey \in [kid : Nat \ {0}, since : Nat] /\ signingKey.since <= keyClock
  /\ keyCache \in [kid : Nat, at : Nat] /\ keyCache.at <= keyClock
  /\ keyCall \in [KeyCallers -> KeyCallRecord]

\* A fetch under way is younger than its timeout, and one that was answered
\* with another key than Auth's began before Auth changed it.
FetchesSound ==
  \A c \in KeyCallers :
    /\ keyCall[c].pc # "idle" => keyCall[c].kid # 0
    /\ keyCall[c].pc \in {"idle", "waiting"} => keyCall[c].body = 0
    /\ keyCall[c].since <= keyClock
    /\ keyCall[c].pc = "fetching" => keyClock <= keyCall[c].since + FetchTimeout
    /\ keyCall[c].pc = "fetching" /\ keyCall[c].body \notin {0, signingKey.kid} =>
         keyCall[c].since <= signingKey.since

\* Hence the keys in memory, when they are not Auth's, arrived at most a fetch
\* after Auth changed its own.
CacheSound == keyCache.kid \notin {0, signingKey.kid} => keyCache.at <= signingKey.since + FetchTimeout

KeysInv == KeysTyped /\ FetchesSound /\ CacheSound

\* Before the first fetch nothing is known.
LEMMA InitKeys == KeysInit => KeysInv
BY KeyAssumption DEF KeysInit, KeysInv, KeysTyped, FetchesSound, CacheSound, KeyCallRecord, NoKeyCall

\* The records a call is replaced by.
LEMMA VerdictRecord ==
  ASSUME NEW c, keyCall[c] \in KeyCallRecord, NEW f \in {"none", "ok", "failed"}, NEW v \in BOOLEAN
  PROVE  /\ Verdict(c, f, v) \in KeyCallRecord /\ Verdict(c, f, v).pc = "done"
         /\ Verdict(c, f, v).kid = keyCall[c].kid /\ Verdict(c, f, v).since = keyCall[c].since
         /\ Verdict(c, f, v).body = keyCall[c].body
<1>1. Verdict(c, f, v) \in KeyCallRecord
  BY Zenon DEF KeyCallRecord, Verdict
<1>2. QED
  BY <1>1 DEF KeyCallRecord, Verdict

\* A new call has asked for nothing and knows nothing.
LEMMA NewCallRecord ==
  ASSUME NEW kid \in Nat, NEW w, w = [NoKeyCall EXCEPT !.pc = "waiting", !.kid = kid]
  PROVE  /\ NoKeyCall \in KeyCallRecord /\ w \in KeyCallRecord
         /\ w.pc = "waiting" /\ w.kid = kid /\ w.body = 0 /\ w.since = 0
<1>1. NoKeyCall \in KeyCallRecord
  BY DEF KeyCallRecord, NoKeyCall
<1>2. w \in KeyCallRecord
  BY <1>1 DEF KeyCallRecord
<1>3. w.pc = "waiting" /\ w.kid = kid /\ w.body = 0 /\ w.since = 0
  BY <1>1 DEF KeyCallRecord, NoKeyCall
<1>4. QED
  BY <1>1, <1>2, <1>3

\* Asking, waiting, fetching, rotating and time preserve the invariant.
LEMMA NextKeys == KeysInv /\ [KeysNext]_keyVars => KeysInv'
<1> SUFFICES ASSUME KeysInv, [KeysNext]_keyVars PROVE KeysInv'
  OBVIOUS
<1> USE KeyAssumption DEF KeysInv
<1>1. CASE UNCHANGED keyVars
  BY <1>1 DEF keyVars, KeysTyped, FetchesSound, CacheSound
<1>2. CASE KeyTick
  <2>1. KeysTyped' /\ CacheSound'
    BY <1>2 DEF KeyTick, KeysTyped, CacheSound
  <2>2. \A c \in KeyCallers : keyCall[c].since \in Nat
    BY DEF KeysTyped, KeyCallRecord
  <2>3. \A c \in KeyCallers : keyCall[c].pc = "fetching" => keyClock - keyCall[c].since < FetchTimeout
    BY <1>2 DEF KeyTick, Holder
  <2>4. FetchesSound'
    BY <1>2, <2>2, <2>3 DEF KeyTick, KeysTyped, FetchesSound
  <2>5. QED
    BY <2>1, <2>4
<1>3. CASE RotateKey
  <2>1. KeysTyped'
    BY <1>3 DEF RotateKey, KeysTyped
  <2>2. signingKey'.since = keyClock /\ UNCHANGED <<keyClock, keyCache, keyCall>>
    BY <1>3 DEF RotateKey
  <2>3. CacheSound'
    BY <2>2 DEF KeysTyped, CacheSound
  <2>4. FetchesSound'
    BY <2>2 DEF FetchesSound, KeysTyped, KeyCallRecord
  <2>5. QED
    BY <2>1, <2>3, <2>4
<1>4. ASSUME NEW c \in KeyCallers, NEW kid \in Kids, AskKey(c, kid) PROVE KeysInv'
  <2>1. kid \in Nat \ {0} /\ UNCHANGED <<keyClock, signingKey, keyCache>>
    BY <1>4 DEF AskKey, Kids
  <2>2. PICK w \in KeyCallRecord :
          /\ keyCall' = [keyCall EXCEPT ![c] = w]
          /\ w.pc = "waiting" /\ w.kid = kid /\ w.body = 0 /\ w.since = 0
    BY <1>4, <2>1, NewCallRecord, ZenonT(30) DEF AskKey, KeyStep
  <2>3. KeysTyped' /\ CacheSound'
    BY <2>1, <2>2 DEF KeysTyped, CacheSound
  <2>4. FetchesSound'
    BY <2>1, <2>2 DEF KeysTyped, FetchesSound
  <2>5. QED
    BY <2>3, <2>4
<1>5. ASSUME NEW c \in KeyCallers, Key(c) PROVE KeysInv'
  <2>1. UNCHANGED <<keyClock, signingKey, keyCache>> /\ keyCall[c].pc = "waiting" /\ keyCall[c] \in KeyCallRecord
    BY <1>5 DEF Key, KeyStep, KeysTyped
  <2>2. PICK w \in KeyCallRecord :
          /\ keyCall' = [keyCall EXCEPT ![c] = w]
          /\ w.kid = keyCall[c].kid /\ w.body = keyCall[c].body
          /\ \/ w.pc = "done" /\ w.since = keyCall[c].since
             \/ w.pc = "fetching" /\ w.since = keyClock
    <3>1. CASE keyCall' = [keyCall EXCEPT ![c] = Verdict(c, "none", keyCache.kid = keyCall[c].kid)]
      <4>1. (keyCache.kid = keyCall[c].kid) \in BOOLEAN
        OBVIOUS
      <4>2. QED
        BY <2>1, <3>1, <4>1, VerdictRecord, Zenon
    <3>2. CASE keyCall' = [keyCall EXCEPT ![c] = [keyCall[c] EXCEPT !.pc = "fetching", !.since = keyClock]]
      <4> DEFINE w == [keyCall[c] EXCEPT !.pc = "fetching", !.since = keyClock]
      <4>1. w \in KeyCallRecord
        BY <2>1 DEF KeysTyped, KeyCallRecord
      <4>2. w.pc = "fetching" /\ w.since = keyClock /\ w.kid = keyCall[c].kid /\ w.body = keyCall[c].body
        BY <2>1 DEF KeyCallRecord
      <4>3. QED
        BY <3>2, <4>1, <4>2
    <3>3. QED
      BY <1>5, <3>1, <3>2 DEF Key, KeyStep
  <2>3. KeysTyped' /\ CacheSound'
    BY <2>1, <2>2 DEF KeysTyped, CacheSound
  <2>4. FetchesSound'
    BY <2>1, <2>2 DEF KeysTyped, FetchesSound
  <2>5. QED
    BY <2>3, <2>4
<1>6. ASSUME NEW c \in KeyCallers, ServeJWKS(c) PROVE KeysInv'
  <2>1. UNCHANGED <<keyClock, signingKey, keyCache>> /\ keyCall[c].pc = "fetching" /\ keyCall[c] \in KeyCallRecord
        /\ keyCall' = [keyCall EXCEPT ![c] = [keyCall[c] EXCEPT !.body = signingKey.kid]]
    BY <1>6 DEF ServeJWKS, KeyStep, KeysTyped
  <2>2. KeysTyped' /\ CacheSound'
    BY <2>1 DEF KeysTyped, KeyCallRecord, CacheSound
  <2>3. FetchesSound'
    BY <2>1 DEF KeysTyped, FetchesSound, KeyCallRecord
  <2>4. QED
    BY <2>2, <2>3
<1>7. ASSUME NEW c \in KeyCallers, RefreshKeys(c) \/ RefreshFails(c) PROVE KeysInv'
  <2>1. UNCHANGED <<keyClock, signingKey>> /\ keyCall[c].pc = "fetching" /\ keyCall[c] \in KeyCallRecord
    BY <1>7 DEF RefreshKeys, RefreshFails, KeyStep, KeysTyped
  <2>2. PICK w \in KeyCallRecord :
          /\ keyCall' = [keyCall EXCEPT ![c] = w]
          /\ w.pc = "done" /\ w.kid = keyCall[c].kid /\ w.since = keyCall[c].since
    <3>1. (keyCall[c].body = keyCall[c].kid) \in BOOLEAN /\ (keyCache.kid = keyCall[c].kid) \in BOOLEAN
      OBVIOUS
    <3>2. CASE RefreshKeys(c)
      BY <2>1, <3>1, <3>2, VerdictRecord, Zenon DEF RefreshKeys, KeyStep
    <3>3. CASE RefreshFails(c)
      BY <2>1, <3>1, <3>3, VerdictRecord, Zenon DEF RefreshFails, KeyStep
    <3>4. QED
      BY <1>7, <3>2, <3>3
  <2>3. keyCache' = keyCache \/ keyCache' = [kid |-> keyCall[c].body, at |-> keyClock]
    BY <1>7 DEF RefreshKeys, RefreshFails
  <2>4. KeysTyped'
    BY <2>1, <2>2, <2>3 DEF KeysTyped, KeyCallRecord
  <2>5. CacheSound'
    BY <2>1, <2>3 DEF KeysTyped, KeyCallRecord, CacheSound, FetchesSound
  <2>6. FetchesSound'
    BY <2>1, <2>2 DEF KeysTyped, FetchesSound, KeyCallRecord
  <2>7. QED
    BY <2>4, <2>5, <2>6
<1>8. ASSUME NEW c \in KeyCallers, KeyAnswered(c) PROVE KeysInv'
  BY <1>8 DEF KeyAnswered, KeyStep, NoKeyCall, KeysTyped, KeyCallRecord, FetchesSound, CacheSound
<1>9. QED
  BY <1>1, <1>2, <1>3, <1>4, <1>5, <1>6, <1>7, <1>8 DEF KeysNext

\* The invariant of key discovery holds throughout.
THEOREM KeysInvariance == KeysSpec => []KeysInv
BY InitKeys, NextKeys, PTL DEF KeysSpec

\* A caller gets its verdict from Key, or at the end of its own fetch.
LEMMA VerdictOf ==
  ASSUME KeysInv, [KeysNext]_keyVars, NEW c \in KeyCallers,
         keyCall[c].pc # "done", keyCall'[c].pc = "done", keyCall'[c].fetch # "failed"
  PROVE  \/ Key(c) /\ keyCall[c].pc = "waiting"
         \/ RefreshKeys(c) /\ keyCall[c].pc = "fetching"
<1>1. keyCall \in [KeyCallers -> KeyCallRecord] /\ ~ UNCHANGED keyCall
  BY DEF KeysInv, KeysTyped
<1>2. PICK d \in KeyCallers :
        \/ \E kid \in Kids : AskKey(d, kid)
        \/ Key(d) \/ ServeJWKS(d) \/ RefreshKeys(d) \/ RefreshFails(d) \/ KeyAnswered(d)
  BY <1>1 DEF KeysNext, KeyTick, RotateKey, keyVars
<1>3. d = c
  BY <1>1, <1>2 DEF AskKey, Key, ServeJWKS, RefreshKeys, RefreshFails, KeyAnswered, KeyStep
<1>4. ~ (\E kid \in Kids : AskKey(c, kid)) /\ ~ ServeJWKS(c) /\ ~ KeyAnswered(c)
  BY <1>1 DEF AskKey, ServeJWKS, KeyAnswered, KeyStep, NoKeyCall, KeyCallRecord
<1>5. ~ RefreshFails(c)
  BY <1>1 DEF RefreshFails, KeyStep, Verdict, KeyCallRecord
<1>6. QED
  BY <1>2, <1>3, <1>4, <1>5 DEF Key, RefreshKeys, KeyStep

\* The keys a service knows follow a rotation of Auth's within minRefresh, and
\* the old key is forgotten within the TTL, up to the length of one fetch.
THEOREM KeysFollowRotation == KeysSpec => KeysFollow
<1> USE KeyAssumption
<1>1. ASSUME KeysInv, [KeysNext]_keyVars, NEW c \in KeyCallers,
             keyCall[c].pc # "done", keyCall'[c].pc = "done", keyCall'[c].fetch # "failed"
      PROVE  /\ ~ keyCall'[c].found /\ keyCall[c].kid = signingKey.kid
                  => keyClock - signingKey.since < MinRefresh + FetchTimeout
             /\ keyCall'[c].found /\ keyCall[c].kid # signingKey.kid
                  => keyClock - signingKey.since < KeyTTL + FetchTimeout
  <2>1. KeysTyped /\ keyCall[c] \in KeyCallRecord /\ keyCall[c].kid # 0
    BY <1>1, VerdictOf DEF KeysInv, KeysTyped, FetchesSound
  <2>2. CASE Key(c)
    <3>1. /\ keyCall'[c].found <=> (keyCache.kid = keyCall[c].kid)
          /\ \/ keyCache.kid = keyCall[c].kid /\ keyClock - keyCache.at < KeyTTL
             \/ keyCache.kid # 0 /\ keyClock - keyCache.at < MinRefresh
      BY <1>1, <2>1, <2>2 DEF Key, KeyStep, Verdict, KeysTyped, KeyCallRecord
    <3>2. QED
      BY <1>1, <2>1, <3>1 DEF KeysInv, KeysTyped, CacheSound
  <2>3. CASE RefreshKeys(c) /\ keyCall[c].pc = "fetching"
    <3>1. (keyCall'[c].found <=> keyCall[c].body = keyCall[c].kid) /\ keyCall[c].body # 0
      BY <2>1, <2>3 DEF RefreshKeys, KeyStep, Verdict, KeysTyped, KeyCallRecord
    <3>2. keyCall[c].body # signingKey.kid => keyClock <= signingKey.since + FetchTimeout
      BY <1>1, <2>1, <2>3, <3>1 DEF KeysInv, KeysTyped, FetchesSound, KeyCallRecord
    <3>3. QED
      BY <2>1, <3>1, <3>2 DEF KeysTyped
  <2>4. QED
    BY <1>1, <2>2, <2>3, VerdictOf
<1>2. KeysInv /\ [KeysNext]_keyVars =>
        [\A c \in KeyCallers :
           /\ keyCall[c].pc # "done" /\ keyCall'[c].pc = "done" /\ ~keyCall'[c].found
           /\ keyCall[c].kid = signingKey.kid /\ keyCall'[c].fetch # "failed"
           => keyClock - signingKey.since < MinRefresh + FetchTimeout]_keyVars
  BY <1>1
<1>3. KeysInv /\ [KeysNext]_keyVars =>
        [\A c \in KeyCallers :
           /\ keyCall[c].pc # "done" /\ keyCall'[c].pc = "done" /\ keyCall'[c].found
           /\ keyCall[c].kid # signingKey.kid /\ keyCall'[c].fetch # "failed"
           => keyClock - signingKey.since < KeyTTL + FetchTimeout]_keyVars
  BY <1>1
<1>4. KeysSpec => NewKeyFound
  BY <1>2, KeysInvariance, PTL DEF KeysSpec, NewKeyFound
<1>5. KeysSpec => OldKeyRefused
  BY <1>3, KeysInvariance, PTL DEF KeysSpec, OldKeyRefused
<1>6. QED
  BY <1>4, <1>5 DEF KeysFollow

-----------------------------------------------------------------------------
(* The login throttle *)

Bound == MaxFailures + (Cardinality(Attempts) - 1) + redisFaults

\* FailuresBounded is not inductive: the failures already let through count too,
\* and a window that has not begun has no failures.
ThrottleInv ==
  /\ ThrottleTypeOK
  /\ \A w \in 0..MaxWindow : w > window => count[w] = 0
  /\ FailuresBounded
  /\ count[window] + Cardinality(Pending) <= Bound

-----------------------------------------------------------------------------
\* The clients let through are some of the clients.
LEMMA PendingCard ==
  /\ Cardinality(Attempts) \in Nat
  /\ IsFiniteSet(Pending)
  /\ Cardinality(Pending) \in 0..Cardinality(Attempts)
<1>1. Pending \subseteq Attempts
  BY DEF Pending
<1> QED
  BY <1>1, FS_Subset, FS_CardinalityType, ThrottleAssumption

\* Initially no counter exists.
LEMMA InitThrottle == ThrottleInit => ThrottleInv
<1> SUFFICES ASSUME ThrottleInit PROVE ThrottleInv
  OBVIOUS
<1>1. Pending = {}
  BY DEF ThrottleInit, Pending
<1>2. Cardinality(Pending) = 0
  BY <1>1, FS_EmptySet
<1>3. ThrottleTypeOK
  BY ThrottleAssumption DEF ThrottleInit, ThrottleTypeOK
<1> QED
  BY <1>2, <1>3, PendingCard, ThrottleAssumption
  DEF ThrottleInit, ThrottleInv, FailuresBounded, Bound

\* A step that changes no counter keeps the bound if the room left in the current
\* window does not shrink below the clients let through.
LEMMA CountersKept ==
  ASSUME ThrottleInv, ThrottleTypeOK', UNCHANGED <<window, count>>,
         redisFaults' >= redisFaults,
         count[window] + Cardinality(Pending)' <= Bound'
  PROVE  ThrottleInv'
BY PendingCard, ThrottleAssumption, SMTT(30)
DEF ThrottleInv, FailuresBounded, Bound, ThrottleTypeOK

\* Each call of Login, and the passing of a window, keep the invariant.
LEMMA NextThrottle == ThrottleInv /\ [ThrottleNext]_throttleVars => ThrottleInv'
<1> SUFFICES ASSUME ThrottleInv, [ThrottleNext]_throttleVars PROVE ThrottleInv'
  OBVIOUS
<1> USE ThrottleAssumption
<1>t. ThrottleTypeOK
  BY DEF ThrottleInv
<1>c. /\ Cardinality(Attempts) \in Nat
      /\ IsFiniteSet(Pending)
      /\ Cardinality(Pending) \in 0..Cardinality(Attempts)
  BY PendingCard
<1>d. Cardinality(Pending)' \in 0..Cardinality(Attempts)
  <2>1. Pending' \subseteq Attempts
    BY DEF Pending
  <2> QED
    BY <2>1, FS_Subset, FS_CardinalityType
<1>1. CASE NextWindow
  <2>1. ThrottleTypeOK'
    BY <1>1, <1>t DEF NextWindow, ThrottleTypeOK
  <2>2. count'[window'] = 0 /\ redisFaults' = redisFaults
    BY <1>1, <1>t DEF NextWindow, ThrottleInv, ThrottleTypeOK
  <2>3. \A w \in 0..MaxWindow : w > window' => count'[w] = 0
    BY <1>1, <1>t DEF NextWindow, ThrottleInv, ThrottleTypeOK
  <2>4. FailuresBounded'
    BY <1>1, <1>t DEF NextWindow, ThrottleInv, FailuresBounded, ThrottleTypeOK
  <2>5. (count[window] + Cardinality(Pending) <= Bound)'
    BY <2>2, <1>c, <1>d, <1>t DEF Bound, ThrottleTypeOK
  <2> QED
    BY <2>1, <2>3, <2>4, <2>5 DEF ThrottleInv
<1>2. ASSUME NEW a \in Attempts, Allow(a) PROVE ThrottleInv'
  <2>1. ThrottleTypeOK'
    BY <1>2, <1>t DEF Allow, Move, ThrottleTypeOK
  <2>2. CASE count[window] < MaxFailures
    BY <2>1, <2>2, <1>2, <1>t, <1>c, <1>d, CountersKept DEF Allow, Bound, ThrottleTypeOK
  <2>3. CASE ~(count[window] < MaxFailures)
    <3>1. Pending' = Pending
      BY <2>3, <1>2, <1>t DEF Allow, Move, Pending, ThrottleTypeOK
    <3> QED
      BY <3>1, <2>1, <1>2, <1>t, <1>c, CountersKept DEF Allow, Bound, ThrottleTypeOK, ThrottleInv
  <2> QED
    BY <2>2, <2>3
<1>3. ASSUME NEW a \in Attempts, AllowFails(a) PROVE ThrottleInv'
  <2>1. ThrottleTypeOK'
    BY <1>3, <1>t DEF AllowFails, RedisDown, Move, ThrottleTypeOK
  <2>2. Pending' = Pending \cup {a}
    BY <1>3, <1>t DEF AllowFails, Move, Pending, ThrottleTypeOK
  <2>n. a \notin Pending
    BY <1>3 DEF AllowFails, Move, Pending
  <2>3. Cardinality(Pending') = Cardinality(Pending) + 1
    BY <2>2, <2>n, <1>c, FS_AddElement
  <2> QED
    BY <2>1, <2>3, <1>3, <1>t, <1>c, <1>d, CountersKept, SMTT(30)
    DEF AllowFails, RedisDown, Bound, ThrottleTypeOK, ThrottleInv
<1>4. ASSUME NEW a \in Attempts,
             VerifyPassword(a) \/ VerifyError(a) \/ Retry(a) \/ CallLost(a)
      PROVE  ThrottleInv'
  <2>1. ThrottleTypeOK'
    BY <1>4, <1>t DEF VerifyPassword, VerifyError, Retry, CallLost, RedisDown, Move, ThrottleTypeOK
  <2>2. Pending' \subseteq Pending
    BY <1>4, <1>t DEF VerifyPassword, VerifyError, Retry, CallLost, Move, Pending, ThrottleTypeOK
  <2>3. Cardinality(Pending') <= Cardinality(Pending)
    BY <2>2, <1>c, FS_Subset
  <2>4. /\ UNCHANGED <<window, count>>
        /\ redisFaults' = redisFaults \/ redisFaults' = redisFaults + 1
    BY <1>4 DEF VerifyPassword, VerifyError, Retry, CallLost, RedisDown
  <2> QED
    BY <2>1, <2>3, <2>4, <1>t, <1>c, <1>d, CountersKept, SMTT(30) DEF Bound, ThrottleTypeOK, ThrottleInv
<1>5. ASSUME NEW a \in Attempts, Failed(a) PROVE ThrottleInv'
  <2>1. ThrottleTypeOK'
    BY <1>5, <1>t DEF Failed, Move, ThrottleTypeOK
  <2>2. a \in Pending /\ Pending' = Pending \ {a}
    BY <1>5, <1>t DEF Failed, Move, Pending, ThrottleTypeOK
  <2>3. Cardinality(Pending') = Cardinality(Pending) - 1
    BY <2>2, <1>c, FS_RemoveElement
  <2>4. /\ window' = window /\ redisFaults' = redisFaults
        /\ count' = [count EXCEPT ![window] = @ + 1]
    BY <1>5 DEF Failed
  <2>5. (count[window] + Cardinality(Pending) <= Bound)'
    BY <2>3, <2>4, <1>t, <1>c DEF Bound, ThrottleTypeOK, ThrottleInv
  <2>6. \A w \in 0..MaxWindow : w > window' => count'[w] = 0
    BY <2>4, <1>t DEF ThrottleTypeOK, ThrottleInv
  <2>7. FailuresBounded'
    BY <2>1, <2>4, <2>5, <1>t, <1>c, <1>d, SMTT(30) DEF ThrottleTypeOK, ThrottleInv, FailuresBounded, Bound
  <2> QED
    BY <2>1, <2>5, <2>6, <2>7 DEF ThrottleInv
<1>6. ASSUME NEW a \in Attempts, Reset(a) PROVE ThrottleInv'
  <2>1. ThrottleTypeOK'
    BY <1>6, <1>t DEF Reset, Move, ThrottleTypeOK
  <2>2. /\ window' = window /\ redisFaults' = redisFaults
        /\ count' = [count EXCEPT ![window] = 0]
    BY <1>6 DEF Reset
  <2>3. (count[window] + Cardinality(Pending) <= Bound)'
    BY <2>2, <1>t, <1>c, <1>d DEF Bound, ThrottleTypeOK
  <2>4. \A w \in 0..MaxWindow : w > window' => count'[w] = 0
    BY <2>2, <1>t DEF ThrottleTypeOK, ThrottleInv
  <2>5. FailuresBounded'
    BY <2>1, <2>2, <1>t, <1>c DEF ThrottleTypeOK, ThrottleInv, FailuresBounded
  <2> QED
    BY <2>1, <2>3, <2>4, <2>5 DEF ThrottleInv
<1>7. CASE UNCHANGED throttleVars
  BY <1>7 DEF throttleVars, ThrottleInv, ThrottleTypeOK, FailuresBounded, Bound, Pending
<1> QED
  BY <1>1, <1>2, <1>3, <1>4, <1>5, <1>6, <1>7 DEF ThrottleNext, Login

\* The invariant holds in every behaviour of the throttle.
THEOREM ThrottleInvariance == ThrottleSpec => []ThrottleInv
BY InitThrottle, NextThrottle, PTL DEF ThrottleSpec

\* For any number of clients and any limit: the failures counted in one window
\* exceed the limit by less than one per client, plus one per Allow Redis failed.
THEOREM FailuresStayBounded == ThrottleSpec => []FailuresBounded
<1>1. ThrottleInv => FailuresBounded
  BY DEF ThrottleInv
<1> QED
  BY <1>1, ThrottleInvariance, PTL

-----------------------------------------------------------------------------
(* The browser's session (WebSession)                                       *)

WebPcs == {"idle", "sent", "retried", "joined", "refresh", "rotate", "answer"}
WebNexts == {"send", "retry"}
Truth == BOOLEAN
Callers == WebCalls \cup {NoCaller}
Pages == Tabs \cup {NoCaller}
WebCallRecord == [pc : WebPcs, tab : Pages, token : Nat, sent : Nat, answer : Nat, next : WebNexts]
TabRecord == [token : Nat, booted : Truth, inflight : Callers]
RowRecord == [current : Nat, active : Truth]
HistoryRecord == [expiries : Nat, loads : Nat, failed : Truth, overlap : Truth]

WebTyped ==
  /\ session \in RowRecord
  /\ cookie \in Nat
  /\ tab \in [Tabs -> TabRecord]
  /\ webCall \in [WebCalls -> WebCallRecord]
  /\ expired \in Nat
  /\ web \in HistoryRecord
  /\ \A c \in WebCalls : webCall[c].pc # "idle" => webCall[c].tab \in Tabs

Asking(w) == w.pc \in {"refresh", "rotate"}
Refreshing(w) == w.pc \in {"refresh", "rotate", "answer"}

\* A tab's refresh in flight is the call that makes it, and no other call of
\* the tab makes one.
OneRefresh ==
  /\ \A t \in Tabs : tab[t].inflight # NoCaller =>
       tab[t].inflight \in WebCalls /\ Refreshing(webCall[tab[t].inflight]) /\ webCall[tab[t].inflight].tab = t
  /\ \A c \in WebCalls : Refreshing(webCall[c]) => webCall[c].tab \in Tabs /\ tab[webCall[c].tab].inflight = c

\* The newest token is in one place: in the cookie (and with those who sent
\* it), or in one answer on its way.
OneHolder ==
  /\ 0 < expired /\ expired <= session.current /\ cookie <= session.current
  /\ \A c \in WebCalls :
       LET w == webCall[c] IN
       /\ Asking(w) => w.sent <= session.current
       /\ w.pc # "answer" => w.answer = 0
       /\ w.pc = "answer" /\ w.answer # 0 =>
            /\ w.answer = session.current /\ cookie # session.current
            /\ \A d \in WebCalls : Asking(webCall[d]) => webCall[d].sent # session.current
            /\ \A d \in WebCalls \ {c} : webCall[d].pc = "answer" => webCall[d].answer = 0

\* A tab refreshes only when it has no token or an expired one.
NeedsRefresh ==
  /\ \A t \in Tabs : ~tab[t].booted => tab[t].token = 0
  /\ \A c \in WebCalls : Refreshing(webCall[c]) /\ session.active => tab[webCall[c].tab].token <= expired

\* Without a failure and without tabs that overlap there is one refresh at a
\* time, it presents the newest token, and its answer has the next one.
Undisturbed ==
  ~web.failed /\ ~web.overlap =>
    /\ session.active /\ cookie # 0
    /\ \A t, u \in Tabs : tab[t].inflight # NoCaller /\ tab[u].inflight # NoCaller => t = u
    /\ \A c \in WebCalls : /\ Asking(webCall[c]) => webCall[c].sent = session.current
                           /\ webCall[c].pc = "answer" => webCall[c].answer = session.current
    /\ (\A c \in WebCalls : webCall[c].pc # "answer") => cookie = session.current

\* Somebody still has the newest token, or will have it.
Usable ==
  /\ session.active
  /\ \/ cookie = session.current
     \/ \E c \in WebCalls : \/ Asking(webCall[c]) /\ webCall[c].sent = session.current
                            \/ webCall[c].pc = "answer" /\ webCall[c].answer = session.current

\* A tab that has had its rotation since it was loaded and since the last expiry.
Spent(t) ==
  \/ tab[t].token > expired
  \/ tab[t].inflight # NoCaller /\ webCall[tab[t].inflight].pc = "answer" /\ webCall[tab[t].inflight].answer > expired
Unspent == {t \in Tabs : ~Spent(t)}
Allowed == Cardinality(Tabs) * web.expiries + web.loads

\* Every rotation was one tab's, and those that have not had theirs are still
\* within what is allowed.
RotationsCounted ==
  /\ session.current - 1 <= Allowed
  /\ Usable => session.current - 1 + Cardinality(Unspent) <= Allowed

WebInv ==
  /\ WebTyped /\ OneRefresh /\ OneHolder /\ NeedsRefresh
  /\ Undisturbed /\ RotationsCounted

\* What the steps assign to a call and to a tab.
LEMMA WebFields ==
  /\ NoWebCall \in WebCallRecord /\ NoWebCall.pc = "idle" /\ NoWebCall.answer = 0
  /\ NewTab \in TabRecord /\ NewTab.token = 0 /\ NewTab.inflight = NoCaller
  /\ \A pc \in {"sent", "retried", "joined", "refresh", "rotate", "answer"} : pc \in WebPcs
  /\ "send" \in WebNexts /\ "retry" \in WebNexts /\ TRUE \in Truth /\ FALSE \in Truth
<1>1. /\ "idle" \in WebPcs /\ "send" \in WebNexts /\ NoCaller \in Pages /\ FALSE \in Truth
      /\ NoCaller \in Callers
  BY DEF WebPcs, WebNexts, Pages, Truth, Callers
<1>2. NoWebCall \in WebCallRecord /\ NoWebCall.pc = "idle" /\ NoWebCall.answer = 0
  BY <1>1 DEF NoWebCall, WebCallRecord
<1>3. NewTab \in TabRecord /\ NewTab.token = 0 /\ NewTab.inflight = NoCaller
  BY <1>1 DEF NewTab, TabRecord
<1>4. QED
  BY <1>2, <1>3 DEF WebPcs, WebNexts, Truth

\* The parts of the count are numbers.
LEMMA WebCounts ==
  ASSUME WebInv
  PROVE  /\ IsFiniteSet(Unspent) /\ Cardinality(Unspent) \in Nat /\ Cardinality(Tabs) \in Nat
         /\ Cardinality(Unspent) <= Cardinality(Tabs) /\ Allowed \in Nat /\ session.current \in Nat
<1>1. Unspent \subseteq Tabs
  BY DEF Unspent
<1>2. /\ IsFiniteSet(Unspent) /\ Cardinality(Unspent) \in Nat /\ Cardinality(Tabs) \in Nat
      /\ Cardinality(Unspent) <= Cardinality(Tabs)
  BY <1>1, WebAssumption, FS_Subset, FS_CardinalityType
<1>3. web.expiries \in Nat /\ web.loads \in Nat /\ session.current \in Nat
  BY DEF WebInv, WebTyped, HistoryRecord, RowRecord
<1>4. Cardinality(Tabs) * web.expiries \in Nat
  BY <1>2, <1>3
<1>5. QED
  BY <1>2, <1>3, <1>4 DEF Allowed

\* The count of a step that rotates nothing.
LEMMA CountKept ==
  ASSUME WebInv, session'.current = session.current, web'.expiries = web.expiries, web'.loads = web.loads,
         Usable' => Usable /\ Unspent' \subseteq Unspent
  PROVE  RotationsCounted'
<1>1. Allowed' = Allowed
  BY DEF Allowed
<1>2. ASSUME Usable' PROVE session'.current - 1 + Cardinality(Unspent') <= Allowed'
  <2>1. Cardinality(Unspent') \in Nat /\ Cardinality(Unspent') <= Cardinality(Unspent)
    BY <1>2, WebCounts, FS_Subset, FS_CardinalityType
  <2>2. session.current - 1 + Cardinality(Unspent) <= Allowed
    BY <1>2 DEF WebInv, RotationsCounted
  <2>3. QED
    BY <1>1, <2>1, <2>2, WebCounts
<1>3. QED
  BY <1>1, <1>2 DEF WebInv, RotationsCounted

\* A call that has nothing to do with a refresh goes on.
LEMMA CallMoves ==
  ASSUME WebInv, NEW c \in WebCalls, NEW new \in WebCallRecord, ~Refreshing(webCall[c]), ~Refreshing(new),
         new.answer = 0, new.pc # "idle" => new.tab \in Tabs,
         webCall' = [webCall EXCEPT ![c] = new], UNCHANGED <<session, cookie, tab, expired, web>>
  PROVE  WebInv'
<1>1. /\ webCall' \in [WebCalls -> WebCallRecord] /\ webCall'[c] = new
      /\ \A d \in WebCalls \ {c} : webCall'[d] = webCall[d]
  BY DEF WebInv, WebTyped
<1>2. WebTyped'
  BY <1>1 DEF WebInv, WebTyped
<1>3. \A t \in Tabs : tab[t].inflight # NoCaller =>
         tab[t].inflight \in WebCalls \ {c} /\ webCall'[tab[t].inflight] = webCall[tab[t].inflight]
  BY <1>1 DEF WebInv, OneRefresh
<1>4. \A d \in WebCalls : Refreshing(webCall'[d]) => d # c /\ webCall'[d] = webCall[d]
  BY <1>1
<1>5. OneRefresh'
  <2>1. \A t \in Tabs : tab'[t].inflight # NoCaller =>
          tab'[t].inflight \in WebCalls /\ Refreshing(webCall'[tab'[t].inflight]) /\ webCall'[tab'[t].inflight].tab = t
    BY <1>3 DEF WebInv, OneRefresh
  <2>2. \A d \in WebCalls : Refreshing(webCall'[d]) => webCall'[d].tab \in Tabs /\ tab'[webCall'[d].tab].inflight = d
    BY <1>4 DEF WebInv, OneRefresh
  <2>3. QED
    BY <2>1, <2>2 DEF OneRefresh, Refreshing
<1>6. new.pc \notin {"refresh", "rotate", "answer"} /\ webCall[c].pc \notin {"refresh", "rotate", "answer"}
  BY DEF Refreshing
<1>7. OneHolder'
  BY <1>1, <1>6 DEF WebInv, OneHolder, Asking
<1>8. NeedsRefresh'
  <2>1. \A d \in WebCalls : Refreshing(webCall'[d]) /\ session'.active => tab'[webCall'[d].tab].token <= expired'
    BY <1>4 DEF WebInv, NeedsRefresh
  <2>2. QED
    BY <2>1 DEF WebInv, NeedsRefresh, Refreshing
<1>9. Undisturbed'
  BY <1>1, <1>6 DEF WebInv, Undisturbed, Asking
<1>10. RotationsCounted'
  <2>1. Usable' => Usable
    BY <1>1, <1>6 DEF Usable, Asking
  <2>2. \A t \in Tabs : Spent(t)' = Spent(t)
    BY <1>3 DEF Spent
  <2>3. Unspent' = Unspent
    BY <2>2 DEF Unspent
  <2>4. QED
    BY <2>1, <2>3, CountKept
<1>11. QED
  BY <1>2, <1>5, <1>7, <1>8, <1>9, <1>10 DEF WebInv

\* A tab without a refresh in flight sends one, with the cookie as it is.
LEMMA RefreshStarts ==
  ASSUME WebInv, NEW c \in WebCalls, NEW t \in Tabs, NEW next \in WebNexts, ~Refreshing(webCall[c]),
         tab[t].inflight = NoCaller, session.active => tab[t].token <= expired,
         tab' = [tab EXCEPT ![t].inflight = c],
         webCall' = [webCall EXCEPT ![c] = [NoWebCall EXCEPT !.pc = "refresh", !.tab = t, !.sent = cookie,
                                                             !.token = webCall[c].token, !.next = next]],
         web' = [web EXCEPT !.overlap = @ \/ \E u \in Tabs \ {t} : tab[u].inflight # NoCaller],
         UNCHANGED <<session, cookie, expired>>
  PROVE  WebInv'
<1> DEFINE new == [NoWebCall EXCEPT !.pc = "refresh", !.tab = t, !.sent = cookie, !.token = webCall[c].token,
                                    !.next = next]
           mine == [tab[t] EXCEPT !.inflight = c]
           over == web.overlap \/ \E u \in Tabs \ {t} : tab[u].inflight # NoCaller
<1>1. /\ webCall \in [WebCalls -> WebCallRecord] /\ tab \in [Tabs -> TabRecord] /\ web \in HistoryRecord
      /\ cookie \in Nat /\ expired \in Nat /\ session \in RowRecord
  BY DEF WebInv, WebTyped
<1>2. /\ new \in WebCallRecord /\ new.pc = "refresh" /\ new.tab = t /\ new.sent = cookie /\ new.answer = 0
  <2>1. webCall[c].token \in Nat /\ t \in Pages
    BY <1>1 DEF WebCallRecord, Pages
  <2>2. QED
    BY <1>1, <2>1, WebFields DEF WebCallRecord
<1>3. mine \in TabRecord /\ mine.token = tab[t].token /\ mine.booted = tab[t].booted /\ mine.inflight = c
  <2>1. c \in Callers
    BY DEF Callers
  <2>2. QED
    BY <1>1, <2>1 DEF TabRecord
<1>4. over \in Truth
  BY DEF Truth
<1>5. /\ webCall' = [webCall EXCEPT ![c] = new] /\ tab' = [tab EXCEPT ![t] = mine]
      /\ web' = [web EXCEPT !.overlap = over]
  OBVIOUS
<1> HIDE DEF new, mine
<1>6. /\ webCall' \in [WebCalls -> WebCallRecord] /\ webCall'[c] = new
      /\ \A d \in WebCalls \ {c} : webCall'[d] = webCall[d]
      /\ tab' \in [Tabs -> TabRecord] /\ tab'[t] = mine
      /\ \A u \in Tabs \ {t} : tab'[u] = tab[u]
  BY <1>1, <1>2, <1>3, <1>5
<1>7. /\ web' \in HistoryRecord /\ web'.overlap = over /\ web'.failed = web.failed
      /\ web'.expiries = web.expiries /\ web'.loads = web.loads
  <2> HIDE DEF over
  <2>1. QED
    BY <1>1, <1>4, <1>5 DEF HistoryRecord
<1>8. WebTyped'
  BY <1>1, <1>2, <1>6, <1>7 DEF WebInv, WebTyped
<1>9. \A u \in Tabs \ {t} : tab[u].inflight # NoCaller =>
        tab[u].inflight \in WebCalls \ {c} /\ webCall'[tab[u].inflight] = webCall[tab[u].inflight]
  BY <1>6 DEF WebInv, OneRefresh
<1>10. c # NoCaller /\ new.pc \notin {"answer"} /\ webCall[c].pc \notin {"refresh", "rotate", "answer"}
  BY <1>2, WebAssumption DEF Refreshing
<1>11. OneRefresh'
  <2>1. \A u \in Tabs : tab'[u].inflight # NoCaller =>
          tab'[u].inflight \in WebCalls /\ Refreshing(webCall'[tab'[u].inflight]) /\ webCall'[tab'[u].inflight].tab = u
    BY <1>2, <1>3, <1>6, <1>9 DEF WebInv, OneRefresh, Refreshing
  <2>2. \A d \in WebCalls : Refreshing(webCall'[d]) => webCall'[d].tab \in Tabs /\ tab'[webCall'[d].tab].inflight = d
    <3> SUFFICES ASSUME NEW d \in WebCalls, Refreshing(webCall'[d])
                 PROVE  webCall'[d].tab \in Tabs /\ tab'[webCall'[d].tab].inflight = d
      OBVIOUS
    <3>1. CASE d = c
      BY <1>2, <1>3, <1>6, <3>1
    <3>2. CASE d # c
      <4>1. webCall'[d] = webCall[d] /\ webCall[d].tab \in Tabs /\ tab[webCall[d].tab].inflight = d
        BY <1>6, <3>2 DEF WebInv, OneRefresh
      <4>2. webCall[d].tab # t
        BY <4>1, WebAssumption
      <4>3. QED
        BY <1>6, <4>1, <4>2
    <3>3. QED
      BY <3>1, <3>2
  <2>3. QED
    BY <2>1, <2>2 DEF OneRefresh, Refreshing
<1>12. OneHolder'
  <2>1. OneHolder
    BY DEF WebInv
  <2>2. Asking(new) /\ new.pc # "answer" /\ new.sent <= session.current
    BY <1>2, <2>1 DEF Asking, OneHolder
  <2>3. ASSUME NEW d \in WebCalls
        PROVE  /\ Asking(webCall'[d]) => webCall'[d].sent <= session.current
               /\ webCall'[d].pc # "answer" => webCall'[d].answer = 0
    BY <1>2, <1>6, <2>1, <2>2 DEF OneHolder
  <2>4. ASSUME NEW d \in WebCalls, webCall'[d].pc = "answer", webCall'[d].answer # 0
        PROVE  /\ webCall'[d].answer = session.current /\ cookie # session.current
               /\ \A o \in WebCalls : Asking(webCall'[o]) => webCall'[o].sent # session.current
               /\ \A o \in WebCalls \ {d} : webCall'[o].pc = "answer" => webCall'[o].answer = 0
    <3>1. d # c /\ webCall[d].pc = "answer" /\ webCall[d].answer # 0 /\ webCall'[d] = webCall[d]
      BY <1>6, <2>2, <2>4
    <3>2. /\ webCall[d].answer = session.current /\ cookie # session.current
          /\ \A o \in WebCalls : Asking(webCall[o]) => webCall[o].sent # session.current
          /\ \A o \in WebCalls \ {d} : webCall[o].pc = "answer" => webCall[o].answer = 0
      BY <2>1, <3>1 DEF OneHolder
    <3>3. QED
      BY <1>2, <1>6, <2>2, <3>1, <3>2
  <2>5. QED
    BY <2>1, <2>3, <2>4 DEF OneHolder, Asking
<1>13. NeedsRefresh'
  <2>1. \A u \in Tabs : tab'[u].token = tab[u].token /\ tab'[u].booted = tab[u].booted
    BY <1>3, <1>6
  <2>2. \A d \in WebCalls : Refreshing(webCall'[d]) /\ session'.active => tab'[webCall'[d].tab].token <= expired'
    BY <1>2, <1>6, <2>1 DEF WebInv, NeedsRefresh, OneRefresh
  <2>3. QED
    BY <2>1, <2>2 DEF WebInv, NeedsRefresh, Refreshing
<1>14. Undisturbed'
  <2> SUFFICES ASSUME ~web'.failed, ~web'.overlap
               PROVE  /\ session'.active /\ cookie' # 0
                      /\ \A s, u \in Tabs : tab'[s].inflight # NoCaller /\ tab'[u].inflight # NoCaller => s = u
                      /\ \A d \in WebCalls : /\ Asking(webCall'[d]) => webCall'[d].sent = session'.current
                                             /\ webCall'[d].pc = "answer" => webCall'[d].answer = session'.current
                      /\ cookie' = session'.current
    BY DEF Undisturbed, Asking
  <2>1. ~web.failed /\ ~web.overlap /\ \A u \in Tabs : tab[u].inflight = NoCaller
    BY <1>7
  <2>2. \A d \in WebCalls : ~Refreshing(webCall[d])
    BY <2>1, WebAssumption DEF WebInv, OneRefresh
  <2>3. \A d \in WebCalls : webCall[d].pc \notin {"refresh", "rotate", "answer"}
    BY <2>2 DEF Refreshing
  <2>4. session.active /\ cookie # 0 /\ cookie = session.current
    BY <2>1, <2>3 DEF WebInv, Undisturbed
  <2>5. QED
    BY <1>2, <1>3, <1>6, <2>1, <2>3, <2>4 DEF Asking
<1>15. RotationsCounted'
  <2>1. Usable' => Usable
    BY <1>2, <1>6, <1>10 DEF Usable, Asking
  <2>2. \A u \in Tabs : Spent(u) => Spent(u)'
    <3> SUFFICES ASSUME NEW u \in Tabs, Spent(u) PROVE Spent(u)'
      OBVIOUS
    <3>1. CASE u = t
      BY <1>3, <1>6, <3>1 DEF Spent
    <3>2. CASE u # t
      BY <1>6, <1>9, <3>2 DEF Spent
    <3>3. QED
      BY <3>1, <3>2
  <2>3. Unspent' \subseteq Unspent
    BY <2>2 DEF Unspent
  <2>4. QED
    BY <1>7, <2>1, <2>3, CountKept
<1>16. QED
  BY <1>8, <1>11, <1>12, <1>13, <1>14, <1>15 DEF WebInv

\* What a step of Auth makes of the call it serves leaves the tabs and the
\* other calls as they are.
LEMMA AuthServes ==
  ASSUME WebInv, NEW c \in WebCalls, NEW new \in WebCallRecord, Asking(webCall[c]), Refreshing(new),
         new.tab = webCall[c].tab, webCall' = [webCall EXCEPT ![c] = new], tab' = tab, expired' = expired,
         cookie' = cookie, session' \in RowRecord, session'.active => session.active, web' \in HistoryRecord
  PROVE  /\ WebTyped' /\ OneRefresh' /\ NeedsRefresh'
         /\ webCall'[c] = new /\ \A d \in WebCalls \ {c} : webCall'[d] = webCall[d]
         /\ webCall[c].tab \in Tabs /\ tab[webCall[c].tab].inflight = c
         /\ \A u \in Tabs \ {webCall[c].tab} : tab[u].inflight # c
<1>1. Refreshing(webCall[c]) /\ new.pc # "idle"
  BY DEF Asking, Refreshing
<1>2. /\ webCall' \in [WebCalls -> WebCallRecord] /\ webCall'[c] = new
      /\ \A d \in WebCalls \ {c} : webCall'[d] = webCall[d]
  BY DEF WebInv, WebTyped
<1>3. webCall[c].tab \in Tabs /\ tab[webCall[c].tab].inflight = c
  BY <1>1 DEF WebInv, OneRefresh
<1>4. \A u \in Tabs \ {webCall[c].tab} : tab[u].inflight # c
  BY WebAssumption DEF WebInv, OneRefresh
<1>5. WebTyped'
  BY <1>2, <1>3 DEF WebInv, WebTyped
<1>6. OneRefresh'
  <2>1. \A u \in Tabs : tab'[u].inflight # NoCaller =>
          tab'[u].inflight \in WebCalls /\ Refreshing(webCall'[tab'[u].inflight]) /\ webCall'[tab'[u].inflight].tab = u
    BY <1>2 DEF WebInv, OneRefresh
  <2>2. \A d \in WebCalls : Refreshing(webCall'[d]) => webCall'[d].tab \in Tabs /\ tab'[webCall'[d].tab].inflight = d
    BY <1>2, <1>3 DEF WebInv, OneRefresh
  <2>3. QED
    BY <2>1, <2>2 DEF OneRefresh, Refreshing
<1>7. NeedsRefresh'
  <2>1. \A d \in WebCalls : Refreshing(webCall'[d]) /\ session'.active => tab'[webCall'[d].tab].token <= expired'
    BY <1>1, <1>2 DEF WebInv, NeedsRefresh
  <2>2. QED
    BY <2>1 DEF WebInv, NeedsRefresh, Refreshing
<1>8. QED
  BY <1>2, <1>3, <1>4, <1>5, <1>6, <1>7

\* A served call that gets no new token.
LEMMA AuthRefuses ==
  ASSUME WebInv, NEW c \in WebCalls, NEW new \in WebCallRecord, Asking(webCall[c]), Refreshing(new),
         new.tab = webCall[c].tab, new.sent = webCall[c].sent, new.answer = 0,
         webCall' = [webCall EXCEPT ![c] = new], tab' = tab, expired' = expired,
         cookie' = cookie, session' \in RowRecord, session'.active => session.active, session'.current = session.current,
         web' \in HistoryRecord, web'.expiries = web.expiries, web'.loads = web.loads, web'.overlap = web.overlap,
         ~web'.failed => /\ ~web.failed
                         /\ web.overlap \/ (session'.active /\ Asking(new))
  PROVE  WebInv'
<1>1. /\ WebTyped' /\ OneRefresh' /\ NeedsRefresh'
      /\ webCall'[c] = new /\ \A d \in WebCalls \ {c} : webCall'[d] = webCall[d]
      /\ webCall[c].tab \in Tabs /\ tab[webCall[c].tab].inflight = c
      /\ \A u \in Tabs \ {webCall[c].tab} : tab[u].inflight # c
  BY AuthServes
<1>2. webCall[c].pc \in {"refresh", "rotate"} /\ new.pc \in {"refresh", "rotate", "answer"}
  BY DEF Asking, Refreshing
<1>3. OneHolder'
  BY <1>1, <1>2 DEF WebInv, OneHolder, Asking
<1>4. Undisturbed'
  <2> SUFFICES ASSUME ~web'.failed, ~web'.overlap
               PROVE  /\ session'.active /\ cookie' # 0
                      /\ \A s, u \in Tabs : tab'[s].inflight # NoCaller /\ tab'[u].inflight # NoCaller => s = u
                      /\ \A d \in WebCalls : /\ Asking(webCall'[d]) => webCall'[d].sent = session'.current
                                             /\ webCall'[d].pc = "answer" => webCall'[d].answer = session'.current
                      /\ (\A d \in WebCalls : webCall'[d].pc # "answer") => cookie' = session'.current
    BY DEF Undisturbed, Asking
  <2>1. ~web.failed /\ ~web.overlap /\ session'.active /\ new.pc # "answer"
    BY DEF Asking
  <2>2. QED
    BY <1>1, <1>2, <2>1 DEF WebInv, Undisturbed, Asking
<1>5. RotationsCounted'
  <2>1. 0 < session.current
    <3>1. session.current \in Nat /\ expired \in Nat /\ 0 < expired /\ expired <= session.current
      BY DEF WebInv, WebTyped, RowRecord, OneHolder
    <3>2. QED
      BY <3>1
  <2>2. Usable' => Usable
    BY <1>1, <1>2, <2>1 DEF Usable, Asking
  <2>3. \A u \in Tabs : Spent(u) => Spent(u)'
    <3> SUFFICES ASSUME NEW u \in Tabs, Spent(u) PROVE Spent(u)'
      OBVIOUS
    <3>1. CASE tab[u].token > expired
      BY <3>1 DEF Spent
    <3>2. CASE tab[u].inflight # NoCaller /\ webCall[tab[u].inflight].pc = "answer" /\ webCall[tab[u].inflight].answer > expired
      <4>1. tab[u].inflight \in WebCalls \ {c}
        BY <1>2, <3>2 DEF WebInv, OneRefresh
      <4>2. QED
        BY <1>1, <3>2, <4>1 DEF Spent
    <3>3. QED
      BY <3>1, <3>2 DEF Spent
  <2>4. Unspent' \subseteq Unspent
    BY <2>3 DEF Unspent
  <2>5. QED
    BY <2>2, <2>4, CountKept
<1>6. QED
  BY <1>1, <1>3, <1>4, <1>5 DEF WebInv

\* The tab whose call rotates the session has not had its rotation.
LEMMA RotatorIsUnspent ==
  ASSUME WebInv, NEW c \in WebCalls, Asking(webCall[c]), webCall[c].sent = session.current, session.active
  PROVE  /\ webCall[c].tab \in Unspent /\ Usable
         /\ session.current - 1 + Cardinality(Unspent) <= Allowed
         /\ Cardinality(Unspent \ {webCall[c].tab}) = Cardinality(Unspent) - 1
         /\ Cardinality(Unspent \ {webCall[c].tab}) \in Nat
<1>1. webCall[c].pc \in {"refresh", "rotate"} /\ Refreshing(webCall[c])
  BY DEF Asking, Refreshing
<1>2. webCall[c].tab \in Tabs /\ tab[webCall[c].tab].inflight = c /\ tab[webCall[c].tab].token <= expired
  BY <1>1 DEF WebInv, OneRefresh, NeedsRefresh
<1>3. tab[webCall[c].tab].token \in Nat /\ expired \in Nat
  BY <1>2 DEF WebInv, WebTyped, TabRecord
<1>4. webCall[c].tab \in Unspent
  BY <1>1, <1>2, <1>3 DEF Unspent, Spent
<1>5. Usable
  BY DEF Usable
<1>6. session.current - 1 + Cardinality(Unspent) <= Allowed
  BY <1>5 DEF WebInv, RotationsCounted
<1>7. IsFiniteSet(Unspent)
  BY WebCounts
<1> DEFINE S == Unspent
           x == webCall[c].tab
<1> HIDE DEF S, x
<1>8. x \in S /\ IsFiniteSet(S)
  BY <1>4, <1>7 DEF S, x
<1>9. IsFiniteSet(S \ {x}) /\ Cardinality(S \ {x}) = Cardinality(S) - 1 /\ Cardinality(S \ {x}) \in Nat
  BY <1>8, FS_RemoveElement, FS_CardinalityType
<1>10. QED
  BY <1>4, <1>5, <1>6, <1>9 DEF S, x

\* Auth reads the row of a refresh.
LEMMA ReadKeepsWeb ==
  ASSUME WebInv, NEW c \in WebCalls, RefreshRead(c)
  PROVE  WebInv'
<1> DEFINE w == webCall[c]
           s == w.sent
           reused == s # 0 /\ s # session.current /\ s + 1 = session.current
           usable == s # 0 /\ s = session.current /\ session.active
           pc == IF usable THEN "rotate" ELSE "answer"
           new == [w EXCEPT !.pc = pc]
           kept == [session EXCEPT !.active = @ /\ ~reused]
<1>1. /\ w.pc = "refresh" /\ webCall' = [webCall EXCEPT ![c] = new] /\ session' = kept
      /\ cookie' = cookie /\ tab' = tab /\ expired' = expired /\ web' = web
  BY DEF RefreshRead
<1>2. w \in WebCallRecord /\ session \in RowRecord /\ web \in HistoryRecord /\ session.current \in Nat
  BY DEF WebInv, WebTyped, RowRecord
<1>3. pc \in {"rotate", "answer"}
  OBVIOUS
<1> HIDE DEF pc
<1>4. /\ new \in WebCallRecord /\ new.pc = pc /\ new.tab = w.tab /\ new.sent = w.sent /\ new.answer = w.answer
  <2>1. pc \in WebPcs
    BY <1>3, WebFields
  <2>2. QED
    BY <1>2, <2>1 DEF WebCallRecord
<1>5. kept \in RowRecord /\ kept.current = session.current /\ kept.active = (session.active /\ ~reused)
  <2> DEFINE act == session.active /\ ~reused
  <2>1. act \in Truth
    BY DEF Truth
  <2> HIDE DEF act
  <2>2. [session EXCEPT !.active = act] \in RowRecord /\ [session EXCEPT !.active = act].current = session.current
        /\ [session EXCEPT !.active = act].active = act
    BY <1>2, <2>1 DEF RowRecord
  <2>3. QED
    BY <2>2 DEF act
<1>6. Asking(w) /\ Refreshing(new) /\ w.answer = 0
  BY <1>1, <1>3, <1>4 DEF Asking, Refreshing, WebInv, OneHolder
<1>7. ~web.failed /\ ~web.overlap => usable /\ ~reused
  <2>1. 0 < session.current
    <3>1. expired \in Nat /\ 0 < expired /\ expired <= session.current
      BY DEF WebInv, WebTyped, OneHolder
    <3>2. QED
      BY <1>2, <3>1
  <2>2. QED
    BY <1>2, <1>6, <2>1 DEF WebInv, Undisturbed
<1>8. ~web.failed /\ ~web.overlap => kept.active /\ Asking(new)
  BY <1>4, <1>5, <1>7 DEF pc, Asking
<1>9. kept.active => session.active
  BY <1>5
<1> HIDE DEF kept, new
<1>10. QED
  BY <1>1, <1>2, <1>4, <1>5, <1>6, <1>8, <1>9, AuthRefuses

\* The rotation of a call that presented the newest token.
LEMMA RotationKeepsWeb ==
  ASSUME WebInv, NEW c \in WebCalls, NEW new \in WebCallRecord, Asking(webCall[c]),
         webCall[c].sent = session.current, session.active,
         new.pc = "answer", new.tab = webCall[c].tab, new.answer \in {0, session.current + 1},
         webCall' = [webCall EXCEPT ![c] = new], tab' = tab, expired' = expired, cookie' = cookie,
         session' = [session EXCEPT !.current = @ + 1],
         web' \in HistoryRecord, web'.expiries = web.expiries, web'.loads = web.loads, web'.overlap = web.overlap,
         ~web'.failed => ~web.failed /\ new.answer # 0
  PROVE  WebInv'
<1> DEFINE t == webCall[c].tab
           n == session.current
<1>1. session \in RowRecord /\ n \in Nat /\ expired \in Nat /\ cookie \in Nat
  BY DEF WebInv, WebTyped, RowRecord
<1>2. session' \in RowRecord /\ session'.current = n + 1 /\ session'.active = session.active
  <2> DEFINE m == n + 1
  <2>1. m \in Nat
    BY <1>1
  <2> HIDE DEF m
  <2>2. [session EXCEPT !.current = m] \in RowRecord /\ [session EXCEPT !.current = m].current = m
        /\ [session EXCEPT !.current = m].active = session.active
    BY <1>1, <2>1 DEF RowRecord
  <2>3. QED
    BY <2>2 DEF m
<1>3. /\ WebTyped' /\ OneRefresh' /\ NeedsRefresh'
      /\ webCall'[c] = new /\ \A d \in WebCalls \ {c} : webCall'[d] = webCall[d]
      /\ t \in Tabs /\ tab[t].inflight = c
      /\ \A u \in Tabs \ {t} : tab[u].inflight # c
  BY <1>2, AuthServes DEF Refreshing
<1>4. OneHolder
  BY DEF WebInv
<1>5. \A d \in WebCalls \ {c} : webCall'[d].pc = "answer" => webCall'[d].answer = 0
  BY <1>3, <1>4 DEF OneHolder
<1>6. \A d \in WebCalls : Asking(webCall'[d]) =>
        d # c /\ webCall'[d].sent \in Nat /\ webCall'[d].sent <= n
  <2> SUFFICES ASSUME NEW d \in WebCalls, Asking(webCall'[d])
               PROVE  d # c /\ webCall'[d].sent \in Nat /\ webCall'[d].sent <= n
    OBVIOUS
  <2>1. d # c
    BY <1>3 DEF Asking
  <2>2. webCall'[d] = webCall[d] /\ webCall[d] \in WebCallRecord
    BY <1>3, <2>1 DEF WebInv, WebTyped
  <2>3. QED
    BY <1>4, <2>1, <2>2 DEF OneHolder, WebCallRecord
<1>7. 0 < expired /\ expired <= n /\ cookie <= n
  BY <1>4 DEF OneHolder
<1>8. OneHolder'
  <2>1. 0 < expired /\ expired <= n + 1 /\ cookie <= n + 1 /\ cookie # n + 1
    BY <1>1, <1>7
  <2>2. \A d \in WebCalls : Asking(webCall'[d]) => webCall'[d].sent <= n + 1 /\ webCall'[d].sent # n + 1
    BY <1>1, <1>6
  <2>3. \A d \in WebCalls : webCall'[d].pc # "answer" => webCall'[d].answer = 0
    BY <1>3, <1>4 DEF OneHolder
  <2>4. \A d \in WebCalls : webCall'[d].pc = "answer" /\ webCall'[d].answer # 0 => d = c /\ webCall'[d].answer = n + 1
    BY <1>3, <1>5
  <2>5. QED
    BY <1>2, <1>5, <2>1, <2>2, <2>3, <2>4 DEF OneHolder, Asking
<1>9. Undisturbed'
  <2> SUFFICES ASSUME ~web'.failed, ~web'.overlap
               PROVE  /\ session'.active /\ cookie' # 0
                      /\ \A s, u \in Tabs : tab'[s].inflight # NoCaller /\ tab'[u].inflight # NoCaller => s = u
                      /\ \A d \in WebCalls : /\ Asking(webCall'[d]) => webCall'[d].sent = session'.current
                                             /\ webCall'[d].pc = "answer" => webCall'[d].answer = session'.current
                      /\ (\A d \in WebCalls : webCall'[d].pc # "answer") => cookie' = session'.current
    BY DEF Undisturbed, Asking
  <2>1. ~web.failed /\ ~web.overlap /\ new.answer = n + 1
    OBVIOUS
  <2>2. /\ session.active /\ cookie # 0
        /\ \A s, u \in Tabs : tab[s].inflight # NoCaller /\ tab[u].inflight # NoCaller => s = u
    BY <2>1 DEF WebInv, Undisturbed
  <2>3. \A d \in WebCalls \ {c} : ~Refreshing(webCall[d])
    <3> SUFFICES ASSUME NEW d \in WebCalls \ {c}, Refreshing(webCall[d]) PROVE FALSE
      OBVIOUS
    <3>1. webCall[d].tab \in Tabs /\ tab[webCall[d].tab].inflight = d
      BY DEF WebInv, OneRefresh
    <3>2. webCall[d].tab = t
      BY <1>3, <2>2, <3>1, WebAssumption
    <3>3. QED
      BY <1>3, <3>1, <3>2
  <2>4. \A d \in WebCalls \ {c} : webCall'[d].pc \notin {"refresh", "rotate", "answer"}
    BY <1>3, <2>3 DEF Refreshing
  <2>5. QED
    BY <1>2, <1>3, <2>1, <2>2, <2>4 DEF Asking
<1>10. RotationsCounted'
  <2>1. /\ n - 1 + Cardinality(Unspent) <= Allowed /\ Cardinality(Unspent) \in Nat /\ Allowed \in Nat
        /\ Cardinality(Unspent \ {t}) = Cardinality(Unspent) - 1 /\ Cardinality(Unspent \ {t}) \in Nat
        /\ IsFiniteSet(Unspent)
    BY RotatorIsUnspent, WebCounts
  <2>2. Allowed' = Allowed
    BY DEF Allowed
  <2>3. session'.current - 1 <= Allowed'
    BY <1>1, <1>2, <2>1, <2>2
  <2>4. ASSUME Usable' PROVE session'.current - 1 + Cardinality(Unspent') <= Allowed'
    <3>1. new.answer = n + 1
      <4>1. \A d \in WebCalls : Asking(webCall'[d]) => webCall'[d].sent # n + 1
        BY <1>1, <1>6
      <4>2. cookie # n + 1
        BY <1>1, <1>7
      <4>3. \E d \in WebCalls : webCall'[d].pc = "answer" /\ webCall'[d].answer = n + 1
        BY <1>2, <2>4, <4>1, <4>2 DEF Usable, Asking
      <4>4. QED
        BY <1>1, <1>3, <1>5, <4>3
    <3>2. \A u \in Tabs : Spent(u) => Spent(u)'
      <4> SUFFICES ASSUME NEW u \in Tabs, Spent(u) PROVE Spent(u)'
        OBVIOUS
      <4>1. CASE tab[u].token > expired
        BY <4>1 DEF Spent
      <4>2. CASE tab[u].inflight # NoCaller /\ webCall[tab[u].inflight].pc = "answer" /\ webCall[tab[u].inflight].answer > expired
        <5>1. tab[u].inflight \in WebCalls \ {c}
          BY <4>2 DEF WebInv, OneRefresh, Asking
        <5>2. QED
          BY <1>3, <4>2, <5>1 DEF Spent
      <4>3. QED
        BY <4>1, <4>2 DEF Spent
    <3>3. Spent(t)'
      <4>1. n + 1 > expired /\ c # NoCaller
        BY <1>1, <1>7, WebAssumption
      <4>2. tab'[t].inflight = c /\ webCall'[c].pc = "answer" /\ webCall'[c].answer > expired'
        BY <1>3, <3>1, <4>1
      <4>3. \A u \in Tabs : u = t => Spent(u)'
        BY <4>1, <4>2 DEF Spent
      <4>4. t' = t
        BY <1>3
      <4>5. QED
        BY <1>3, <4>3, <4>4
    <3>4. Unspent' \subseteq Unspent \ {t}
      <4>1. t' = t
        BY <1>3
      <4>2. QED
        BY <3>2, <3>3, <4>1 DEF Unspent
    <3> DEFINE S == Unspent \ {t}
    <3>5. IsFiniteSet(S)
      BY <2>1, FS_Subset
    <3>6. Cardinality(Unspent') \in Nat /\ Cardinality(Unspent') <= Cardinality(S)
      <4> HIDE DEF S
      <4>1. Unspent' \subseteq S
        BY <3>4 DEF S
      <4>2. QED
        BY <3>5, <4>1, FS_Subset, FS_CardinalityType
    <3>7. QED
      BY <1>1, <1>2, <2>1, <2>2, <3>6
  <2>5. QED
    BY <2>3, <2>4 DEF RotationsCounted
<1>11. QED
  BY <1>3, <1>8, <1>9, <1>10 DEF WebInv

\* SaveRotation, with the hash that was read or without.
LEMMA RotateKeepsWeb ==
  ASSUME WebInv, NEW c \in WebCalls, RefreshRotate(c)
  PROVE  WebInv'
<1> DEFINE w == webCall[c]
           won == w.sent = session.current /\ session.active
           n == IF won THEN session.current + 1 ELSE 0
           new == [w EXCEPT !.pc = "answer", !.answer = n]
<1>1. /\ w.pc = "rotate" /\ webCall' = [webCall EXCEPT ![c] = new]
      /\ session' = [session EXCEPT !.current = IF won THEN @ + 1 ELSE @]
      /\ cookie' = cookie /\ tab' = tab /\ expired' = expired /\ web' = web
  BY DEF RefreshRotate
<1>2. w \in WebCallRecord /\ session \in RowRecord /\ web \in HistoryRecord /\ session.current \in Nat
  BY DEF WebInv, WebTyped, RowRecord
<1>3. n \in Nat
  BY <1>2
<1>4. new \in WebCallRecord /\ new.pc = "answer" /\ new.tab = w.tab /\ new.sent = w.sent /\ new.answer = n
  <2> HIDE DEF n
  <2>1. QED
    BY <1>2, <1>3, WebFields DEF WebCallRecord
<1>5. Asking(w) /\ Refreshing(new)
  BY <1>1, <1>4 DEF Asking, Refreshing
<1> HIDE DEF new
<1>6. CASE won
  <2>1. n = session.current + 1 /\ n # 0 /\ session' = [session EXCEPT !.current = @ + 1]
    BY <1>1, <1>2, <1>6
  <2>2. QED
    BY <1>1, <1>2, <1>4, <1>5, <1>6, <2>1, RotationKeepsWeb
<1>7. CASE ~won
  <2>1. n = 0 /\ session' = session
    BY <1>1, <1>2, <1>7 DEF RowRecord
  <2>2. web.failed \/ web.overlap
    BY <1>5, <1>7 DEF WebInv, Undisturbed
  <2>3. QED
    BY <1>1, <1>2, <1>4, <1>5, <2>1, <2>2, AuthRefuses
<1>8. QED
  BY <1>6, <1>7

\* The database fails, before or after the rotation.
LEMMA StoreFailsKeepsWeb ==
  ASSUME WebInv, NEW c \in WebCalls, RefreshStoreFails(c)
  PROVE  WebInv'
<1> DEFINE w == webCall[c]
           new == [w EXCEPT !.pc = "answer"]
<1>1. /\ w.pc \in {"refresh", "rotate"} /\ webCall' = [webCall EXCEPT ![c] = new]
      /\ cookie' = cookie /\ tab' = tab /\ expired' = expired /\ web' = [web EXCEPT !.failed = TRUE]
      /\ \/ session' = session
         \/ w.sent = session.current /\ session.active /\ session' = [session EXCEPT !.current = @ + 1]
  <2>1. session \in RowRecord
    BY DEF WebInv, WebTyped
  <2>2. [session EXCEPT !.current = @] = session
    BY <2>1 DEF RowRecord
  <2>3. QED
    BY <2>2 DEF RefreshStoreFails
<1>2. w \in WebCallRecord /\ session \in RowRecord /\ web \in HistoryRecord
  BY DEF WebInv, WebTyped
<1>3. new \in WebCallRecord /\ new.pc = "answer" /\ new.tab = w.tab /\ new.sent = w.sent /\ new.answer = w.answer
  BY <1>2, WebFields DEF WebCallRecord
<1>4. /\ web' \in HistoryRecord /\ web'.failed /\ web'.overlap = web.overlap
      /\ web'.expiries = web.expiries /\ web'.loads = web.loads
  BY <1>1, <1>2, WebFields DEF HistoryRecord
<1>5. Asking(w) /\ Refreshing(new) /\ w.answer = 0
  BY <1>1, <1>3 DEF Asking, Refreshing, WebInv, OneHolder
<1> HIDE DEF new
<1>6. CASE session' = session
  BY <1>1, <1>2, <1>3, <1>4, <1>5, <1>6, AuthRefuses
<1>7. CASE w.sent = session.current /\ session.active /\ session' = [session EXCEPT !.current = @ + 1]
  BY <1>1, <1>2, <1>3, <1>4, <1>5, <1>7, RotationKeepsWeb
<1>8. QED
  BY <1>1, <1>6, <1>7

\* setSession ends the refresh of its tab and lets the calls that waited go on;
\* the refreshes of other tabs are not touched.
LEMMA SetSessionEffect ==
  ASSUME WebInv, NEW c \in WebCalls, webCall[c].pc = "answer", NEW token \in Nat,
         SetSession(webCall[c].tab, token), session' = session, expired' = expired,
         cookie' \in Nat, web' \in HistoryRecord
  PROVE  LET t == webCall[c].tab IN
         /\ t \in Tabs /\ tab[t].inflight = c
         /\ tab'[t] = [token |-> token, booted |-> TRUE, inflight |-> NoCaller]
         /\ \A u \in Tabs \ {t} : tab'[u] = tab[u]
         /\ \A d \in WebCalls : Refreshing(webCall'[d]) <=> (d # c /\ Refreshing(webCall[d]))
         /\ \A d \in WebCalls : Refreshing(webCall'[d]) => webCall'[d] = webCall[d] /\ webCall[d].tab # t
         /\ \A d \in WebCalls : ~Refreshing(webCall'[d]) => webCall'[d].answer = 0
         /\ WebTyped' /\ OneRefresh' /\ NeedsRefresh'
<1> DEFINE t == webCall[c].tab
           Waits(d) == webCall[d].tab = t /\ (webCall[d].pc = "joined" \/ tab[t].inflight = d)
           Next1(w) == IF w.next = "send" THEN SendWith(t, "sent", token)
                       ELSE IF token # 0 THEN SendWith(t, "retried", token) ELSE NoWebCall
<1>1. t \in Tabs /\ tab[t].inflight = c /\ c # NoCaller
  BY WebAssumption DEF WebInv, OneRefresh, Refreshing
<1>2. tab \in [Tabs -> TabRecord] /\ webCall \in [WebCalls -> WebCallRecord] /\ session \in RowRecord /\ expired \in Nat
  BY DEF WebInv, WebTyped
<1> DEFINE mine == [token |-> token, booted |-> TRUE, inflight |-> NoCaller]
<1>3. mine \in TabRecord /\ mine.token = token /\ mine.booted = TRUE /\ mine.inflight = NoCaller
  <2>1. NoCaller \in Callers /\ TRUE \in Truth
    BY DEF Callers, Truth
  <2>2. QED
    BY <2>1 DEF TabRecord
<1>4. tab' = [tab EXCEPT ![t] = mine]
  BY DEF SetSession
<1> HIDE DEF mine
<1>5. tab' \in [Tabs -> TabRecord] /\ tab'[t] = mine /\ \A u \in Tabs \ {t} : tab'[u] = tab[u]
  BY <1>1, <1>2, <1>3, <1>4
<1>6. webCall' = [d \in WebCalls |-> IF Waits(d) THEN Next1(webCall[d]) ELSE webCall[d]]
  <2>1. webCall' = [d \in WebCalls |->
                      IF webCall[d].tab # t \/ ~ (webCall[d].pc = "joined" \/ tab[t].inflight = d) THEN webCall[d]
                      ELSE Next1(webCall[d])]
    BY DEF SetSession
  <2>2. QED
    BY <2>1
<1>7. \A w : /\ Next1(w) \in WebCallRecord /\ Next1(w).answer = 0
             /\ Next1(w).pc \in {"sent", "retried", "idle"} /\ (Next1(w).pc # "idle" => Next1(w).tab = t)
  <2>1. t \in Pages
    BY <1>1 DEF Pages
  <2>2. ASSUME NEW pc \in {"sent", "retried"}
        PROVE  /\ SendWith(t, pc, token) \in WebCallRecord /\ SendWith(t, pc, token).answer = 0
               /\ SendWith(t, pc, token).pc = pc /\ SendWith(t, pc, token).tab = t
    <3>1. pc \in WebPcs
      BY WebFields
    <3>2. QED
      BY <2>1, <3>1, WebFields DEF SendWith, WebCallRecord
  <2>3. QED
    BY <2>2, WebFields
<1> HIDE DEF Next1
<1>8. Waits(c)
  BY <1>1
<1>9. \A d \in WebCalls : Refreshing(webCall[d]) /\ d # c => ~Waits(d) /\ webCall[d].tab # t
  BY <1>1 DEF WebInv, OneRefresh, Refreshing
<1>10. \A d \in WebCalls : /\ Waits(d) => webCall'[d] = Next1(webCall[d])
                           /\ ~Waits(d) => webCall'[d] = webCall[d]
  BY <1>6
<1> HIDE DEF Waits
<1>11. \A w : ~Refreshing(Next1(w))
  BY <1>7 DEF Refreshing
<1>12. \A d \in WebCalls : Refreshing(webCall'[d]) <=> (d # c /\ Refreshing(webCall[d]))
  BY <1>8, <1>9, <1>10, <1>11
<1>13. \A d \in WebCalls : Refreshing(webCall'[d]) => webCall'[d] = webCall[d] /\ webCall[d].tab # t
  BY <1>9, <1>10, <1>12
<1>14. \A d \in WebCalls : ~Refreshing(webCall'[d]) => webCall'[d].answer = 0
  BY <1>7, <1>10 DEF WebInv, OneHolder, Refreshing
<1>15. WebTyped'
  <2>1. webCall' \in [WebCalls -> WebCallRecord]
    BY <1>2, <1>6, <1>7
  <2>2. \A d \in WebCalls : webCall'[d].pc # "idle" => webCall'[d].tab \in Tabs
    BY <1>1, <1>7, <1>10 DEF WebInv, WebTyped
  <2>3. QED
    BY <1>2, <1>5, <2>1, <2>2 DEF WebTyped
<1>16. OneRefresh'
  <2>1. ASSUME NEW u \in Tabs, tab'[u].inflight # NoCaller
        PROVE  tab'[u].inflight \in WebCalls /\ Refreshing(webCall'[tab'[u].inflight]) /\ webCall'[tab'[u].inflight].tab = u
    <3>1. u # t /\ tab'[u] = tab[u]
      BY <1>3, <1>5, <2>1
    <3>2. tab[u].inflight \in WebCalls /\ Refreshing(webCall[tab[u].inflight]) /\ webCall[tab[u].inflight].tab = u
      BY <2>1, <3>1 DEF WebInv, OneRefresh
    <3>3. tab[u].inflight # c
      BY <3>1, <3>2
    <3>4. QED
      BY <1>12, <1>13, <3>1, <3>2, <3>3
  <2>2. \A d \in WebCalls : Refreshing(webCall'[d]) => webCall'[d].tab \in Tabs /\ tab'[webCall'[d].tab].inflight = d
    BY <1>5, <1>12, <1>13 DEF WebInv, OneRefresh
  <2>3. QED
    BY <2>1, <2>2 DEF OneRefresh, Refreshing
<1>17. NeedsRefresh'
  <2>1. \A u \in Tabs : ~tab'[u].booted => tab'[u].token = 0
    BY <1>3, <1>5 DEF WebInv, NeedsRefresh
  <2>2. \A d \in WebCalls : Refreshing(webCall'[d]) /\ session'.active => tab'[webCall'[d].tab].token <= expired'
    BY <1>5, <1>12, <1>13 DEF WebInv, NeedsRefresh, OneRefresh
  <2>3. QED
    BY <2>1, <2>2 DEF NeedsRefresh, Refreshing
<1>18. QED
  BY <1>1, <1>5, <1>12, <1>13, <1>14, <1>15, <1>16, <1>17 DEF mine

\* The browser gets the answer, or never does.
LEMMA AnswerKeepsWeb ==
  ASSUME WebInv, NEW c \in WebCalls, RefreshAnswered(c) \/ RefreshLost(c)
  PROVE  WebInv'
<1> DEFINE w == webCall[c]
           t == w.tab
           n == session.current
<1>1. PICK token \in Nat :
        /\ w.pc = "answer" /\ SetSession(t, token) /\ session' = session /\ expired' = expired
        /\ \/ token = w.answer /\ cookie' = w.answer /\ web' = web
           \/ token = 0 /\ cookie' = cookie /\ web' = [web EXCEPT !.failed = TRUE]
  <2>1. w.answer \in Nat
    BY DEF WebInv, WebTyped, WebCallRecord
  <2>2. QED
    BY <2>1 DEF RefreshAnswered, RefreshLost
<1>2. w \in WebCallRecord /\ session \in RowRecord /\ web \in HistoryRecord /\ n \in Nat /\ w.answer \in Nat
      /\ cookie \in Nat /\ expired \in Nat
  BY DEF WebInv, WebTyped, RowRecord, WebCallRecord
<1>3. /\ web' \in HistoryRecord /\ web'.expiries = web.expiries /\ web'.loads = web.loads
      /\ web'.overlap = web.overlap /\ (web' = web \/ web'.failed)
  BY <1>1, <1>2, WebFields DEF HistoryRecord
<1>4. cookie' \in Nat
  BY <1>1, <1>2
<1>5. /\ t \in Tabs /\ tab[t].inflight = c
      /\ tab'[t] = [token |-> token, booted |-> TRUE, inflight |-> NoCaller]
      /\ \A u \in Tabs \ {t} : tab'[u] = tab[u]
      /\ \A d \in WebCalls : Refreshing(webCall'[d]) <=> (d # c /\ Refreshing(webCall[d]))
      /\ \A d \in WebCalls : Refreshing(webCall'[d]) => webCall'[d] = webCall[d] /\ webCall[d].tab # t
      /\ \A d \in WebCalls : ~Refreshing(webCall'[d]) => webCall'[d].answer = 0
      /\ WebTyped' /\ OneRefresh' /\ NeedsRefresh'
  BY <1>1, <1>3, <1>4, SetSessionEffect
<1>6. \A d \in WebCalls : Asking(webCall'[d]) \/ webCall'[d].pc = "answer" =>
        d # c /\ webCall'[d] = webCall[d] /\ Refreshing(webCall'[d])
  <2>1. \A d \in WebCalls : Asking(webCall'[d]) \/ webCall'[d].pc = "answer" => Refreshing(webCall'[d])
    BY DEF Asking, Refreshing
  <2>2. QED
    BY <1>5, <2>1
<1>7. OneHolder
  BY DEF WebInv
<1>8. /\ 0 < expired /\ expired <= n /\ cookie <= n
      /\ w.answer # 0 => /\ w.answer = n /\ cookie # n
                         /\ \A d \in WebCalls : Asking(webCall[d]) => webCall[d].sent # n
                         /\ \A d \in WebCalls \ {c} : webCall[d].pc = "answer" => webCall[d].answer = 0
  BY <1>1, <1>7 DEF OneHolder
<1>9. OneHolder'
  <2>1. cookie' <= n
    BY <1>1, <1>2, <1>8
  <2>2. \A d \in WebCalls : Asking(webCall'[d]) => webCall'[d].sent <= n
    BY <1>6, <1>7 DEF OneHolder
  <2>3. \A d \in WebCalls : webCall'[d].pc # "answer" => webCall'[d].answer = 0
    BY <1>5, <1>6, <1>7 DEF OneHolder
  <2>4. ASSUME NEW d \in WebCalls, webCall'[d].pc = "answer", webCall'[d].answer # 0
        PROVE  /\ webCall'[d].answer = n /\ cookie' # n
               /\ \A o \in WebCalls : Asking(webCall'[o]) => webCall'[o].sent # n
               /\ \A o \in WebCalls \ {d} : webCall'[o].pc = "answer" => webCall'[o].answer = 0
    <3>1. d # c /\ webCall[d].pc = "answer" /\ webCall[d].answer # 0 /\ webCall'[d] = webCall[d]
      BY <1>6, <2>4
    <3>2. /\ webCall[d].answer = n /\ cookie # n
          /\ \A o \in WebCalls : Asking(webCall[o]) => webCall[o].sent # n
          /\ \A o \in WebCalls \ {d} : webCall[o].pc = "answer" => webCall[o].answer = 0
      BY <1>7, <3>1 DEF OneHolder
    <3>3. w.answer = 0
      BY <1>1, <3>1, <3>2
    <3>4. cookie' # n
      BY <1>1, <1>2, <1>8, <3>2, <3>3
    <3>5. QED
      BY <1>6, <3>1, <3>2, <3>4
  <2>5. QED
    BY <1>1, <1>8, <2>1, <2>2, <2>3, <2>4 DEF OneHolder, Asking
<1>10. Undisturbed'
  <2> SUFFICES ASSUME ~web'.failed, ~web'.overlap
               PROVE  /\ session'.active /\ cookie' # 0
                      /\ \A s, u \in Tabs : tab'[s].inflight # NoCaller /\ tab'[u].inflight # NoCaller => s = u
                      /\ \A d \in WebCalls : /\ Asking(webCall'[d]) => webCall'[d].sent = session'.current
                                             /\ webCall'[d].pc = "answer" => webCall'[d].answer = session'.current
                      /\ cookie' = session'.current
    BY DEF Undisturbed, Asking
  <2>1. ~web.failed /\ ~web.overlap /\ web' = web
    BY <1>3
  <2>2. /\ session.active
        /\ \A s, u \in Tabs : tab[s].inflight # NoCaller /\ tab[u].inflight # NoCaller => s = u
        /\ \A d \in WebCalls : /\ Asking(webCall[d]) => webCall[d].sent = n
                               /\ webCall[d].pc = "answer" => webCall[d].answer = n
    BY <2>1 DEF WebInv, Undisturbed
  <2>3. cookie' = n /\ n # 0
    <3>1. cookie' = w.answer
      <4>1. w.answer # 0
        BY <1>1, <1>2, <1>8, <2>2
      <4>2. CASE cookie' = cookie /\ web' = [web EXCEPT !.failed = TRUE]
        BY <1>2, <2>1, <4>2 DEF HistoryRecord
      <4>3. QED
        BY <1>1, <4>2
    <3>2. QED
      BY <1>1, <1>2, <1>8, <2>2, <3>1
  <2>4. \A s, u \in Tabs : tab'[s].inflight # NoCaller /\ tab'[u].inflight # NoCaller => s = u
    BY <1>5, <2>2
  <2>5. QED
    BY <1>1, <1>6, <2>2, <2>3, <2>4
<1>11. RotationsCounted'
  <2> SUFFICES ASSUME Usable' PROVE Usable /\ Unspent' \subseteq Unspent
    BY <1>1, <1>3, CountKept
  <2>1. session.active /\ \/ cookie' = n
                          \/ \E d \in WebCalls : \/ Asking(webCall'[d]) /\ webCall'[d].sent = n
                                                 \/ webCall'[d].pc = "answer" /\ webCall'[d].answer = n
    BY <1>1 DEF Usable, Asking
  <2>2. Usable
    <3>1. CASE cookie' = cookie
      BY <1>6, <2>1, <3>1 DEF Usable
    <3>2. CASE cookie' = w.answer
      BY <1>1, <1>6, <2>1, <3>2 DEF Usable
    <3>3. QED
      BY <1>1, <3>1, <3>2
  <2>3. w.answer = 0 \/ token = w.answer
    <3>1. ASSUME w.answer # 0, token # w.answer PROVE FALSE
      <4>1. cookie' = cookie /\ cookie # n
        BY <1>1, <1>8, <3>1
      <4>2. \A d \in WebCalls : Asking(webCall'[d]) => webCall'[d].sent # n
        BY <1>6, <1>8, <3>1
      <4>3. \A d \in WebCalls : webCall'[d].pc = "answer" => webCall'[d].answer = 0
        BY <1>6, <1>8, <3>1
      <4>4. n # 0
        BY <1>2, <1>8
      <4>5. QED
        BY <2>1, <4>1, <4>2, <4>3, <4>4
    <3>2. QED
      BY <3>1
  <2>4. Refreshing(w) /\ tab[t].token <= expired /\ tab[t].token \in Nat
    BY <1>1, <1>5, <2>1 DEF WebInv, NeedsRefresh, Refreshing, WebTyped, TabRecord
  <2>5. ASSUME NEW u \in Tabs, Spent(u) PROVE Spent(u)'
    <3>1. CASE u = t
      <4>1. w.answer > expired
        BY <1>2, <1>5, <2>4, <2>5, <3>1 DEF Spent
      <4>2. token > expired
        BY <1>2, <1>8, <2>3, <4>1
      <4>3. tab'[u].token > expired'
        BY <1>1, <1>5, <3>1, <4>2
      <4>4. QED
        BY <4>3 DEF Spent
    <3>2. CASE u # t
      <4>1. tab'[u] = tab[u]
        BY <1>5, <3>2
      <4>2. CASE tab[u].token > expired
        BY <1>1, <4>1, <4>2 DEF Spent
      <4>3. CASE tab[u].inflight # NoCaller /\ webCall[tab[u].inflight].pc = "answer" /\ webCall[tab[u].inflight].answer > expired
        <5>1. tab[u].inflight \in WebCalls \ {c} /\ Refreshing(webCall[tab[u].inflight])
          BY <1>5, <3>2, <4>3 DEF WebInv, OneRefresh
        <5>2. webCall'[tab[u].inflight] = webCall[tab[u].inflight]
          BY <1>5, <5>1
        <5>3. QED
          BY <1>1, <4>1, <4>3, <5>2 DEF Spent
      <4>4. QED
        BY <2>5, <4>2, <4>3 DEF Spent
    <3>3. QED
      BY <3>1, <3>2
  <2>6. Unspent' \subseteq Unspent
    BY <2>5 DEF Unspent
  <2>7. QED
    BY <2>2, <2>6
<1>12. QED
  BY <1>5, <1>9, <1>10, <1>11 DEF WebInv

\* The access tokens expire: every tab may rotate once more.
LEMMA ExpiryKeepsWeb ==
  ASSUME WebInv, ExpireAccess
  PROVE  WebInv'
<1>1. /\ session' = session /\ cookie' = cookie /\ tab' = tab /\ webCall' = webCall
      /\ expired' = session.current /\ expired < session.current /\ web' = [web EXCEPT !.expiries = @ + 1]
  BY DEF ExpireAccess
<1>2. session.current \in Nat /\ expired \in Nat /\ web \in HistoryRecord /\ web.expiries \in Nat /\ web.loads \in Nat
  BY DEF WebInv, WebTyped, RowRecord, HistoryRecord
<1>3. /\ web' \in HistoryRecord /\ web'.expiries = web.expiries + 1 /\ web'.loads = web.loads
      /\ web'.failed = web.failed /\ web'.overlap = web.overlap
  <2> DEFINE n == web.expiries + 1
  <2>1. n \in Nat
    BY <1>2
  <2> HIDE DEF n
  <2>2. /\ [web EXCEPT !.expiries = n] \in HistoryRecord /\ [web EXCEPT !.expiries = n].expiries = n
        /\ [web EXCEPT !.expiries = n].loads = web.loads /\ [web EXCEPT !.expiries = n].failed = web.failed
        /\ [web EXCEPT !.expiries = n].overlap = web.overlap
    BY <1>2, <2>1 DEF HistoryRecord
  <2>3. QED
    BY <1>1, <2>2 DEF n
<1>4. WebTyped' /\ OneRefresh' /\ OneHolder' /\ Undisturbed'
  <2>1. WebTyped'
    BY <1>1, <1>2, <1>3 DEF WebInv, WebTyped
  <2>2. OneRefresh'
    BY <1>1 DEF WebInv, OneRefresh, Refreshing
  <2>3. 0 < expired' /\ expired' <= session'.current
    BY <1>1, <1>2 DEF WebInv, OneHolder
  <2>4. OneHolder'
    BY <1>1, <2>3 DEF WebInv, OneHolder, Asking
  <2>5. Undisturbed'
    BY <1>1, <1>3 DEF WebInv, Undisturbed, Asking
  <2>6. QED
    BY <2>1, <2>2, <2>4, <2>5
<1>5. NeedsRefresh'
  <2>1. ASSUME NEW c \in WebCalls, Refreshing(webCall[c]), session.active PROVE tab[webCall[c].tab].token <= session.current
    <3>1. tab[webCall[c].tab].token <= expired /\ webCall[c].tab \in Tabs
      BY <2>1 DEF WebInv, NeedsRefresh, OneRefresh
    <3>2. tab[webCall[c].tab].token \in Nat
      BY <3>1 DEF WebInv, WebTyped, TabRecord
    <3>3. QED
      BY <1>1, <1>2, <3>1, <3>2
  <2>2. QED
    BY <1>1, <2>1 DEF WebInv, NeedsRefresh, Refreshing
<1>6. RotationsCounted'
  <2> DEFINE k == Cardinality(Tabs)
             S == Unspent'
  <2>1. k \in Nat /\ Allowed \in Nat
    BY WebCounts
  <2>2. Allowed' = Allowed + k
    <3>1. k * (web.expiries + 1) = k * web.expiries + k
      BY <1>2, <2>1
    <3>2. QED
      BY <1>2, <1>3, <2>1, <3>1 DEF Allowed
  <2>3. S \subseteq Tabs
    BY DEF Unspent
  <2> HIDE DEF S
  <2>4. Cardinality(S) \in Nat /\ Cardinality(S) <= k
    BY <2>3, WebAssumption, FS_Subset, FS_CardinalityType
  <2>5. session.current - 1 <= Allowed
    BY DEF WebInv, RotationsCounted
  <2>6. session'.current - 1 <= Allowed' /\ session'.current - 1 + Cardinality(S) <= Allowed'
    <3> HIDE DEF k
    <3>1. QED
      BY <1>1, <1>2, <2>1, <2>2, <2>4, <2>5
  <2>7. QED
    BY <2>6 DEF RotationsCounted, S
<1>7. QED
  BY <1>4, <1>5, <1>6 DEF WebInv

\* A page is loaded again: its tab may rotate once more.
LEMMA LoadKeepsWeb ==
  ASSUME WebInv, NEW t \in Tabs, LoadPage(t)
  PROVE  WebInv'
<1>1. /\ session' = session /\ cookie' = cookie /\ webCall' = webCall /\ expired' = expired
      /\ tab' = [tab EXCEPT ![t] = NewTab] /\ web' = [web EXCEPT !.loads = @ + 1]
      /\ \A c \in WebCalls : webCall[c].tab # t
  BY DEF LoadPage
<1>2. /\ session.current \in Nat /\ expired \in Nat /\ web \in HistoryRecord /\ web.expiries \in Nat /\ web.loads \in Nat
      /\ tab \in [Tabs -> TabRecord]
  BY DEF WebInv, WebTyped, RowRecord, HistoryRecord
<1>3. /\ web' \in HistoryRecord /\ web'.expiries = web.expiries /\ web'.loads = web.loads + 1
      /\ web'.failed = web.failed /\ web'.overlap = web.overlap
  <2> DEFINE n == web.loads + 1
  <2>1. n \in Nat
    BY <1>2
  <2> HIDE DEF n
  <2>2. /\ [web EXCEPT !.loads = n] \in HistoryRecord /\ [web EXCEPT !.loads = n].loads = n
        /\ [web EXCEPT !.loads = n].expiries = web.expiries /\ [web EXCEPT !.loads = n].failed = web.failed
        /\ [web EXCEPT !.loads = n].overlap = web.overlap
    BY <1>2, <2>1 DEF HistoryRecord
  <2>3. QED
    BY <1>1, <2>2 DEF n
<1>4. tab' \in [Tabs -> TabRecord] /\ tab'[t] = NewTab /\ \A u \in Tabs \ {t} : tab'[u] = tab[u]
  BY <1>1, <1>2, WebFields
<1>5. NewTab.token = 0 /\ NewTab.inflight = NoCaller
  BY WebFields
<1>6. WebTyped'
  BY <1>1, <1>3, <1>4 DEF WebInv, WebTyped
<1>7. OneRefresh'
  <2>1. \A u \in Tabs : tab'[u].inflight # NoCaller => u # t /\ tab'[u] = tab[u]
    BY <1>4, <1>5
  <2>2. \A c \in WebCalls : Refreshing(webCall[c]) => tab'[webCall[c].tab] = tab[webCall[c].tab]
    BY <1>1, <1>4 DEF WebInv, OneRefresh
  <2>3. QED
    BY <1>1, <2>1, <2>2 DEF WebInv, OneRefresh, Refreshing
<1>8. OneHolder'
  BY <1>1 DEF WebInv, OneHolder, Asking
<1>9. NeedsRefresh'
  <2>1. \A u \in Tabs : ~tab'[u].booted => tab'[u].token = 0
    BY <1>4, <1>5 DEF WebInv, NeedsRefresh
  <2>2. \A c \in WebCalls : Refreshing(webCall[c]) /\ session.active => tab'[webCall[c].tab].token <= expired
    BY <1>1, <1>4 DEF WebInv, NeedsRefresh, OneRefresh
  <2>3. QED
    BY <1>1, <2>1, <2>2 DEF NeedsRefresh, Refreshing
<1>10. Undisturbed'
  <2>1. \A u \in Tabs : tab'[u].inflight # NoCaller => tab[u].inflight # NoCaller
    BY <1>4, <1>5
  <2>2. QED
    BY <1>1, <1>3, <2>1 DEF WebInv, Undisturbed, Asking
<1>11. RotationsCounted'
  <2> DEFINE S == Unspent
  <2>1. IsFiniteSet(S) /\ Cardinality(S) \in Nat /\ Allowed \in Nat
    BY WebCounts
  <2>2. Allowed' = Allowed + 1
    <3> DEFINE p == Cardinality(Tabs) * web.expiries
    <3>1. p \in Nat
      BY <1>2, WebCounts
    <3>2. Allowed = p + web.loads /\ Allowed' = p + (web.loads + 1)
      BY <1>3 DEF Allowed
    <3> HIDE DEF p
    <3>3. QED
      BY <1>2, <3>1, <3>2
  <2>3. Unspent' \subseteq S \cup {t}
    <3>1. \A u \in Tabs \ {t} : Spent(u) => Spent(u)'
      BY <1>1, <1>4 DEF Spent
    <3>2. QED
      BY <3>1 DEF Unspent
  <2>4. Usable' => Usable
    BY <1>1 DEF Usable, Asking
  <2> HIDE DEF S
  <2>5. Cardinality(Unspent') \in Nat /\ Cardinality(Unspent') <= Cardinality(S) + 1
    <3>1. IsFiniteSet(S \cup {t}) /\ Cardinality(S \cup {t}) <= Cardinality(S) + 1 /\ Cardinality(S \cup {t}) \in Nat
      <4>1. IsFiniteSet(S \cup {t})
            /\ Cardinality(S \cup {t}) = IF t \in S THEN Cardinality(S) ELSE Cardinality(S) + 1
        BY <2>1, FS_AddElement
      <4>2. QED
        BY <2>1, <4>1
    <3>2. Cardinality(Unspent') \in Nat /\ Cardinality(Unspent') <= Cardinality(S \cup {t})
      <4> DEFINE U == Unspent'
      <4>1. U \subseteq S \cup {t}
        BY <2>3
      <4> HIDE DEF U
      <4>2. Cardinality(U) \in Nat /\ Cardinality(U) <= Cardinality(S \cup {t})
        BY <3>1, <4>1, FS_Subset, FS_CardinalityType
      <4>3. QED
        BY <4>2 DEF U
    <3>3. QED
      BY <2>1, <3>1, <3>2
  <2>6. session.current - 1 <= Allowed /\ (Usable => session.current - 1 + Cardinality(S) <= Allowed)
    BY DEF WebInv, RotationsCounted, S
  <2>7. QED
    BY <1>1, <1>2, <2>1, <2>2, <2>4, <2>5, <2>6 DEF RotationsCounted
<1>12. QED
  BY <1>6, <1>7, <1>8, <1>9, <1>10, <1>11 DEF WebInv

\* refreshSession: the call joins the refresh in flight, or makes one.
LEMMA RefreshKeepsWeb ==
  ASSUME WebInv, NEW c \in WebCalls, NEW t \in Tabs, NEW next \in WebNexts, ~Refreshing(webCall[c]),
         tab[t].inflight = NoCaller /\ session.active => tab[t].token <= expired,
         RefreshSession(c, t, next), UNCHANGED <<session, cookie, expired>>
  PROVE  WebInv'
<1>1. CASE tab[t].inflight = NoCaller
  BY <1>1, RefreshStarts DEF RefreshSession
<1>2. CASE tab[t].inflight # NoCaller
  <2> DEFINE new == [NoWebCall EXCEPT !.pc = "joined", !.tab = t, !.token = webCall[c].token, !.next = next]
  <2>1. webCall' = [webCall EXCEPT ![c] = new] /\ tab' = tab /\ web' = web
    BY <1>2 DEF RefreshSession
  <2>2. new \in WebCallRecord /\ new.pc = "joined" /\ new.tab = t /\ new.answer = 0
    <3>1. webCall[c].token \in Nat /\ t \in Pages
      BY DEF WebInv, WebTyped, WebCallRecord, Pages
    <3>2. QED
      BY <3>1, WebFields DEF WebCallRecord
  <2> HIDE DEF new
  <2>3. ~Refreshing(new)
    BY <2>2 DEF Refreshing
  <2>4. QED
    BY <2>1, <2>2, <2>3, CallMoves
<1>3. QED
  BY <1>1, <1>2

\* A call goes out, is answered, or meets a 401.
LEMMA RequestKeepsWeb ==
  ASSUME WebInv, NEW c \in WebCalls,
         (\E t \in Tabs : ApiRequest(c, t)) \/ ApiAnswered(c) \/ Unauthorized(c)
  PROVE  WebInv'
<1>1. ASSUME NEW t \in Tabs, NEW pc \in {"sent", "retried"}
      PROVE  LET new == SendWith(t, pc, tab[t].token) IN
             /\ new \in WebCallRecord /\ ~Refreshing(new) /\ new.answer = 0 /\ new.tab = t
  <2> DEFINE new == [NoWebCall EXCEPT !.pc = pc, !.tab = t, !.token = tab[t].token]
  <2>1. tab[t].token \in Nat /\ t \in Pages /\ pc \in WebPcs
    BY WebFields DEF WebInv, WebTyped, TabRecord, Pages
  <2>2. new \in WebCallRecord /\ new.pc = pc /\ new.answer = 0 /\ new.tab = t
    BY <2>1, WebFields DEF WebCallRecord
  <2>3. new = SendWith(t, pc, tab[t].token)
    BY DEF SendWith
  <2> HIDE DEF new
  <2>4. QED
    BY <2>2, <2>3 DEF Refreshing
<1>2. expired \in Nat
  BY DEF WebInv, WebTyped
<1>3. ASSUME NEW t \in Tabs, ApiRequest(c, t) PROVE WebInv'
  <2>1. ~Refreshing(webCall[c])
    BY <1>3, WebFields DEF ApiRequest, Refreshing
  <2>2. CASE ~tab[t].booted \/ tab[t].inflight # NoCaller
    <3>1. tab[t].inflight = NoCaller /\ session.active => tab[t].token <= expired
      BY <1>2, <2>2 DEF WebInv, NeedsRefresh
    <3>2. RefreshSession(c, t, "send") /\ UNCHANGED <<session, cookie, expired>>
      BY <1>3, <2>2 DEF ApiRequest
    <3>3. QED
      BY <2>1, <3>1, <3>2, WebFields, RefreshKeepsWeb
  <2>3. CASE ~(~tab[t].booted \/ tab[t].inflight # NoCaller)
    <3>1. webCall' = [webCall EXCEPT ![c] = SendWith(t, "sent", tab[t].token)]
          /\ UNCHANGED <<session, cookie, tab, expired, web>>
      BY <1>3, <2>3 DEF ApiRequest
    <3>2. QED
      BY <1>1, <2>1, <3>1, CallMoves, ZenonT(30)
  <2>4. QED
    BY <2>2, <2>3
<1>4. CASE ApiAnswered(c)
  <2>1. ~Refreshing(webCall[c]) /\ ~Refreshing(NoWebCall)
    BY <1>4, WebFields DEF ApiAnswered, Refreshing
  <2>2. QED
    BY <1>4, <2>1, WebFields, CallMoves DEF ApiAnswered
<1>5. CASE Unauthorized(c)
  <2> DEFINE t == webCall[c].tab
  <2>1. webCall[c].pc = "sent" /\ webCall[c].token # 0 /\ ~Accepted(webCall[c].token)
    BY <1>5 DEF Unauthorized
  <2>2. ~Refreshing(webCall[c]) /\ t \in Tabs
    BY <2>1 DEF Refreshing, WebInv, WebTyped
  <2>3. CASE tab[t].token # 0 /\ tab[t].token # webCall[c].token
    <3>1. webCall' = [webCall EXCEPT ![c] = SendWith(t, "retried", tab[t].token)]
          /\ UNCHANGED <<session, cookie, tab, expired, web>>
      BY <1>5, <2>3 DEF Unauthorized
    <3>2. QED
      BY <1>1, <2>2, <3>1, CallMoves
  <2>4. CASE ~(tab[t].token # 0 /\ tab[t].token # webCall[c].token)
    <3>1. session.active => tab[t].token <= expired
      <4>1. tab[t].token \in Nat /\ webCall[c].token \in Nat
        BY <2>2 DEF WebInv, WebTyped, TabRecord, WebCallRecord
      <4>2. QED
        BY <1>2, <2>1, <2>4, <4>1 DEF Accepted
    <3>2. RefreshSession(c, t, "retry") /\ UNCHANGED <<session, cookie, expired>>
      BY <1>5, <2>4 DEF Unauthorized
    <3>3. QED
      BY <2>2, <3>1, <3>2, WebFields, RefreshKeepsWeb
  <2>5. QED
    BY <2>3, <2>4
<1>6. QED
  BY <1>3, <1>4, <1>5

\* The initial state satisfies the invariant.
LEMMA InitWeb == WebInit => WebInv
<1> SUFFICES ASSUME WebInit PROVE WebInv
  OBVIOUS
<1>1. /\ session \in RowRecord /\ session.current = 1 /\ session.active = TRUE /\ cookie = 1 /\ expired = 1
  BY WebFields DEF WebInit, RowRecord
<1>2. Cardinality(Tabs) \in Nat
  BY WebAssumption, FS_CardinalityType
<1>3. /\ web \in HistoryRecord /\ web.expiries = 0 /\ web.loads = Cardinality(Tabs)
  BY <1>2, WebFields DEF WebInit, HistoryRecord
<1>4. /\ tab \in [Tabs -> TabRecord] /\ webCall \in [WebCalls -> WebCallRecord]
      /\ \A t \in Tabs : tab[t].token = 0 /\ tab[t].inflight = NoCaller
      /\ \A c \in WebCalls : webCall[c].pc = "idle" /\ webCall[c].answer = 0
  BY WebFields DEF WebInit
<1>5. WebTyped
  BY <1>1, <1>3, <1>4 DEF WebTyped
<1>6. OneRefresh /\ OneHolder /\ NeedsRefresh
  BY <1>1, <1>4 DEF OneRefresh, OneHolder, NeedsRefresh, Refreshing, Asking
<1>7. Undisturbed
  BY <1>1, <1>4 DEF Undisturbed, Asking
<1>8. RotationsCounted
  <2> DEFINE k == Cardinality(Tabs)
             S == Unspent
  <2>1. S \subseteq Tabs
    BY DEF Unspent
  <2>2. Allowed = k
    <3>1. k * 0 = 0
      BY <1>2
    <3>2. QED
      BY <1>2, <1>3, <3>1 DEF Allowed
  <2> HIDE DEF S
  <2>3. Cardinality(S) \in Nat /\ Cardinality(S) <= k
    BY <2>1, WebAssumption, FS_Subset, FS_CardinalityType
  <2>4. QED
    BY <1>1, <1>2, <2>2, <2>3 DEF RotationsCounted, S
<1>9. QED
  BY <1>5, <1>6, <1>7, <1>8 DEF WebInv

\* The invariant of the browser's session, for any number of tabs and calls.
THEOREM WebInvariance == WebSpec => []WebInv
<1>1. WebInv /\ [WebNext]_webVars => WebInv'
  <2> SUFFICES ASSUME WebInv, [WebNext]_webVars PROVE WebInv'
    OBVIOUS
  <2>1. CASE UNCHANGED webVars
    BY <2>1 DEF webVars, WebInv, WebTyped, OneRefresh, OneHolder, NeedsRefresh, Undisturbed, RotationsCounted, Refreshing,
                Asking, Usable, Unspent, Spent, Allowed
  <2>2. QED
    BY <2>1, RequestKeepsWeb, ReadKeepsWeb, RotateKeepsWeb, StoreFailsKeepsWeb, AnswerKeepsWeb, ExpiryKeepsWeb,
       LoadKeepsWeb DEF WebNext
<1>2. QED
  BY <1>1, InitWeb, PTL DEF WebSpec

\* Calls of a tab that fail with 401 at once share one rotation: the session
\* is lost only after a failure or when tabs overlapped, and rotations stay
\* within one per tab for each expiry and page load.
THEOREM CallsShareRotation == WebSpec => []SingleFlight
<1>1. WebInv => SingleFlight
  BY DEF WebInv, Undisturbed, RotationsCounted, Allowed, SingleFlight, KeptUnlessFailedOrOverlap, SharedRotation
<1>2. QED
  BY <1>1, WebInvariance, PTL

-----------------------------------------------------------------------------
(* The least of a set *)

NatLess == {ss \in Nat \X Nat : ss[1] < ss[2]}

\* The order of the naturals has no infinite descent.
LEMMA NatLessWellFounded == IsWellFoundedOn(NatLess, Nat)
<1>1. OpToRel(<, Nat) = NatLess
  BY DEF OpToRel, NatLess
<1>2. QED
  BY <1>1, NatLessThanWellFounded, Zenon

\* Every nonempty set of naturals has its Min.
LEMMA MinIsLeast ==
  ASSUME NEW S, S \subseteq Nat, S # {}
  PROVE  Min(S) \in S /\ \A y \in S : Min(S) <= y
<1>1. PICK x \in S : \A y \in S : ~ (<<y, x>> \in NatLess)
  BY NatLessWellFounded, WFMin, Zenon
<1>2. ASSUME NEW y \in S PROVE x <= y
  <2>1. x \in Nat /\ y \in Nat
    OBVIOUS
  <2>2. ~ (<<y, x>> \in NatLess)
    BY <1>1
  <2>3. ~ (y < x)
    BY <2>1, <2>2 DEF NatLess
  <2>4. QED
    BY <2>1, <2>3
<1>3. QED
  BY <1>2 DEF Min

-----------------------------------------------------------------------------
(* The player (WebPlayer)                                                   *)

Flags == BOOLEAN
Loads == Nat
LoadSets == SUBSET Nat
Indexes == 0..Len(Queue)
Repeats == {"off", "all", "one"}
CallKinds == {"load", "renew"}
ReportKinds == {"started", "finished", "skipped"}
Reported == [1..MaxPlays -> Seq(ReportKinds)]
AudioRecord == [load : Loads, paused : Flags, ok : Flags, starting : Flags, rejected : Flags]
GrantRecord == [load : Loads, expired : Flags]
GrantCall == [kind : CallKinds, load : Loads, n : Loads]
GrantCalls == SUBSET GrantCall
PlaybackRecord == [load : Loads, started : Flags, done : Flags]
PlayerRecord ==
  [index : Indexes, load : Loads, playing : Flags, past : Flags, repeat : Repeats, shuffle : Flags,
   audio : AudioRecord, grant : GrantRecord, calls : GrantCalls, renewals : Loads,
   playback : PlaybackRecord, reports : Reported, failed : LoadSets, ended : LoadSets]

\* The track the store counts is the one that is reported, or authorized; the
\* element has it, or an earlier one, or none.
Sound(s) ==
  /\ s.playback.load = s.load /\ s.load <= MaxPlays /\ s.audio.load <= s.load
  /\ \A c \in s.calls : 0 < c.load /\ c.load <= s.load
  /\ s.index # 0 => s.load # 0

Awaits(s) == (\E c \in s.calls : c.load = s.load) \/ s.load \in s.failed
Quiet(s) == ~s.audio.paused => s.playing /\ s.audio.load # 0
Right(s) == s.audio.load # s.load => Awaits(s)
Asked(s) == s.playing => ~s.audio.paused \/ Awaits(s) \/ s.audio.rejected

\* Audio of the current track that is heard has been reported started.
Hears(s) ==
  ~s.audio.paused /\ s.audio.ok /\ ~s.audio.starting /\ s.audio.load = s.load => s.playback.started

\* What was reported of the playbacks before, of this one, and of those to come.
Finals == {<<>>, <<"started">>, <<"started", "finished">>, <<"started", "skipped">>}
ToldSoFar(b) == IF ~b.started THEN <<>> ELSE IF ~b.done THEN <<"started">> ELSE <<"started", "finished">>
Told(s) ==
  /\ s.playback.done => s.playback.started
  /\ s.playback.started => s.load # 0
  /\ \A l \in 1..MaxPlays :
       /\ l > s.load => s.reports[l] = <<>> /\ l \notin s.ended
       /\ l = s.load => s.reports[l] = ToldSoFar(s.playback) /\ (l \in s.ended => s.playback.done)
       /\ l < s.load => s.reports[l] \in Finals /\ (l \in s.ended => s.reports[l] = <<"started", "finished">>)

\* Within a task a player that shows "playing" may have come to a halt.
Nearly(s) == s \in PlayerRecord /\ Sound(s) /\ Quiet(s) /\ Right(s) /\ Hears(s) /\ Told(s)
Obeying(s) == Nearly(s) /\ Asked(s)

\* The types of a state's fields.
LEMMA PlayerFields ==
  ASSUME NEW s \in PlayerRecord
  PROVE  /\ s.index \in Indexes /\ s.load \in Nat /\ s.playing \in BOOLEAN
         /\ s.audio \in AudioRecord /\ s.audio.load \in Nat /\ s.audio.paused \in BOOLEAN /\ s.audio.ok \in BOOLEAN
         /\ s.audio.starting \in BOOLEAN /\ s.audio.rejected \in BOOLEAN
         /\ s.calls \in SUBSET GrantCall /\ s.playback \in PlaybackRecord /\ s.playback.load \in Nat
         /\ s.playback.started \in BOOLEAN /\ s.playback.done \in BOOLEAN
         /\ s.reports \in Reported /\ s.failed \in SUBSET Nat /\ s.ended \in SUBSET Nat
         /\ s.renewals \in Nat /\ s.grant \in GrantRecord /\ s.grant.expired \in BOOLEAN
         /\ \A c \in s.calls : c.load \in Nat
<1>1. /\ s.audio \in AudioRecord /\ s.playback \in PlaybackRecord /\ s.grant \in GrantRecord
      /\ s.calls \in GrantCalls
  BY DEF PlayerRecord
<1>2. /\ s.index \in Indexes /\ s.load \in Loads /\ s.playing \in Flags /\ s.reports \in Reported
      /\ s.failed \in LoadSets /\ s.ended \in LoadSets /\ s.renewals \in Loads
  BY DEF PlayerRecord
<1>3. /\ s.audio.load \in Nat /\ s.audio.paused \in BOOLEAN /\ s.audio.ok \in BOOLEAN
      /\ s.audio.starting \in BOOLEAN /\ s.audio.rejected \in BOOLEAN
  BY <1>1 DEF AudioRecord, Loads, Flags
<1>4. s.playback.load \in Nat /\ s.playback.started \in BOOLEAN /\ s.playback.done \in BOOLEAN /\ s.grant.expired \in BOOLEAN
  BY <1>1 DEF PlaybackRecord, GrantRecord, Loads, Flags
<1>5. \A c \in s.calls : c.load \in Nat
  BY <1>1 DEF GrantCalls, GrantCall, Loads
<1>6. QED
  BY <1>1, <1>2, <1>3, <1>4, <1>5 DEF GrantCalls, LoadSets, Loads, Flags

\* What does not depend on the element and on whether the player plays.
SameBooks(s, t) ==
  /\ t.index = s.index /\ t.load = s.load /\ t.calls = s.calls /\ t.failed = s.failed
  /\ t.playback = s.playback /\ t.reports = s.reports /\ t.ended = s.ended

\* Replacing the element, and setting what the player shows.
LEMMA PutAudio ==
  ASSUME NEW s \in PlayerRecord, NEW a \in AudioRecord
  PROVE  /\ [s EXCEPT !.audio = a] \in PlayerRecord
         /\ SameBooks(s, [s EXCEPT !.audio = a]) /\ [s EXCEPT !.audio = a].audio = a
         /\ [s EXCEPT !.audio = a].playing = s.playing
BY DEF PlayerRecord, SameBooks

LEMMA PutPlaying ==
  ASSUME NEW s \in PlayerRecord, NEW v \in BOOLEAN
  PROVE  /\ [s EXCEPT !.playing = v] \in PlayerRecord
         /\ SameBooks(s, [s EXCEPT !.playing = v]) /\ [s EXCEPT !.playing = v].audio = s.audio
         /\ [s EXCEPT !.playing = v].playing = v
<1>1. v \in Flags
  BY DEF Flags
<1>2. QED
  BY <1>1 DEF PlayerRecord, SameBooks

\* play() and pause() of the element.
LEMMA EnginePlays ==
  ASSUME NEW s \in PlayerRecord, NEW t, t = EnginePlay(s)
  PROVE  /\ t \in PlayerRecord /\ SameBooks(s, t) /\ t.playing = s.playing
         /\ t.audio.load = s.audio.load /\ t.audio.ok = s.audio.ok
         /\ s.audio.load = 0 => t.audio = s.audio
         /\ s.audio.load # 0 => ~t.audio.paused /\ t.audio.starting
<1> DEFINE a == [s.audio EXCEPT !.paused = FALSE, !.starting = TRUE, !.rejected = @ \/ ~s.audio.ok]
<1>1. CASE s.audio.load = 0
  BY <1>1 DEF EnginePlay, SameBooks
<1>2. CASE s.audio.load # 0
  <2>1. a \in AudioRecord /\ a.load = s.audio.load /\ a.ok = s.audio.ok /\ ~a.paused /\ a.starting
    <3>1. s.audio \in AudioRecord /\ TRUE \in Flags /\ FALSE \in Flags /\ (s.audio.rejected \/ ~s.audio.ok) \in Flags
      BY PlayerFields DEF Flags
    <3>2. QED
      BY <3>1 DEF AudioRecord
  <2>2. t = [s EXCEPT !.audio = a]
    BY <1>2, PlayerFields DEF EnginePlay, PlayerRecord, AudioRecord
  <2> HIDE DEF a
  <2>3. QED
    BY <1>2, <2>1, <2>2, PutAudio
<1>3. QED
  BY <1>1, <1>2

LEMMA EnginePauses ==
  ASSUME NEW s \in PlayerRecord, NEW t, t = EnginePause(s)
  PROVE  /\ t \in PlayerRecord /\ SameBooks(s, t) /\ t.playing = s.playing
         /\ t.audio.load = s.audio.load /\ t.audio.paused
<1> DEFINE a == [s.audio EXCEPT !.paused = TRUE, !.starting = FALSE]
<1>1. a \in AudioRecord /\ a.load = s.audio.load /\ a.paused
  <2>1. s.audio \in AudioRecord /\ TRUE \in Flags /\ FALSE \in Flags
    BY PlayerFields DEF Flags
  <2>2. QED
    BY <2>1 DEF AudioRecord
<1>2. t = [s EXCEPT !.audio = a]
  BY PlayerFields DEF EnginePause, PlayerRecord, AudioRecord
<1> HIDE DEF a
<1>3. QED
  BY <1>1, <1>2, PutAudio

LEMMA PlayingSet ==
  ASSUME NEW s \in PlayerRecord, NEW v \in BOOLEAN, NEW t, t = SetPlaying(s, v)
  PROVE  /\ t \in PlayerRecord /\ SameBooks(s, t) /\ t.playing = v /\ t.audio.load = s.audio.load
         /\ ~v => t.audio.paused \/ (~s.playing /\ t.audio = s.audio)
         /\ v /\ ~s.playing /\ s.audio.load # 0 => ~t.audio.paused /\ t.audio.starting
         /\ v /\ (s.playing \/ s.audio.load = 0) => t.audio = s.audio
<1> DEFINE u == [s EXCEPT !.playing = v]
<1>1. u \in PlayerRecord /\ SameBooks(s, u) /\ u.audio = s.audio /\ u.playing = v
  BY PutPlaying
<1>2. t = IF v = s.playing THEN u ELSE IF v THEN EnginePlay(u) ELSE EnginePause(u)
  BY DEF SetPlaying
<1> HIDE DEF u
<1>3. CASE v = s.playing
  BY <1>1, <1>2, <1>3
<1>4. CASE v # s.playing /\ v
  <2>1. t = EnginePlay(u) /\ ~s.playing
    BY <1>2, <1>4, PlayerFields
  <2>2. /\ t \in PlayerRecord /\ SameBooks(u, t) /\ t.playing = u.playing /\ t.audio.load = u.audio.load
        /\ u.audio.load = 0 => t.audio = u.audio
        /\ u.audio.load # 0 => ~t.audio.paused /\ t.audio.starting
    BY <1>1, <2>1, EnginePlays
  <2>3. QED
    BY <1>1, <1>4, <2>1, <2>2 DEF SameBooks
<1>5. CASE v # s.playing /\ ~v
  <2>1. t = EnginePause(u)
    BY <1>2, <1>5
  <2>2. QED
    BY <1>1, <1>5, <2>1, EnginePauses DEF SameBooks
<1>6. s.playing \in BOOLEAN
  BY PlayerFields
<1>7. QED
  BY <1>3, <1>4, <1>5, <1>6

\* The books keep what they say.
LEMMA BooksKeep ==
  ASSUME NEW s, NEW t, SameBooks(s, t), Told(s)
  PROVE  Told(t) /\ (Awaits(t) <=> Awaits(s))
BY DEF SameBooks, Told, Awaits, ToldSoFar

\* A player that is told to stop, or to play, does.
LEMMA StopObeys ==
  ASSUME NEW s, Nearly(s), NEW t, t = SetPlaying(s, FALSE)
  PROVE  Obeying(t)
<1>1. /\ s \in PlayerRecord /\ t \in PlayerRecord /\ SameBooks(s, t) /\ ~t.playing /\ t.audio.load = s.audio.load
      /\ t.audio.paused \/ (~s.playing /\ t.audio = s.audio)
  BY PlayingSet DEF Nearly
<1>2. t.audio.paused
  BY <1>1 DEF Nearly, Quiet
<1>3. Told(t) /\ (Awaits(t) <=> Awaits(s))
  BY <1>1, BooksKeep DEF Nearly
<1>4. Sound(t)
  BY <1>1 DEF Nearly, Sound, SameBooks
<1>5. Quiet(t) /\ Hears(t) /\ Asked(t)
  BY <1>1, <1>2 DEF Quiet, Hears, Asked
<1>6. Right(t)
  BY <1>1, <1>3 DEF Nearly, Right, SameBooks
<1>7. QED
  BY <1>1, <1>3, <1>4, <1>5, <1>6 DEF Obeying, Nearly

LEMMA PlayObeys ==
  ASSUME NEW s, Obeying(s), s.index # 0, NEW t, t = SetPlaying(s, TRUE)
  PROVE  Obeying(t)
<1>1. /\ s \in PlayerRecord /\ t \in PlayerRecord /\ SameBooks(s, t) /\ t.playing /\ t.audio.load = s.audio.load
      /\ ~s.playing /\ s.audio.load # 0 => ~t.audio.paused /\ t.audio.starting
      /\ s.playing \/ s.audio.load = 0 => t.audio = s.audio
  BY PlayingSet DEF Obeying, Nearly
<1>2. s.playing \in BOOLEAN
  BY <1>1, PlayerFields
<1>3. Told(t) /\ (Awaits(t) <=> Awaits(s))
  BY <1>1, BooksKeep DEF Obeying, Nearly
<1>4. Sound(t)
  BY <1>1 DEF Obeying, Nearly, Sound, SameBooks
<1>5. Right(t)
  BY <1>1, <1>3 DEF Obeying, Nearly, Right, SameBooks
<1>6. Quiet(t)
  BY <1>1, <1>2 DEF Obeying, Nearly, Quiet
<1>7. Hears(t)
  BY <1>1, <1>2 DEF Obeying, Nearly, Hears, SameBooks
<1>8. Asked(t)
  <2>1. CASE s.playing
    BY <1>1, <1>3, <2>1 DEF Obeying, Asked
  <2>2. CASE ~s.playing /\ s.audio.load # 0
    BY <1>1, <2>2 DEF Asked
  <2>3. CASE s.audio.load = 0
    <3>1. Awaits(s)
      BY <2>3 DEF Obeying, Nearly, Sound, Right
    <3>2. QED
      BY <1>3, <3>1 DEF Asked
  <2>4. QED
    BY <1>2, <2>1, <2>2, <2>3
<1>9. QED
  BY <1>1, <1>3, <1>4, <1>5, <1>6, <1>7, <1>8 DEF Obeying, Nearly

LEMMA AppendedTwo ==
  ASSUME NEW x, NEW y
  PROVE  Append(<<x>>, y) = <<x, y>>
<1>1. <<x>> \in Seq({x, y}) /\ y \in {x, y} /\ Len(<<x>>) = 1 /\ <<x>>[1] = x
  OBVIOUS
<1>2. /\ Append(<<x>>, y) \in Seq({x, y}) /\ Len(Append(<<x>>, y)) = 2
      /\ Append(<<x>>, y)[1] = x /\ Append(<<x>>, y)[2] = y
  BY <1>1, AppendProperties
<1>3. <<x, y>> \in Seq({x, y}) /\ Len(<<x, y>>) = 2 /\ <<x, y>>[1] = x /\ <<x, y>>[2] = y
  OBVIOUS
<1>4. \A i \in 1..2 : i = 1 \/ i = 2
  OBVIOUS
<1>5. QED
  BY <1>2, <1>3, <1>4, SeqEqual

\* A new track: the playback before it is reported skipped if it had begun and
\* not ended.
LEMMA StartObeys ==
  ASSUME NEW s, Nearly(s), NEW i \in Indexes, NEW t, t = StartAt(s, i), t.load <= MaxPlays
  PROVE  Obeying(t)
<1> DEFINE c == [kind |-> "load", load |-> s.load + 1, n |-> 0]
           u == [s EXCEPT !.index = i, !.load = @ + 1, !.playing = TRUE, !.past = FALSE]
           b == s.playback
           r == IF b.started /\ ~b.done THEN [s.reports EXCEPT ![b.load] = Append(@, "skipped")] ELSE s.reports
           new == [load |-> s.load + 1, started |-> FALSE, done |-> FALSE]
           v == [u EXCEPT !.playback = new, !.reports = r]
<1>1. s \in PlayerRecord /\ s.load \in Nat /\ s.load + 1 \in Loads /\ TRUE \in Flags /\ FALSE \in Flags /\ MaxPlays \in Nat
  BY PlayerFields, PlayerAssumption DEF Nearly, Loads, Flags
<1>2. /\ u \in PlayerRecord /\ u.load = s.load + 1 /\ u.index = i /\ u.playing /\ u.audio = s.audio
      /\ u.calls = s.calls /\ u.playback = b /\ u.reports = s.reports /\ u.failed = s.failed /\ u.ended = s.ended
  BY <1>1 DEF PlayerRecord
<1>3. new \in PlaybackRecord /\ c \in GrantCall /\ c.load = s.load + 1
  BY <1>1 DEF PlaybackRecord, GrantCall, CallKinds, Loads
<1>4. b.load = s.load /\ s.load <= MaxPlays /\ (b.started => s.load \in 1..MaxPlays)
  BY <1>1 DEF Nearly, Sound, Told
<1>5. /\ r \in Reported
      /\ \A k \in 1..MaxPlays : r[k] = IF k = s.load /\ b.started /\ ~b.done THEN Append(s.reports[k], "skipped")
                                       ELSE s.reports[k]
  <2>1. CASE b.started /\ ~b.done
    <3>1. b.load \in 1..MaxPlays /\ b.load = s.load /\ s.reports \in Reported
      BY <1>1, <1>4, <2>1, PlayerFields
    <3>2. r = [s.reports EXCEPT ![b.load] = Append(s.reports[b.load], "skipped")]
      BY <2>1
    <3> HIDE DEF r
    <3>0. "skipped" \in ReportKinds
      BY DEF ReportKinds
    <3>3. r \in Reported /\ r[b.load] = Append(s.reports[b.load], "skipped")
          /\ \A k \in 1..MaxPlays : k # b.load => r[k] = s.reports[k]
      <4>1. Append(s.reports[b.load], "skipped") \in Seq(ReportKinds)
        <5>1. s.reports[b.load] \in Seq(ReportKinds)
          BY <3>1 DEF Reported
        <5>2. QED
          BY <3>0, <5>1, AppendProperties
      <4>2. QED
        BY <3>1, <3>2, <4>1 DEF Reported
    <3>4. QED
      BY <2>1, <3>1, <3>3
  <2>2. CASE ~(b.started /\ ~b.done)
    BY <1>1, <2>2, PlayerFields
  <2>3. QED
    BY <2>1, <2>2
<1>6. Begin(u) = v
  BY <1>1, <1>2 DEF Begin, Send, PlayerRecord
<1> HIDE DEF u, r, new, c, v
<1>7. /\ v \in PlayerRecord /\ v.playback = new /\ v.reports = r /\ v.index = i /\ v.load = s.load + 1
      /\ v.calls = s.calls /\ v.failed = s.failed /\ v.audio = s.audio /\ v.playing /\ v.ended = s.ended
  BY <1>2, <1>3, <1>5 DEF v, PlayerRecord
<1>8. t = [v EXCEPT !.calls = @ \cup {c}]
  BY <1>1, <1>6 DEF StartAt, u, c, PlayerRecord
<1>9. /\ t \in PlayerRecord /\ t.playback = new /\ t.reports = r /\ t.index = i /\ t.load = s.load + 1
      /\ t.calls = s.calls \cup {c} /\ t.failed = s.failed /\ t.audio = s.audio /\ t.playing /\ t.ended = s.ended
  <2>1. v.calls \cup {c} \in GrantCalls
    BY <1>3, <1>7, PlayerFields DEF GrantCalls
  <2>2. QED
    BY <1>7, <1>8, <2>1 DEF PlayerRecord
<1>10. new.load = s.load + 1 /\ ~new.started /\ ~new.done
  BY DEF new
<1>11. Awaits(t)
  BY <1>3, <1>9 DEF Awaits
<1>12. s.audio.load \in Nat /\ s.audio.load <= s.load /\ \A d \in s.calls : d.load \in Nat /\ 0 < d.load /\ d.load <= s.load
  BY <1>1, PlayerFields DEF Nearly, Sound
<1>13. Sound(t)
  BY <1>1, <1>3, <1>9, <1>10, <1>12 DEF Sound
<1>14. Quiet(t) /\ Right(t) /\ Asked(t)
  BY <1>9, <1>11 DEF Nearly, Quiet, Right, Asked
<1>15. Hears(t)
  BY <1>1, <1>9, <1>12 DEF Hears
<1>16. Told(t)
  <2>1. ASSUME NEW l \in 1..MaxPlays
        PROVE  /\ l > t.load => t.reports[l] = <<>> /\ l \notin t.ended
               /\ l = t.load => t.reports[l] = <<>> /\ l \notin t.ended
               /\ l < t.load => t.reports[l] \in Finals /\ (l \in t.ended => t.reports[l] = <<"started", "finished">>)
    <3>1. CASE l > s.load
      BY <1>1, <1>5, <1>9, <3>1 DEF Nearly, Told
    <3>2. CASE l < s.load
      BY <1>1, <1>5, <1>9, <3>2 DEF Nearly, Told
    <3>3. CASE l = s.load
      <4>1. s.reports[l] = ToldSoFar(b) /\ (l \in s.ended => b.done) /\ (b.done => b.started)
        BY <3>3 DEF Nearly, Told
      <4>2. r[l] = IF b.started /\ ~b.done THEN Append(<<"started">>, "skipped") ELSE ToldSoFar(b)
        BY <1>5, <3>3, <4>1 DEF ToldSoFar
      <4>3. Append(<<"started">>, "skipped") = <<"started", "skipped">>
        BY AppendedTwo
      <4>4. r[l] \in Finals /\ (l \in s.ended => r[l] = <<"started", "finished">>)
        BY <4>1, <4>2, <4>3 DEF Finals, ToldSoFar
      <4>5. QED
        BY <1>1, <1>9, <3>3, <4>4
    <3>4. QED
      BY <1>1, <3>1, <3>2, <3>3
  <2>2. QED
    BY <1>9, <1>10, <2>1 DEF Told, ToldSoFar
<1>17. QED
  BY <1>9, <1>13, <1>14, <1>15, <1>16 DEF Obeying, Nearly

\* What the reporter's listener does: nothing, or one report that the playback
\* started or finished.
Unheard(s, event) ==
  s.load # 0 => IF event = "playing" THEN s.playback.started ELSE ~s.playback.started \/ s.playback.done
Written(s, b, r, event) ==
  /\ s.load \in 1..MaxPlays /\ b.load = s.load
  /\ \A k \in 1..MaxPlays : k # s.load => r[k] = s.reports[k]
  /\ IF event = "playing"
     THEN /\ ~s.playback.started /\ b.started /\ b.done = s.playback.done
          /\ r[s.load] = Append(s.reports[s.load], "started")
     ELSE /\ s.playback.started /\ ~s.playback.done /\ b.started /\ b.done
          /\ r[s.load] = Append(s.reports[s.load], "finished")

LEMMA HeardWrites ==
  ASSUME NEW s \in PlayerRecord, Sound(s), NEW event \in {"playing", "ended"}, NEW t, t = Heard(s, event)
  PROVE  \/ t = s /\ Unheard(s, event)
         \/ \E b \in PlaybackRecord, r \in Reported :
              t = [s EXCEPT !.playback = b, !.reports = r] /\ Written(s, b, r, event)
<1>1. /\ s.playback \in PlaybackRecord /\ s.playback.load = s.load /\ s.load \in Nat /\ s.load <= MaxPlays /\ MaxPlays \in Nat
      /\ s.reports \in Reported /\ TRUE \in Flags
  BY PlayerFields, PlayerAssumption DEF Sound, Flags
<1>2. CASE s.load # 0 /\ event = "playing" /\ ~s.playback.started
  <2> DEFINE b == [s.playback EXCEPT !.started = TRUE]
             r == [s.reports EXCEPT ![s.load] = Append(@, "started")]
  <2>1. b \in PlaybackRecord /\ b.load = s.load /\ b.started /\ b.done = s.playback.done
    BY <1>1 DEF PlaybackRecord
  <2>2. s.load \in 1..MaxPlays
    BY <1>1, <1>2
  <2>3. t = [s EXCEPT !.playback = b, !.reports = r]
    BY <1>1, <1>2 DEF Heard, Send, PlayerRecord, PlaybackRecord
  <2> HIDE DEF b, r
  <2>4. r = [s.reports EXCEPT ![s.load] = Append(s.reports[s.load], "started")]
    BY DEF r
  <2>5. s.reports \in Reported /\ "started" \in ReportKinds
    BY <1>1 DEF ReportKinds
  <2>6. r \in Reported /\ r[s.load] = Append(s.reports[s.load], "started") /\ \A k \in 1..MaxPlays : k # s.load => r[k] = s.reports[k]
    <3>1. Append(s.reports[s.load], "started") \in Seq(ReportKinds)
      <4>1. s.reports[s.load] \in Seq(ReportKinds)
        BY <2>2, <2>5 DEF Reported
      <4>2. QED
        BY <2>5, <4>1, AppendProperties
    <3>2. QED
      BY <2>2, <2>4, <2>5, <3>1 DEF Reported
  <2>7. Written(s, b, r, event)
    BY <1>2, <2>1, <2>2, <2>6 DEF Written
  <2>8. QED
    BY <2>1, <2>3, <2>6, <2>7
<1>3. CASE s.load # 0 /\ event = "ended" /\ s.playback.started /\ ~s.playback.done
  <2> DEFINE b == [s.playback EXCEPT !.done = TRUE]
             r == [s.reports EXCEPT ![s.load] = Append(@, "finished")]
  <2>1. b \in PlaybackRecord /\ b.load = s.load /\ b.started /\ b.done
    BY <1>1, <1>3 DEF PlaybackRecord
  <2>2. s.load \in 1..MaxPlays
    BY <1>1, <1>3
  <2>3. t = [s EXCEPT !.playback = b, !.reports = r]
    BY <1>1, <1>3 DEF Heard, Send, PlayerRecord, PlaybackRecord
  <2> HIDE DEF b, r
  <2>4. r = [s.reports EXCEPT ![s.load] = Append(s.reports[s.load], "finished")]
    BY DEF r
  <2>5. s.reports \in Reported /\ "finished" \in ReportKinds
    BY <1>1 DEF ReportKinds
  <2>6. r \in Reported /\ r[s.load] = Append(s.reports[s.load], "finished") /\ \A k \in 1..MaxPlays : k # s.load => r[k] = s.reports[k]
    <3>1. Append(s.reports[s.load], "finished") \in Seq(ReportKinds)
      <4>1. s.reports[s.load] \in Seq(ReportKinds)
        BY <2>2, <2>5 DEF Reported
      <4>2. QED
        BY <2>5, <4>1, AppendProperties
    <3>2. QED
      BY <2>2, <2>4, <2>5, <3>1 DEF Reported
  <2>7. Written(s, b, r, event)
    BY <1>3, <2>1, <2>2, <2>6 DEF Written
  <2>8. QED
    BY <2>1, <2>3, <2>6, <2>7
<1>4. CASE s.load = 0
  BY <1>1, <1>4 DEF Heard, Unheard
<1>5. CASE s.load # 0 /\ event = "playing" /\ s.playback.started
  BY <1>1, <1>5 DEF Heard, Unheard
<1>6. CASE s.load # 0 /\ event = "ended" /\ (~s.playback.started \/ s.playback.done)
  BY <1>1, <1>6 DEF Heard, Unheard
<1>7. QED
  BY <1>2, <1>3, <1>4, <1>5, <1>6

\* The element says that it plays.
LEMMA PlayingHeard ==
  ASSUME NEW s, Obeying(s), NEW t, t = Heard(s, "playing")
  PROVE  Obeying(t) /\ t.audio = s.audio /\ t.load = s.load /\ (s.load # 0 => t.playback.started)
<1>1. s \in PlayerRecord /\ Sound(s)
  BY DEF Obeying, Nearly
<1>2. CASE t = s /\ Unheard(s, "playing")
  BY <1>2 DEF Unheard
<1>3. ASSUME NEW b \in PlaybackRecord, NEW r \in Reported,
             t = [s EXCEPT !.playback = b, !.reports = r], Written(s, b, r, "playing")
      PROVE  Obeying(t) /\ t.audio = s.audio /\ t.load = s.load /\ t.playback.started
  <2> /\ s.load \in 1..MaxPlays /\ b.load = s.load
      /\ \A k \in 1..MaxPlays : k # s.load => r[k] = s.reports[k]
      /\ ~s.playback.started /\ b.started /\ b.done = s.playback.done
      /\ r[s.load] = Append(s.reports[s.load], "started")
    BY <1>3 DEF Written
  <2>1. /\ t \in PlayerRecord /\ t.playback = b /\ t.reports = r
        /\ t.index = s.index /\ t.load = s.load /\ t.calls = s.calls /\ t.failed = s.failed
        /\ t.audio = s.audio /\ t.playing = s.playing /\ t.ended = s.ended
    BY <1>1, <1>3 DEF PlayerRecord
  <2>2. Awaits(t) <=> Awaits(s)
    BY <2>1 DEF Awaits
  <2>3. Sound(t) /\ Quiet(t) /\ Right(t) /\ Asked(t)
    BY <1>3, <2>1, <2>2 DEF Obeying, Nearly, Sound, Quiet, Right, Asked
  <2>4. Hears(t)
    BY <1>3, <2>1 DEF Hears
  <2>5. ~s.playback.done /\ s.reports[s.load] = <<>> /\ s.load \notin s.ended
    BY <1>3 DEF Obeying, Nearly, Told, ToldSoFar
  <2>6. Append(<<>>, "started") = <<"started">>
    OBVIOUS
  <2>7. Told(t)
    <3>1. s.load # 0 /\ s.load \in Nat
      BY <1>3
    <3>2. ASSUME NEW l \in 1..MaxPlays
          PROVE  /\ l > t.load => t.reports[l] = <<>> /\ l \notin t.ended
                 /\ l = t.load => t.reports[l] = ToldSoFar(t.playback) /\ (l \in t.ended => t.playback.done)
                 /\ l < t.load => t.reports[l] \in Finals /\ (l \in t.ended => t.reports[l] = <<"started", "finished">>)
      <4>1. CASE l = s.load
        BY <1>3, <2>1, <2>5, <2>6, <4>1 DEF ToldSoFar
      <4>2. CASE l # s.load
        BY <1>3, <2>1, <3>1, <4>2 DEF Obeying, Nearly, Told
      <4>3. QED
        BY <4>1, <4>2
    <3>3. QED
      BY <1>3, <2>1, <2>5, <3>1, <3>2 DEF Told
  <2>8. QED
    BY <1>3, <2>1, <2>3, <2>4, <2>7 DEF Obeying, Nearly
<1>4. QED
  BY <1>1, <1>2, <1>3, HeardWrites

\* The element came to the end of its source: the reporter hears of it first.
LEMMA EndHeard ==
  ASSUME NEW s, Nearly(s), ~s.audio.paused, s.audio.ok, ~s.audio.starting, NEW a, NEW t,
         a = [s EXCEPT !.audio.paused = TRUE,
                       !.ended = IF s.audio.load = s.load THEN @ \cup {s.load} ELSE @],
         t = Heard(a, "ended")
  PROVE  Nearly(t)
<1> DEFINE pause == [s.audio EXCEPT !.paused = TRUE]
           ends == IF s.audio.load = s.load THEN s.ended \cup {s.load} ELSE s.ended
<1>1. s \in PlayerRecord /\ Sound(s) /\ s.load \in Nat /\ s.audio \in AudioRecord /\ TRUE \in Flags /\ s.ended \in SUBSET Nat
  BY PlayerFields DEF Nearly, Flags
<1>2. pause \in AudioRecord /\ pause.paused /\ pause.load = s.audio.load
  BY <1>1 DEF AudioRecord
<1>3. ends \in LoadSets
  BY <1>1 DEF LoadSets
<1>4. a = [s EXCEPT !.audio = pause, !.ended = ends]
  BY <1>1 DEF PlayerRecord
<1> HIDE DEF pause, ends
<1>5. /\ a \in PlayerRecord /\ a.audio = pause /\ a.ended = ends /\ a.index = s.index /\ a.load = s.load
      /\ a.calls = s.calls /\ a.failed = s.failed /\ a.playing = s.playing
      /\ a.playback = s.playback /\ a.reports = s.reports
  BY <1>1, <1>2, <1>3, <1>4 DEF PlayerRecord
<1>6. Sound(a) /\ Quiet(a) /\ Hears(a)
  BY <1>1, <1>2, <1>5 DEF Sound, Quiet, Hears
<1>7. Right(a)
  BY <1>2, <1>5 DEF Nearly, Right, Awaits
<1>8. s.load \in ends /\ s.load \notin s.ended => s.playback.started
  BY DEF ends, Nearly, Hears
<1>9. \A l \in 1..MaxPlays : l # s.load => (l \in ends <=> l \in s.ended)
  BY DEF ends
<1>10. s.load \in s.ended /\ s.load \in 1..MaxPlays => s.playback.done /\ s.playback.started
  BY DEF Nearly, Told
<1>11. CASE t = a /\ Unheard(a, "ended")
  <2>1. ASSUME NEW l \in 1..MaxPlays
        PROVE  /\ l > a.load => a.reports[l] = <<>> /\ l \notin a.ended
               /\ l = a.load => a.reports[l] = ToldSoFar(a.playback) /\ (l \in a.ended => a.playback.done)
               /\ l < a.load => a.reports[l] \in Finals /\ (l \in a.ended => a.reports[l] = <<"started", "finished">>)
    <3>1. CASE l = s.load
      BY <1>1, <1>5, <1>8, <1>10, <1>11, <3>1 DEF Nearly, Told, Unheard
    <3>2. CASE l # s.load
      BY <1>1, <1>5, <1>9, <3>2 DEF Nearly, Told
    <3>3. QED
      BY <3>1, <3>2
  <2>2. Told(a)
    BY <1>5, <2>1 DEF Nearly, Told
  <2>3. QED
    BY <1>5, <1>6, <1>7, <1>11, <2>2 DEF Nearly
<1>12. ASSUME NEW b \in PlaybackRecord, NEW r \in Reported,
              t = [a EXCEPT !.playback = b, !.reports = r], Written(a, b, r, "ended")
       PROVE  Nearly(t)
  <2> /\ a.load \in 1..MaxPlays /\ b.load = a.load
      /\ \A k \in 1..MaxPlays : k # a.load => r[k] = a.reports[k]
      /\ a.playback.started /\ ~a.playback.done /\ b.started /\ b.done
      /\ r[a.load] = Append(a.reports[a.load], "finished")
    BY <1>12 DEF Written
  <2>1. /\ t \in PlayerRecord /\ t.playback = b /\ t.reports = r
        /\ t.index = a.index /\ t.load = a.load /\ t.calls = a.calls /\ t.failed = a.failed
        /\ t.audio = a.audio /\ t.playing = a.playing /\ t.ended = a.ended
    BY <1>5, <1>12, ZenonT(30) DEF PlayerRecord
  <2>2. Sound(t) /\ Quiet(t) /\ Hears(t) /\ Right(t)
    BY <1>6, <1>7, <1>12, <2>1 DEF Sound, Quiet, Hears, Right, Awaits
  <2>3. a.reports[a.load] = <<"started">>
    BY <1>5, <1>12 DEF Nearly, Told, ToldSoFar
  <2>4. Append(<<"started">>, "finished") = <<"started", "finished">>
    BY AppendedTwo
  <2>5. ASSUME NEW l \in 1..MaxPlays
        PROVE  /\ l > t.load => t.reports[l] = <<>> /\ l \notin t.ended
               /\ l = t.load => t.reports[l] = ToldSoFar(t.playback) /\ (l \in t.ended => t.playback.done)
               /\ l < t.load => t.reports[l] \in Finals /\ (l \in t.ended => t.reports[l] = <<"started", "finished">>)
    <3>1. CASE l = s.load
      <4>1. t.reports[l] = <<"started", "finished">> /\ t.playback.done /\ t.load = l /\ l \in Nat
        <5>1. r[a.load] = <<"started", "finished">>
          BY <2>3, <2>4
        <5>2. a.load = l /\ t.load = l /\ l \in Nat
          BY <1>1, <1>5, <2>1, <3>1
        <5>3. QED
          BY <2>1, <5>1, <5>2
      <4>2. ToldSoFar(t.playback) = <<"started", "finished">>
        BY <2>1 DEF ToldSoFar
      <4>3. QED
        BY <4>1, <4>2
    <3>2. CASE l # s.load
      BY <1>1, <1>5, <1>9, <1>12, <2>1, <3>2 DEF Nearly, Told
    <3>3. QED
      BY <3>1, <3>2
  <2>6. Told(t)
    <3>1. t.playback.started /\ t.playback.done /\ t.load # 0
      BY <1>12, <2>1
    <3>2. QED
      BY <2>5, <3>1 DEF Told
  <2>7. QED
    BY <2>1, <2>2, <2>6 DEF Nearly
<1>13. QED
  BY <1>5, <1>6, <1>11, <1>12, HeardWrites, ZenonT(30)

\* Where the player goes is a track of the queue, or nowhere.
LEMMA PlayableIsThere ==
  ASSUME NEW from \in Int, NEW step \in Int, NEW wrap \in BOOLEAN
  PROVE  FindPlayable(from, step, wrap) \in Indexes
<1> DEFINE n == Len(Queue)
           idx(i) == IF wrap THEN ((from + step * i - 1 + n) % n) + 1 ELSE from + step * i
           hits == {i \in 1..n : idx(i) \in 1..n /\ Queue[idx(i)]}
<1>1. n \in Nat
  BY PlayerAssumption
<1>2. FindPlayable(from, step, wrap) = IF hits = {} THEN 0 ELSE idx(Min(hits))
  BY DEF FindPlayable
<1>3. ASSUME hits # {} PROVE idx(Min(hits)) \in 1..n
  <2>1. hits \subseteq Nat
    BY <1>1
  <2>2. Min(hits) \in hits
    <3> HIDE DEF hits
    <3>1. QED
      BY <1>3, <2>1, MinIsLeast
  <2> HIDE DEF idx
  <2>3. QED
    BY <2>2
<1> HIDE DEF idx, hits
<1>4. QED
  BY <1>1, <1>2, <1>3 DEF Indexes, n

LEMMA NextIsThere ==
  ASSUME NEW s \in PlayerRecord, NEW auto \in BOOLEAN, NEW i \in NextIndexes(s, auto)
  PROVE  i \in Indexes
<1>1. s.index \in Indexes /\ Len(Queue) \in Nat /\ s.index \in Int /\ (s.repeat = "all") \in BOOLEAN
  BY PlayerFields, PlayerAssumption DEF Indexes
<1>2. FindPlayable(s.index, 1, s.repeat = "all") \in Indexes
  <2> DEFINE wrap == s.repeat = "all"
  <2>1. wrap \in BOOLEAN /\ s.index \in Int /\ 1 \in Int
    BY <1>1
  <2> HIDE DEF wrap
  <2>2. FindPlayable(s.index, 1, wrap) \in Indexes
    BY <2>1, PlayableIsThere
  <2>3. QED
    BY <2>2 DEF wrap
<1>3. 0 \in Indexes /\ 1..Len(Queue) \subseteq Indexes
  BY <1>1 DEF Indexes
<1>4. QED
  BY <1>1, <1>2, <1>3 DEF NextIndexes

\* What the listener or the reporter does not look at.
SameCourse(s, t) ==
  SameBooks(s, t) /\ t.audio = s.audio /\ t.playing = s.playing

LEMMA CourseObeys ==
  ASSUME NEW s, NEW t \in PlayerRecord, SameCourse(s, t)
  PROVE  /\ Nearly(s) => Nearly(t)
         /\ Obeying(s) => Obeying(t)
<1>1. ASSUME Nearly(s) PROVE Nearly(t)
  <2>1. Told(t) /\ (Awaits(t) <=> Awaits(s))
    BY <1>1, BooksKeep DEF Nearly, SameCourse
  <2>2. Sound(t) /\ Quiet(t) /\ Hears(t)
    BY <1>1 DEF Nearly, SameCourse, SameBooks, Sound, Quiet, Hears
  <2>3. Right(t)
    BY <1>1, <2>1 DEF Nearly, SameCourse, SameBooks, Right
  <2>4. QED
    BY <2>1, <2>2, <2>3 DEF Nearly
<1>2. Obeying(s) => Asked(t)
  BY DEF Obeying, Asked, Awaits, SameCourse, SameBooks
<1>3. QED
  BY <1>1, <1>2 DEF Obeying

LEMMA PutPast ==
  ASSUME NEW s \in PlayerRecord, NEW v \in BOOLEAN, NEW t, t = [s EXCEPT !.past = v]
  PROVE  t \in PlayerRecord /\ SameCourse(s, t)
<1>1. v \in Flags
  BY DEF Flags
<1>2. QED
  BY <1>1 DEF PlayerRecord, SameCourse, SameBooks

\* On to the next track, or to a halt at the end of the queue.
LEMMA AdvanceObeys ==
  ASSUME NEW s, Nearly(s), NEW auto \in BOOLEAN, NEW t \in Advance(s, auto), t.load <= MaxPlays
  PROVE  Obeying(t)
<1>1. PICK i \in NextIndexes(s, auto) :
        t = IF i = 0 THEN [SetPlaying(s, FALSE) EXCEPT !.past = FALSE] ELSE StartAt(s, i)
  BY DEF Advance
<1>2. CASE i = 0
  <2>1. PICK u : u = SetPlaying(s, FALSE)
    OBVIOUS
  <2>2. Obeying(u) /\ u \in PlayerRecord
    BY <2>1, StopObeys DEF Obeying, Nearly
  <2>3. t = [u EXCEPT !.past = FALSE]
    BY <1>1, <1>2, <2>1
  <2>4. QED
    BY <2>2, <2>3, PutPast, CourseObeys
<1>3. CASE i # 0
  <2>1. i \in Indexes
    BY NextIsThere DEF Nearly
  <2>2. t = StartAt(s, i)
    BY <1>1, <1>3
  <2>3. QED
    BY <2>1, <2>2, StartObeys
<1>4. QED
  BY <1>2, <1>3

\* A media error is followed by another grant or a halt.
LEMMA ErrorObeys ==
  ASSUME NEW s, Nearly(s), NEW t, t = MediaError(s)
  PROVE  Obeying(t)
<1>1. CASE s.index # 0 /\ s.grant.load = s.load /\ s.grant.expired
  <2> DEFINE c == [kind |-> "renew", load |-> s.load, n |-> s.renewals]
             more == s.calls \cup {c}
             n == s.renewals + 1
  <2>1. s \in PlayerRecord /\ s.load \in Nat /\ s.renewals \in Nat /\ s.calls \in SUBSET GrantCall
    BY PlayerFields DEF Nearly
  <2>2. c \in GrantCall /\ c.load = s.load
    BY <2>1 DEF GrantCall, CallKinds, Loads
  <2>3. more \in GrantCalls /\ n \in Loads
    BY <2>1, <2>2 DEF GrantCalls, Loads
  <2>4. t = [s EXCEPT !.calls = more, !.renewals = n]
    BY <1>1, <2>1 DEF MediaError, PlayerRecord
  <2>5. c \in more /\ \A d \in more : d \in s.calls \/ d = c
    OBVIOUS
  <2> HIDE DEF more, n, c
  <2>6. /\ t \in PlayerRecord /\ t.calls = more /\ t.index = s.index /\ t.load = s.load /\ t.failed = s.failed
        /\ t.playback = s.playback /\ t.reports = s.reports /\ t.ended = s.ended
        /\ t.audio = s.audio /\ t.playing = s.playing
    BY <2>1, <2>3, <2>4 DEF PlayerRecord
  <2>7. Awaits(t)
    BY <2>2, <2>5, <2>6 DEF Awaits
  <2>8. 0 < s.load
    BY <1>1, <2>1 DEF Nearly, Sound
  <2>9. Sound(t)
    BY <2>1, <2>2, <2>5, <2>6, <2>8 DEF Nearly, Sound
  <2>10. Quiet(t) /\ Hears(t) /\ Told(t)
    BY <2>6 DEF Nearly, Quiet, Hears, Told
  <2>11. QED
    BY <2>6, <2>7, <2>9, <2>10 DEF Obeying, Nearly, Right, Asked
<1>2. CASE ~(s.index # 0 /\ s.grant.load = s.load /\ s.grant.expired)
  <2>1. t = SetPlaying(s, FALSE)
    BY <1>2 DEF MediaError, EngineError
  <2>2. QED
    BY <2>1, StopObeys
<1>3. QED
  BY <1>1, <1>2

\* The element changes on its own: it is paused or keeps playing, and nothing
\* that is audible had not been heard.
LEMMA AudioChanges ==
  ASSUME NEW s, Nearly(s), NEW a \in AudioRecord, a.load = s.audio.load,
         a.paused \/ a.paused = s.audio.paused,
         a.paused \/ ~a.ok \/ (a.ok = s.audio.ok /\ a.starting = s.audio.starting) \/ (s.load # 0 => s.playback.started),
         NEW t, t = [s EXCEPT !.audio = a]
  PROVE  Nearly(t)
<1>1. s \in PlayerRecord
  BY DEF Nearly
<1>2. t \in PlayerRecord /\ SameBooks(s, t) /\ t.audio = a /\ t.playing = s.playing
  BY <1>1, PutAudio
<1>3. Told(t) /\ (Awaits(t) <=> Awaits(s))
  BY <1>2, BooksKeep DEF Nearly
<1>4. Sound(t)
  BY <1>2 DEF Nearly, Sound, SameBooks
<1>5. Quiet(t)
  BY <1>2 DEF Nearly, Quiet
<1>6. Right(t)
  BY <1>2, <1>3 DEF Nearly, Right, SameBooks
<1>7. Hears(t)
  BY <1>2 DEF Nearly, Hears, SameBooks, Quiet, Sound
<1>8. QED
  BY <1>2, <1>3, <1>4, <1>5, <1>6, <1>7 DEF Nearly

-----------------------------------------------------------------------------
(* The steps of the player *)

PlayerInv == Obeying(app)

LEMMA StepPlayQueue ==
  ASSUME PlayerInv, NEW i \in 1..Len(Queue), PlayQueue(i)
  PROVE  PlayerInv'
<1>1. Len(Queue) \in Nat /\ i \in Int /\ i \in Indexes /\ 1 \in Int /\ TRUE \in BOOLEAN
  BY PlayerAssumption DEF Indexes
<1>2. FindPlayable(i, 1, TRUE) \in Indexes
  BY <1>1, PlayableIsThere
<1>3. PICK first \in Indexes : app' = StartAt(app, first) /\ app'.load <= MaxPlays
  BY <1>1, <1>2 DEF PlayQueue, Does, InBounds
<1>4. QED
  BY <1>3, StartObeys DEF PlayerInv, Obeying

LEMMA StepPlay ==
  ASSUME PlayerInv, Play
  PROVE  PlayerInv'
BY PlayObeys DEF Play, Does, PlayerInv

LEMMA StepPause ==
  ASSUME PlayerInv, Pause
  PROVE  PlayerInv'
BY StopObeys DEF Pause, Does, PlayerInv, Obeying

LEMMA StepNextTrack ==
  ASSUME PlayerInv, NextTrack
  PROVE  PlayerInv'
<1>1. app' \in Advance(app, FALSE) /\ app'.load <= MaxPlays
  BY DEF NextTrack, Does, InBounds
<1>2. QED
  BY <1>1, AdvanceObeys DEF PlayerInv, Obeying

LEMMA StepPrevious ==
  ASSUME PlayerInv, Previous
  PROVE  PlayerInv'
<1> DEFINE wrap == app.repeat = "all"
           i == FindPlayable(app.index, -1, wrap)
<1>1. app \in PlayerRecord /\ Nearly(app)
  BY DEF PlayerInv, Obeying, Nearly
<1>2. app.index \in Int /\ wrap \in BOOLEAN /\ -1 \in Int
  BY <1>1, PlayerFields, PlayerAssumption DEF Indexes
<1>3. /\ app' = IF app.past \/ i = 0 THEN [app EXCEPT !.past = FALSE] ELSE StartAt(app, i)
      /\ app'.load <= MaxPlays
  BY DEF Previous, Does, InBounds
<1> HIDE DEF wrap
<1>4. i \in Indexes
  BY <1>2, PlayableIsThere
<1> HIDE DEF i
<1>5. CASE app' = [app EXCEPT !.past = FALSE]
  BY <1>1, <1>5, PutPast, CourseObeys DEF PlayerInv
<1>6. CASE app' = StartAt(app, i)
  BY <1>1, <1>3, <1>4, <1>6, StartObeys DEF PlayerInv
<1>7. QED
  BY <1>3, <1>5, <1>6

LEMMA StepCosmetic ==
  ASSUME PlayerInv, ToggleShuffle \/ CycleRepeat \/ TimePasses \/ GrantExpires
  PROVE  PlayerInv'
<1>1. app \in PlayerRecord
  BY DEF PlayerInv, Obeying, Nearly
<1>2. CASE ToggleShuffle
  <2> DEFINE v == ~app.shuffle
  <2>1. app' = [app EXCEPT !.shuffle = v] /\ v \in Flags
    BY <1>2 DEF ToggleShuffle, Does, Flags
  <2> HIDE DEF v
  <2>2. app' \in PlayerRecord /\ SameCourse(app, app')
    BY <1>1, <2>1 DEF PlayerRecord, SameCourse, SameBooks
  <2>3. QED
    BY <2>2, CourseObeys DEF PlayerInv
<1>3. CASE CycleRepeat
  <2> DEFINE v == CASE app.repeat = "off" -> "all" [] app.repeat = "all" -> "one" [] OTHER -> "off"
  <2>1. app' = [app EXCEPT !.repeat = v] /\ v \in Repeats
    BY <1>3 DEF CycleRepeat, Does, Repeats
  <2> HIDE DEF v
  <2>2. app' \in PlayerRecord /\ SameCourse(app, app')
    BY <1>1, <2>1 DEF PlayerRecord, SameCourse, SameBooks
  <2>3. QED
    BY <2>2, CourseObeys DEF PlayerInv
<1>4. CASE TimePasses
  <2>1. app' = [app EXCEPT !.past = TRUE]
    BY <1>4 DEF TimePasses, Does
  <2>2. QED
    BY <1>1, <2>1, PutPast, CourseObeys DEF PlayerInv
<1>5. CASE GrantExpires
  <2> DEFINE g == [app.grant EXCEPT !.expired = TRUE]
  <2>1. g \in GrantRecord
    <3>1. app.grant \in GrantRecord /\ TRUE \in Flags
      BY <1>1, PlayerFields DEF Flags
    <3>2. QED
      BY <3>1 DEF GrantRecord
  <2>2. app' = [app EXCEPT !.grant = g]
    BY <1>1, <1>5 DEF GrantExpires, Does, PlayerRecord
  <2> HIDE DEF g
  <2>3. app' \in PlayerRecord /\ SameCourse(app, app')
    BY <1>1, <2>1, <2>2 DEF PlayerRecord, SameCourse, SameBooks
  <2>4. QED
    BY <2>3, CourseObeys DEF PlayerInv
<1>6. QED
  BY <1>2, <1>3, <1>4, <1>5

LEMMA StepPlaying ==
  ASSUME PlayerInv, Playing
  PROVE  PlayerInv'
<1>1. PICK s : s = Heard(app, "playing")
  OBVIOUS
<1>2. Obeying(s) /\ s.audio = app.audio /\ s.load = app.load /\ (app.load # 0 => s.playback.started)
  BY <1>1, PlayingHeard DEF PlayerInv
<1>3. s \in PlayerRecord /\ Nearly(s) /\ s.audio \in AudioRecord
  BY <1>2, PlayerFields DEF Obeying, Nearly
<1> DEFINE a == [s.audio EXCEPT !.starting = FALSE]
<1>4. /\ a \in AudioRecord /\ a.load = s.audio.load /\ a.paused = s.audio.paused /\ a.rejected = s.audio.rejected
  <2>1. FALSE \in Flags
    BY DEF Flags
  <2>2. QED
    BY <1>3, <2>1 DEF AudioRecord
<1>5. app' = [s EXCEPT !.audio = a]
  BY <1>1, <1>3 DEF Playing, Does, PlayerRecord
<1> HIDE DEF a
<1>6. Nearly(app')
  BY <1>2, <1>3, <1>4, <1>5, AudioChanges
<1>7. SameBooks(s, app') /\ app'.audio = a /\ app'.playing = s.playing
  BY <1>3, <1>4, <1>5, PutAudio
<1>8. Asked(app')
  BY <1>2, <1>4, <1>7 DEF Obeying, Asked, Awaits, SameBooks
<1>9. QED
  BY <1>6, <1>8 DEF PlayerInv, Obeying

LEMMA StepEnded ==
  ASSUME PlayerInv, Ended
  PROVE  PlayerInv'
<1>1. PICK a : a = [app EXCEPT !.audio.paused = TRUE,
                               !.ended = IF app.audio.load = app.load THEN @ \cup {app.load} ELSE @]
  OBVIOUS
<1>2. PICK s : s = Heard(a, "ended")
  OBVIOUS
<1>3. /\ ~app.audio.paused /\ app.audio.ok /\ ~app.audio.starting
      /\ app' \in Advance(s, TRUE) /\ app'.load <= MaxPlays
  BY <1>1, <1>2 DEF Ended, Audible, Does, InBounds
<1>4. Nearly(s)
  BY <1>1, <1>2, <1>3, EndHeard DEF PlayerInv, Obeying
<1>5. QED
  BY <1>3, <1>4, AdvanceObeys DEF PlayerInv

LEMMA StepFails ==
  ASSUME PlayerInv, SourceFails \/ PlayRejected \/ PlayBlocked
  PROVE  PlayerInv'
<1>1. app \in PlayerRecord /\ Nearly(app) /\ app.audio \in AudioRecord /\ TRUE \in Flags /\ FALSE \in Flags
  BY PlayerFields DEF PlayerInv, Obeying, Nearly, Flags
<1>2. ASSUME NEW a \in AudioRecord, a.load = app.audio.load, a.paused \/ a.paused = app.audio.paused,
             a.paused \/ ~a.ok \/ (a.ok = app.audio.ok /\ a.starting = app.audio.starting),
             NEW s, s = [app EXCEPT !.audio = a], app' = MediaError(s)
      PROVE  PlayerInv'
  <2>1. Nearly(s)
    BY <1>1, <1>2, AudioChanges
  <2>2. QED
    BY <1>2, <2>1, ErrorObeys DEF PlayerInv
<1>3. CASE SourceFails
  <2> DEFINE told == app.audio.rejected \/ app.audio.starting
             a == [app.audio EXCEPT !.ok = FALSE, !.rejected = told]
  <2>1. told \in Flags
    BY <1>1, PlayerFields DEF Flags
  <2>2. app' = MediaError([app EXCEPT !.audio = a])
    <3>1. [app EXCEPT !.audio.ok = FALSE, !.audio.rejected = @ \/ app.audio.starting] = [app EXCEPT !.audio = a]
      BY <1>1 DEF PlayerRecord, AudioRecord
    <3>2. QED
      BY <1>3, <3>1 DEF SourceFails, Does
  <2> HIDE DEF told
  <2>3. a \in AudioRecord /\ a.load = app.audio.load /\ a.paused = app.audio.paused /\ ~a.ok
    BY <1>1, <2>1 DEF AudioRecord
  <2> HIDE DEF a
  <2>4. PICK s : s = [app EXCEPT !.audio = a]
    OBVIOUS
  <2>5. QED
    BY <1>2, <2>2, <2>3, <2>4
<1>4. CASE PlayRejected
  <2> DEFINE a == [app.audio EXCEPT !.rejected = FALSE]
  <2>1. app' = MediaError([app EXCEPT !.audio = a])
    BY <1>4 DEF PlayRejected, Does
  <2>2. a \in AudioRecord /\ a.load = app.audio.load /\ a.paused = app.audio.paused
        /\ a.ok = app.audio.ok /\ a.starting = app.audio.starting
    BY <1>1 DEF AudioRecord
  <2> HIDE DEF a
  <2>3. PICK s : s = [app EXCEPT !.audio = a]
    OBVIOUS
  <2>4. QED
    BY <1>2, <2>1, <2>2, <2>3
<1>5. CASE PlayBlocked
  <2> DEFINE a == [app.audio EXCEPT !.paused = TRUE, !.starting = FALSE]
  <2>1. app' = MediaError([app EXCEPT !.audio = a])
    <3>1. [app EXCEPT !.audio.paused = TRUE, !.audio.starting = FALSE] = [app EXCEPT !.audio = a]
      BY <1>1 DEF PlayerRecord, AudioRecord
    <3>2. QED
      BY <1>5, <3>1 DEF PlayBlocked, Does
  <2>2. a \in AudioRecord /\ a.load = app.audio.load /\ a.paused
    BY <1>1 DEF AudioRecord
  <2> HIDE DEF a
  <2>3. PICK s : s = [app EXCEPT !.audio = a]
    OBVIOUS
  <2>4. QED
    BY <1>2, <2>1, <2>2, <2>3
<1>6. QED
  BY <1>3, <1>4, <1>5

\* A grant that came too late is dropped; the other's source is loaded, and
\* played unless the listener paused meanwhile.
LEMMA StepResolved ==
  ASSUME PlayerInv, NEW c \in app.calls, Resolved(c)
  PROVE  PlayerInv'
<1> DEFINE rest == app.calls \ {c}
           t == [app EXCEPT !.calls = rest]
           grant == [load |-> c.load, expired |-> FALSE]
           a == [Silent EXCEPT !.load = c.load, !.rejected = app.audio.rejected]
           g == [app EXCEPT !.calls = rest, !.grant = grant, !.audio = a]
<1>1. app \in PlayerRecord /\ Nearly(app) /\ app.calls \in SUBSET GrantCall /\ c.load \in Nat /\ app.playing \in BOOLEAN
  BY PlayerFields DEF PlayerInv, Obeying, Nearly
<1>2. rest \in GrantCalls
  BY <1>1 DEF GrantCalls
<1>3. CASE app.load # c.load
  <2>1. app' = t
    BY <1>3 DEF Resolved, Does
  <2> HIDE DEF rest
  <2>2. /\ t \in PlayerRecord /\ t.calls = rest /\ t.index = app.index /\ t.load = app.load /\ t.failed = app.failed
        /\ t.playback = app.playback /\ t.reports = app.reports /\ t.ended = app.ended
        /\ t.audio = app.audio /\ t.playing = app.playing
    BY <1>1, <1>2 DEF PlayerRecord
  <2> HIDE DEF t
  <2>3. Awaits(app) => Awaits(t)
    BY <1>3, <2>2 DEF Awaits, rest
  <2>4. Sound(t)
    BY <1>1, <2>2 DEF Nearly, Sound, rest
  <2>5. Quiet(t) /\ Hears(t) /\ Told(t)
    BY <1>1, <2>2 DEF Nearly, Quiet, Hears, Told
  <2>6. Right(t) /\ Asked(t)
    BY <1>1, <2>2, <2>3 DEF PlayerInv, Obeying, Nearly, Right, Asked
  <2>7. QED
    BY <2>1, <2>2, <2>4, <2>5, <2>6 DEF PlayerInv, Obeying, Nearly
<1>4. CASE app.load = c.load
  <2>1. app.audio.rejected \in Flags /\ TRUE \in Flags /\ FALSE \in Flags /\ c.load \in Loads
    BY <1>1, PlayerFields DEF Flags, Loads
  <2>2. a \in AudioRecord /\ a.load = c.load /\ a.paused /\ ~a.starting
    BY <2>1 DEF Silent, AudioRecord, Loads
  <2>3. grant \in GrantRecord
    BY <2>1 DEF GrantRecord
  <2>4. app' = IF app.playing THEN EnginePlay(g) ELSE g
    BY <1>1, <1>4 DEF Resolved, Does, EngineLoad, PlayerRecord
  <2> HIDE DEF rest, a, grant
  <2>5. /\ g \in PlayerRecord /\ g.calls = rest /\ g.index = app.index /\ g.load = app.load /\ g.failed = app.failed
        /\ g.playback = app.playback /\ g.reports = app.reports /\ g.ended = app.ended
        /\ g.audio = a /\ g.playing = app.playing
    BY <1>1, <1>2, <2>2, <2>3 DEF PlayerRecord
  <2> HIDE DEF g
  <2>6. c.load # 0
    BY <1>1 DEF Nearly, Sound
  <2>7. /\ app' \in PlayerRecord /\ SameBooks(g, app') /\ app'.playing = app.playing /\ app'.audio.load = c.load
        /\ app.playing => ~app'.audio.paused /\ app'.audio.starting
        /\ ~app.playing => app'.audio.paused
    <3>1. CASE app.playing
      <4>1. app' = EnginePlay(g)
        BY <2>4, <3>1
      <4>2. /\ app' \in PlayerRecord /\ SameBooks(g, app') /\ app'.playing = g.playing /\ app'.audio.load = g.audio.load
            /\ g.audio.load # 0 => ~app'.audio.paused /\ app'.audio.starting
        BY <2>5, <4>1, EnginePlays
      <4>3. QED
        BY <2>2, <2>5, <2>6, <3>1, <4>2
    <3>2. CASE ~app.playing
      BY <2>2, <2>4, <2>5, <3>2 DEF SameBooks
    <3>3. QED
      BY <1>1, <3>1, <3>2
  <2>8. SameBooks(g, app') /\ Told(g)
    BY <1>1, <2>5, <2>7 DEF Nearly, Told
  <2>9. Told(app')
    BY <2>8, BooksKeep
  <2>10. Sound(app')
    BY <1>1, <1>4, <2>5, <2>7 DEF Nearly, Sound, SameBooks, rest
  <2>11. Right(app') /\ Quiet(app') /\ Hears(app') /\ Asked(app')
    BY <1>1, <1>4, <2>5, <2>6, <2>7 DEF Right, Quiet, Hears, Asked, SameBooks
  <2>12. QED
    BY <2>7, <2>9, <2>10, <2>11 DEF PlayerInv, Obeying, Nearly
<1>5. QED
  BY <1>3, <1>4

LEMMA StepResolveFails ==
  ASSUME PlayerInv, NEW c \in app.calls, ResolveFails(c)
  PROVE  PlayerInv'
<1> DEFINE rest == app.calls \ {c}
           lost == app.failed \cup {c.load}
<1>1. app \in PlayerRecord /\ Nearly(app) /\ app.calls \in SUBSET GrantCall /\ c.load \in Nat /\ app.failed \in SUBSET Nat
  BY PlayerFields DEF PlayerInv, Obeying, Nearly
<1>2. rest \in GrantCalls /\ lost \in LoadSets
  BY <1>1 DEF GrantCalls, LoadSets
<1>3. PICK t : t = [app EXCEPT !.calls = rest, !.failed = lost]
  OBVIOUS
<1>4. app' = IF app.load # c.load THEN t ELSE SetPlaying(t, FALSE)
  BY <1>3 DEF ResolveFails, Does, EngineError
<1> HIDE DEF rest, lost
<1>5. /\ t \in PlayerRecord /\ t.calls = rest /\ t.index = app.index /\ t.load = app.load /\ t.failed = lost
      /\ t.playback = app.playback /\ t.reports = app.reports /\ t.ended = app.ended
      /\ t.audio = app.audio /\ t.playing = app.playing
  BY <1>1, <1>2, <1>3 DEF PlayerRecord
<1>6. Awaits(app) => Awaits(t)
  BY <1>5 DEF Awaits, rest, lost
<1>7. Sound(t)
  BY <1>1, <1>5 DEF Nearly, Sound, rest
<1>8. Quiet(t) /\ Hears(t) /\ Told(t)
  BY <1>1, <1>5 DEF Nearly, Quiet, Hears, Told
<1>9. Right(t) /\ Asked(t)
  BY <1>1, <1>5, <1>6 DEF PlayerInv, Obeying, Nearly, Right, Asked
<1>10. Obeying(t)
  BY <1>5, <1>7, <1>8, <1>9 DEF Obeying, Nearly
<1>11. CASE app.load # c.load
  BY <1>4, <1>10, <1>11 DEF PlayerInv
<1>12. CASE app.load = c.load
  BY <1>4, <1>10, <1>12, StopObeys DEF PlayerInv, Obeying
<1>13. QED
  BY <1>11, <1>12

LEMMA PlayerStart == PlayerInit => PlayerInv
<1> SUFFICES ASSUME PlayerInit PROVE PlayerInv
  OBVIOUS
<1> DEFINE none == [l \in 1..MaxPlays |-> <<>>]
           audio == Silent
           grant == [load |-> 0, expired |-> FALSE]
           b == [load |-> 0, started |-> FALSE, done |-> FALSE]
<1>1. 0 \in Loads /\ TRUE \in Flags /\ FALSE \in Flags /\ {} \in GrantCalls /\ {} \in LoadSets /\ "off" \in Repeats /\ 0 \in Indexes
  BY PlayerAssumption DEF Loads, Flags, GrantCalls, LoadSets, Repeats, Indexes
<1>2. audio \in AudioRecord /\ audio.load = 0 /\ audio.paused
  BY <1>1 DEF AudioRecord, Silent
<1>3. grant \in GrantRecord /\ b \in PlaybackRecord /\ b.load = 0 /\ ~b.started /\ ~b.done
  BY <1>1 DEF GrantRecord, PlaybackRecord
<1>4. none \in Reported /\ \A l \in 1..MaxPlays : none[l] = <<>>
  BY DEF Reported
<1>5. app = [index |-> 0, load |-> 0, playing |-> FALSE, past |-> FALSE, repeat |-> "off", shuffle |-> FALSE,
             audio |-> audio, grant |-> grant, calls |-> {}, renewals |-> 0,
             playback |-> b, reports |-> none, failed |-> {}, ended |-> {}]
  BY DEF PlayerInit, NewPlayer
<1> HIDE DEF none, audio, grant, b
<1>6. /\ app \in PlayerRecord /\ app.index = 0 /\ app.load = 0 /\ app.playing = FALSE /\ app.audio = audio
      /\ app.calls = {} /\ app.playback = b /\ app.reports = none /\ app.ended = {}
  BY <1>1, <1>2, <1>3, <1>4, <1>5 DEF PlayerRecord
<1>7. Sound(app) /\ Quiet(app) /\ Right(app) /\ Hears(app) /\ Asked(app)
  BY <1>2, <1>3, <1>6, PlayerAssumption DEF Sound, Quiet, Right, Hears, Asked
<1>8. Told(app)
  BY <1>3, <1>4, <1>6 DEF Told, ToldSoFar
<1>9. QED
  BY <1>6, <1>7, <1>8 DEF PlayerInv, Obeying, Nearly

LEMMA PlayerInductive == PlayerInv /\ [PlayerNext]_app => PlayerInv'
<1> SUFFICES ASSUME PlayerInv, [PlayerNext]_app PROVE PlayerInv'
  OBVIOUS
<1>1. CASE UNCHANGED app
  BY <1>1 DEF PlayerInv
<1>2. CASE PlayerNext
  BY <1>2, StepPlayQueue, StepPlay, StepPause, StepNextTrack, StepPrevious, StepCosmetic, StepPlaying, StepEnded, StepFails,
     StepResolved, StepResolveFails DEF PlayerNext
<1>3. QED
  BY <1>1, <1>2

LEMMA PlayerPromise == PlayerInv => PlayerObeys
<1> SUFFICES ASSUME PlayerInv PROVE PlayerObeys
  OBVIOUS
<1>1. QuietWhenPaused
  BY DEF PlayerInv, Obeying, Nearly, Quiet, QuietWhenPaused
<1>2. RightTrackPlays /\ PlaysWhenAsked
  BY DEF PlayerInv, Obeying, Nearly, Right, Asked, Awaits, RightTrackPlays, PlaysWhenAsked, Authorizing
<1>3. ASSUME NEW l \in 1..MaxPlays
      PROVE  /\ app.reports[l] \in Finals
             /\ l \in app.ended => app.reports[l] = <<"started", "finished">>
  <2>1. app.load \in Nat /\ l \in Nat /\ Told(app)
    BY PlayerFields DEF PlayerInv, Obeying, Nearly
  <2>2. CASE l > app.load
    BY <2>1, <2>2 DEF Told, Finals
  <2>3. CASE l = app.load
    BY <2>1, <2>3 DEF Told, ToldSoFar, Finals
  <2>4. CASE l < app.load
    BY <2>1, <2>4 DEF Told
  <2>5. QED
    BY <2>1, <2>2, <2>3, <2>4
<1>4. QED
  BY <1>1, <1>2, <1>3 DEF PlayerObeys, ReportedOnce, Finals

\* The web player (playerStore.ts, playerController.ts, HtmlAudioEngine.ts and
\* the reporter): with any queue, and in whatever order clicks, events of the
\* element and grants come, it is quiet when paused, plays the current track or
\* says why not, and reports every playback once and rightly.
THEOREM PlayerDoesAsTold == PlayerSpec => []PlayerObeys
BY PlayerStart, PlayerInductive, PlayerPromise, PTL DEF PlayerSpec

-----------------------------------------------------------------------------
(* The run of MCAuth, and types                                             *)

\* What MCAuth checks of one part at a time are behaviours of the four
\* specifications that the theorems are about.
THEOREM RunsAreBehaviours == MCSpec => Spec /\ ThrottleSpec /\ KeysSpec /\ WebSpec
<1> DEFINE Step == [SessionsAlone \/ ThrottleAlone \/ KeysAlone \/ WebAlone]_mcVars
<1>1. MCInit => Init /\ ThrottleInit /\ KeysInit /\ WebInit
  BY Zenon DEF MCInit
<1>2. Step => [Next]_vars
  BY Zenon DEF SessionsAlone, ThrottleAlone, KeysAlone, WebAlone, mcVars
<1>3. Step => [ThrottleNext]_throttleVars
  BY Zenon DEF SessionsAlone, ThrottleAlone, KeysAlone, WebAlone, mcVars
<1>4. Step => [KeysNext]_keyVars
  BY Zenon DEF SessionsAlone, ThrottleAlone, KeysAlone, WebAlone, mcVars
<1>5. Step => [WebNext]_webVars
  BY Zenon DEF SessionsAlone, ThrottleAlone, KeysAlone, WebAlone, mcVars
<1>6. QED
  BY <1>1, <1>2, <1>3, <1>4, <1>5, PTL DEF MCSpec, Spec, ThrottleSpec, KeysSpec, WebSpec

\* The sessions' and the throttle's variables keep their types (session.go,
\* usecases.go, throttle.go), in every behaviour of MCAuth.
THEOREM AuthTypesHold == MCSpec => []AuthTypeOK
<1>1. ThrottleInv => ThrottleTypeOK
  BY DEF ThrottleInv
<1>2. QED
  BY RunsAreBehaviours, TypeCorrect, ThrottleInvariance, <1>1, PTL DEF AuthTypeOK
=============================================================================
