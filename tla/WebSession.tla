----------------------------- MODULE WebSession -----------------------------
(***************************************************************************)
(* The browser side of a session (apps/web/src/shared/api): the tabs of a  *)
(* browser share the refresh cookie; each keeps an access token in memory, *)
(* and the calls of a tab share one refresh.  Auth's side is the session   *)
(* row, read and then rotated against the hash that was read.  Tokens are  *)
(* numbered by the rotation that made them.                                *)
(***************************************************************************)
EXTENDS Naturals, FiniteSets

CONSTANTS Tabs,
          WebCalls,     \* apiRequest calls in flight
          NoCaller,     \* inflight = null
          MaxExpiries,  \* bound: times the access tokens expire
          MaxLoads      \* bound: pages loaded again

ASSUME WebAssumption == IsFiniteSet(Tabs) /\ NoCaller \notin WebCalls

VARIABLES session,   \* [current, active]: the row in auth.sessions
          cookie,    \* the refresh cookie, 0 when there is none
          tab,       \* [token, booted, inflight]: the module state of session.ts
          webCall,   \* each call
          expired,   \* access tokens up to this one have expired
          web        \* history: [expiries, loads, failed, overlap]

webVars == <<session, cookie, tab, webCall, expired, web>>

NewTab == [token |-> 0, booted |-> FALSE, inflight |-> NoCaller]
NoWebCall == [pc |-> "idle", tab |-> NoCaller, token |-> 0, sent |-> 0, answer |-> 0, next |-> "send"]

WebInit ==
  /\ session = [current |-> 1, active |-> TRUE]
  /\ cookie = 1
  /\ tab = [t \in Tabs |-> NewTab]
  /\ webCall = [c \in WebCalls |-> NoWebCall]
  /\ expired = 1
  /\ web = [expiries |-> 0, loads |-> Cardinality(Tabs), failed |-> FALSE, overlap |-> FALSE]

-----------------------------------------------------------------------------
\* Mutant of RefreshSession: no single flight.
RefreshEach(c, t, next) ==
  /\ tab' = [tab EXCEPT ![t].inflight = c]
  /\ webCall' = [webCall EXCEPT ![c] = [NoWebCall EXCEPT !.pc = "refresh", !.tab = t, !.sent = cookie,
                                                         !.token = webCall[c].token, !.next = next]]
  /\ web' = [web EXCEPT !.overlap = @ \/ \E u \in Tabs \ {t} : tab[u].inflight # NoCaller]

\* refreshSession: join the refresh that is in flight, or send one with the
\* cookie as it is now; then the call goes on with `next`.
RefreshSession(c, t, next) ==
  \/ /\ tab[t].inflight = NoCaller
     /\ tab' = [tab EXCEPT ![t].inflight = c]
     /\ webCall' = [webCall EXCEPT ![c] = [NoWebCall EXCEPT !.pc = "refresh", !.tab = t, !.sent = cookie,
                                                            !.token = webCall[c].token, !.next = next]]
     /\ web' = [web EXCEPT !.overlap = @ \/ \E u \in Tabs \ {t} : tab[u].inflight # NoCaller]
  \/ /\ tab[t].inflight # NoCaller
     /\ webCall' = [webCall EXCEPT ![c] = [NoWebCall EXCEPT !.pc = "joined", !.tab = t,
                                                            !.token = webCall[c].token, !.next = next]]
     /\ UNCHANGED <<tab, web>>

SendWith(t, pc, token) == [NoWebCall EXCEPT !.pc = pc, !.tab = t, !.token = token]

\* apiRequest, up to the first request: ensureSession restores the session
\* once, and waits for a refresh in flight.
ApiRequest(c, t) ==
  /\ webCall[c] = NoWebCall
  /\ IF ~ tab[t].booted \/ tab[t].inflight # NoCaller
     THEN RefreshSession(c, t, "send")
     ELSE /\ webCall' = [webCall EXCEPT ![c] = SendWith(t, "sent", tab[t].token)]
          /\ UNCHANGED <<tab, web>>
  /\ UNCHANGED <<session, cookie, expired>>

\* The verifiers: an access token that is not expired, of an active session.
Accepted(token) == token > expired /\ session.active

ApiAnswered(c) ==
  /\ webCall[c].pc \in {"sent", "retried"}
  /\ \/ Accepted(webCall[c].token)
     \/ webCall[c].pc = "retried" \/ webCall[c].token = 0   \* the 401 is reported
  /\ webCall' = [webCall EXCEPT ![c] = NoWebCall]
  /\ UNCHANGED <<session, cookie, tab, expired, web>>

\* A 401: the token may have been replaced meanwhile, else refresh; once.
Unauthorized(c) ==
  LET t == webCall[c].tab IN
  /\ webCall[c].pc = "sent" /\ webCall[c].token # 0 /\ ~ Accepted(webCall[c].token)
  /\ IF tab[t].token # 0 /\ tab[t].token # webCall[c].token
     THEN /\ webCall' = [webCall EXCEPT ![c] = SendWith(t, "retried", tab[t].token)]
          /\ UNCHANGED <<tab, web>>
     ELSE RefreshSession(c, t, "retry")
  /\ UNCHANGED <<session, cookie, expired>>

-----------------------------------------------------------------------------
\* Auth, Refresh: the row is found by the hash, or by the previous one, which
\* revokes the session.
RefreshRead(c) ==
  LET s == webCall[c].sent
      reused == s # 0 /\ s # session.current /\ s + 1 = session.current
      usable == s # 0 /\ s = session.current /\ session.active IN
  /\ webCall[c].pc = "refresh"
  /\ webCall' = [webCall EXCEPT ![c].pc = IF usable THEN "rotate" ELSE "answer"]
  /\ session' = [session EXCEPT !.active = @ /\ ~ reused]
  /\ UNCHANGED <<cookie, tab, expired, web>>

\* SaveRotation, if the hash is still the one that was read.
RefreshRotate(c) ==
  LET won == webCall[c].sent = session.current /\ session.active IN
  /\ webCall[c].pc = "rotate"
  /\ session' = [session EXCEPT !.current = IF won THEN @ + 1 ELSE @]
  /\ webCall' = [webCall EXCEPT ![c].pc = "answer", ![c].answer = IF won THEN session.current + 1 ELSE 0]
  /\ UNCHANGED <<cookie, tab, expired, web>>

\* The database fails, before the rotation is stored or, looking up the
\* account, after.
RefreshStoreFails(c) ==
  LET s == webCall[c].sent
      won == webCall[c].pc = "rotate" /\ s = session.current /\ session.active IN
  /\ webCall[c].pc \in {"refresh", "rotate"}
  /\ session' \in {session, [session EXCEPT !.current = IF won THEN @ + 1 ELSE @]}
  /\ webCall' = [webCall EXCEPT ![c].pc = "answer"]
  /\ web' = [web EXCEPT !.failed = TRUE]
  /\ UNCHANGED <<cookie, tab, expired>>

\* setSession, and every call that waited goes on.
SetSession(t, token) ==
  /\ tab' = [tab EXCEPT ![t] = [token |-> token, booted |-> TRUE, inflight |-> NoCaller]]
  /\ webCall' = [c \in WebCalls |->
       LET w == webCall[c] IN
       IF w.tab # t \/ ~ (w.pc = "joined" \/ tab[t].inflight = c) THEN w
       ELSE IF w.next = "send" THEN SendWith(t, "sent", token)
       ELSE IF token # 0 THEN SendWith(t, "retried", token)
       ELSE NoWebCall]

\* The answer of Handler.refresh: a new cookie, or after any error none.
RefreshAnswered(c) ==
  /\ webCall[c].pc = "answer"
  /\ cookie' = webCall[c].answer
  /\ SetSession(webCall[c].tab, webCall[c].answer)
  /\ UNCHANGED <<session, expired, web>>

\* The answer does not arrive.
RefreshLost(c) ==
  /\ webCall[c].pc = "answer"
  /\ SetSession(webCall[c].tab, 0)
  /\ web' = [web EXCEPT !.failed = TRUE]
  /\ UNCHANGED <<session, cookie, expired>>

-----------------------------------------------------------------------------
ExpireAccess ==
  /\ web.expiries < MaxExpiries
  /\ expired < session.current
  /\ expired' = session.current
  /\ web' = [web EXCEPT !.expiries = @ + 1]
  /\ UNCHANGED <<session, cookie, tab, webCall>>

\* A page loaded again forgets its token.
LoadPage(t) ==
  /\ web.loads < MaxLoads
  /\ tab[t].booted /\ \A c \in WebCalls : webCall[c].tab # t
  /\ tab' = [tab EXCEPT ![t] = NewTab]
  /\ web' = [web EXCEPT !.loads = @ + 1]
  /\ UNCHANGED <<session, cookie, webCall, expired>>

WebNext ==
  \/ \E c \in WebCalls :
       \/ \E t \in Tabs : ApiRequest(c, t)
       \/ ApiAnswered(c) \/ Unauthorized(c)
       \/ RefreshRead(c) \/ RefreshRotate(c) \/ RefreshStoreFails(c)
       \/ RefreshAnswered(c) \/ RefreshLost(c)
  \/ ExpireAccess
  \/ \E t \in Tabs : LoadPage(t)

WebSpec == WebInit /\ [][WebNext]_webVars

-----------------------------------------------------------------------------
\* "otherwise the second call would present an already-rotated token and trip
\* reuse detection": the calls of a tab never lose the session.  It is revoked,
\* or its cookie cleared, only after a refresh failed or its answer was lost,
\* or when two tabs refreshed at the same time, which single flight per tab
\* does not prevent.
KeptUnlessFailedOrOverlap ==
  ~ session.active \/ cookie = 0 => web.failed \/ web.overlap

\* "concurrent 401s share one rotation": however the calls of a tab and their
\* 401s fall, each page load and each expiry costs a tab at most one.
SharedRotation ==
  session.current - 1 <= Cardinality(Tabs) * web.expiries + web.loads

\* The calls of a tab that fail with 401 at once share one rotation, and so do
\* not lose the session to its reuse detection.
SingleFlight == KeptUnlessFailedOrOverlap /\ SharedRotation
=============================================================================
