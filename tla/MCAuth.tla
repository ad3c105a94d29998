------------------------------- MODULE MCAuth -------------------------------
(* One device of one user, and another user; the throttle of one account;  *)
(* a service that verifies tokens; and a browser with two tabs.  They      *)
(* share no state, so each is explored with the others at rest.            *)
EXTENDS AuthSessions, LoginThrottle, KeyDiscovery, WebSession, TLC

CONSTANTS alice, bob

MCUsers == {alice, bob}
MCUserOf == [s \in Sessions |-> alice]
\* Requests are interchangeable.
MCSymmetry == Permutations(Reqs)

VARIABLE subject  \* the part this behaviour is about
mcVars == <<vars, throttleVars, keyVars, webVars, subject>>

SessionsAlone == subject = "sessions" /\ Next /\ UNCHANGED <<throttleVars, keyVars, webVars, subject>>
ThrottleAlone == subject = "throttle" /\ ThrottleNext /\ UNCHANGED <<vars, keyVars, webVars, subject>>
KeysAlone == subject = "keys" /\ KeysNext /\ UNCHANGED <<vars, throttleVars, webVars, subject>>
WebAlone == subject = "web" /\ WebNext /\ UNCHANGED <<vars, throttleVars, keyVars, subject>>

MCInit ==
  /\ Init /\ ThrottleInit /\ KeysInit /\ WebInit
  /\ subject \in {"sessions", "throttle", "keys", "web"}
MCSpec == MCInit /\ [][SessionsAlone \/ ThrottleAlone \/ KeysAlone \/ WebAlone]_mcVars

\* The sessions' and the throttle's variables keep their types.
AuthTypeOK == TypeOK /\ ThrottleTypeOK
=============================================================================
