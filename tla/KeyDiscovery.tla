----------------------------- MODULE KeyDiscovery -----------------------------
(***************************************************************************)
(* RemoteKeys: the signing keys of the Auth Service as a service knows     *)
(* them.  Key holds the mutex while it fetches, so the callers are served  *)
(* one by one; a fetch ends within the client's timeout.                   *)
(***************************************************************************)
EXTENDS Integers, FiniteSets

CONSTANTS KeyCallers,     \* requests that verify a token
          KeyTTL,         \* RemoteKeys.ttl
          MinRefresh,     \* RemoteKeys.minRefresh
          FetchTimeout,   \* the HTTP client's timeout
          LastKeyTime,    \* bound: the clock
          MaxKeys         \* bound: key IDs are 1..MaxKeys

ASSUME KeyAssumption ==
  /\ MinRefresh \in Nat \ {0} /\ KeyTTL \in Nat /\ MinRefresh < KeyTTL
  /\ FetchTimeout \in Nat /\ LastKeyTime \in Nat /\ MaxKeys \in Nat \ {0}

VARIABLES keyClock,
          signingKey,   \* Auth signs with one key and publishes it: [kid, since]
          keyCache,     \* keys (0 before the first fetch), fetchedAt
          keyCall       \* each caller: pc, kid, the key the endpoint answered with, verdict

keyVars == <<keyClock, signingKey, keyCache, keyCall>>

Kids == 1..MaxKeys
NoKeyCall == [pc |-> "idle", kid |-> 0, since |-> 0, body |-> 0, fetch |-> "none", found |-> FALSE]

KeysInit ==
  /\ keyClock = 0
  /\ signingKey = [kid |-> 1, since |-> 0]
  /\ keyCache = [kid |-> 0, at |-> 0]
  /\ keyCall = [c \in KeyCallers |-> NoKeyCall]

KeyStep(c, from, rec) == keyCall[c].pc = from /\ keyCall' = [keyCall EXCEPT ![c] = rec]
Verdict(c, fetch, found) == [keyCall[c] EXCEPT !.pc = "done", !.fetch = fetch, !.found = found]
Holder == {c \in KeyCallers : keyCall[c].pc = "fetching"}

\* Time passes, not beyond the timeout of the fetch under way.
KeyTick ==
  /\ keyClock < LastKeyTime
  /\ \A c \in Holder : keyClock - keyCall[c].since < FetchTimeout
  /\ keyClock' = keyClock + 1
  /\ UNCHANGED <<signingKey, keyCache, keyCall>>

\* Auth is restarted with another key: its JWKS has that one alone.
RotateKey ==
  /\ signingKey.kid < MaxKeys
  /\ signingKey' = [kid |-> signingKey.kid + 1, since |-> keyClock]
  /\ UNCHANGED <<keyClock, keyCache, keyCall>>

\* Verify asks for the key of a token: one of the present or of an earlier one.
AskKey(c, kid) ==
  /\ kid <= signingKey.kid
  /\ KeyStep(c, "idle", [NoKeyCall EXCEPT !.pc = "waiting", !.kid = kid])
  /\ UNCHANGED <<keyClock, signingKey, keyCache>>

\* Key with the mutex: a fresh known key is returned, an unknown one is not
\* fetched twice within minRefresh, otherwise refresh.
Key(c) ==
  LET age == keyClock - keyCache.at
      known == keyCache.kid = keyCall[c].kid
      fetched == keyCache.kid # 0 IN
  /\ Holder = {}
  /\ KeyStep(c, "waiting",
       IF (known /\ age < KeyTTL) \/ (fetched /\ age < MinRefresh)
       THEN Verdict(c, "none", known)
       ELSE [keyCall[c] EXCEPT !.pc = "fetching", !.since = keyClock])
  /\ UNCHANGED <<keyClock, signingKey, keyCache>>

\* The JWKS endpoint writes its answer.
ServeJWKS(c) ==
  /\ keyCall[c].body = 0
  /\ KeyStep(c, "fetching", [keyCall[c] EXCEPT !.body = signingKey.kid])
  /\ UNCHANGED <<keyClock, signingKey, keyCache>>

\* refresh: the keys are replaced, fetchedAt is the time of the answer.
RefreshKeys(c) ==
  /\ keyCall[c].body # 0
  /\ keyCache' = [kid |-> keyCall[c].body, at |-> keyClock]
  /\ KeyStep(c, "fetching", Verdict(c, "ok", keyCall[c].body = keyCall[c].kid))
  /\ UNCHANGED <<keyClock, signingKey>>

\* Mutant of RefreshFails: a failed fetch counts as one.
RefreshFailsStamped(c) ==
  /\ KeyStep(c, "fetching", Verdict(c, "failed", keyCache.kid = keyCall[c].kid))
  /\ keyCache' = [keyCache EXCEPT !.at = keyClock]
  /\ UNCHANGED <<keyClock, signingKey>>

\* The endpoint does not answer, or its answer is no key set: known keys are
\* served, and the next call fetches again.
RefreshFails(c) ==
  /\ KeyStep(c, "fetching", Verdict(c, "failed", keyCache.kid = keyCall[c].kid))
  /\ UNCHANGED <<keyClock, signingKey, keyCache>>

KeyAnswered(c) == KeyStep(c, "done", NoKeyCall) /\ UNCHANGED <<keyClock, signingKey, keyCache>>

KeysNext ==
  \/ KeyTick \/ RotateKey
  \/ \E c \in KeyCallers : \/ \E kid \in Kids : AskKey(c, kid)
                           \/ Key(c) \/ ServeJWKS(c) \/ RefreshKeys(c) \/ RefreshFails(c) \/ KeyAnswered(c)

KeysSpec == KeysInit /\ [][KeysNext]_keyVars

-----------------------------------------------------------------------------
\* A service does not refuse the tokens of a new key for longer than
\* minRefresh and a fetch that was under way when the key came: later, only a
\* call whose own fetch failed does not find it.
NewKeyFound ==
  [][\A c \in KeyCallers :
       /\ keyCall[c].pc # "done" /\ keyCall'[c].pc = "done" /\ ~keyCall'[c].found
       /\ keyCall[c].kid = signingKey.kid /\ keyCall'[c].fetch # "failed"
       => keyClock - signingKey.since < MinRefresh + FetchTimeout]_keyVars

\* The tokens of a key that was replaced are refused once the keys in memory
\* are older than the TTL and the endpoint answers.
OldKeyRefused ==
  [][\A c \in KeyCallers :
       /\ keyCall[c].pc # "done" /\ keyCall'[c].pc = "done" /\ keyCall'[c].found
       /\ keyCall[c].kid # signingKey.kid /\ keyCall'[c].fetch # "failed"
       => keyClock - signingKey.since < KeyTTL + FetchTimeout]_keyVars

\* The keys a service knows follow a rotation, both ways, within bounded time.
KeysFollow == NewKeyFound /\ OldKeyRefused
=============================================================================
