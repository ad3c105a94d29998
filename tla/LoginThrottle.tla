---------------------------- MODULE LoginThrottle ----------------------------
(***************************************************************************)
(* Auth Service's login throttle for one account: Login asks Redis whether *)
(* the account may try, verifies the password, then counts the failure or  *)
(* clears the counter.  The three calls are separate, so attempts overlap, *)
(* and each call picks the counter of the window it is made in.            *)
(***************************************************************************)
EXTENDS Integers, FiniteSets

CONSTANTS Attempts,        \* clients signing in to the account, again and again
          MaxFailures,
          MaxWindow,       \* bound: windows
          MaxRedisFaults   \* bound: Redis calls that fail

ASSUME ThrottleAssumption ==
  /\ IsFiniteSet(Attempts)
  /\ MaxFailures \in Nat \ {0}
  /\ MaxWindow \in Nat
  /\ MaxRedisFaults \in Nat

VARIABLES window,  \* now / window: the bucket of the key
          count,   \* the counter under each bucket's key, 0 when absent
          stage,   \* where each attempt is in Login
          redisFaults

throttleVars == <<window, count, stage, redisFaults>>

ThrottleTypeOK ==
  /\ window \in 0..MaxWindow
  /\ count \in [0..MaxWindow -> Nat]
  /\ stage \in [Attempts -> {"idle", "verify", "failed", "matched", "refused"}]
  /\ redisFaults \in 0..MaxRedisFaults

ThrottleInit ==
  /\ window = 0
  /\ count = [w \in 0..MaxWindow |-> 0]
  /\ stage = [a \in Attempts |-> "idle"]
  /\ redisFaults = 0

Move(a, from, to) == stage[a] = from /\ stage' = [stage EXCEPT ![a] = to]

RedisDown == redisFaults < MaxRedisFaults /\ redisFaults' = redisFaults + 1

\* The next window begins.  The old key outlives its window and is not read again.
NextWindow ==
  /\ window < MaxWindow
  /\ window' = window + 1
  /\ UNCHANGED <<count, stage, redisFaults>>

\* Mutant of Allow: <= for <.
AllowOneMore(a) ==
  /\ Move(a, "idle", IF count[window] <= MaxFailures THEN "verify" ELSE "refused")
  /\ UNCHANGED <<window, count, redisFaults>>

\* Allow.
Allow(a) ==
  /\ Move(a, "idle", IF count[window] < MaxFailures THEN "verify" ELSE "refused")
  /\ UNCHANGED <<window, count, redisFaults>>

\* Allow failed: Login goes on.
AllowFails(a) ==
  /\ Move(a, "idle", "verify")
  /\ RedisDown
  /\ UNCHANGED <<window, count>>

\* ByEmail and Hasher.Verify, against the dummy hash for an unknown account.
VerifyPassword(a) ==
  /\ Move(a, "verify", "failed") \/ Move(a, "verify", "matched")
  /\ UNCHANGED <<window, count, redisFaults>>

\* ByEmail or Verify returned an error: neither Failed nor Reset is called.
VerifyError(a) ==
  /\ Move(a, "verify", "idle")
  /\ UNCHANGED <<window, count, redisFaults>>

\* Failed: INCR and EXPIRE in one pipeline.
Failed(a) ==
  /\ Move(a, "failed", "idle")
  /\ count' = [count EXCEPT ![window] = @ + 1]
  /\ UNCHANGED <<window, redisFaults>>

\* Reset: DEL of the current window's key.
Reset(a) ==
  /\ Move(a, "matched", "idle")
  /\ count' = [count EXCEPT ![window] = 0]
  /\ UNCHANGED <<window, redisFaults>>

\* Failed or Reset did not reach Redis: logged or ignored.
CallLost(a) ==
  /\ Move(a, "failed", "idle") \/ Move(a, "matched", "idle")
  /\ RedisDown
  /\ UNCHANGED <<window, count>>

\* The client answered TOO_MANY_ATTEMPTS comes back.
Retry(a) ==
  /\ Move(a, "refused", "idle")
  /\ UNCHANGED <<window, count, redisFaults>>

Login(a) == \/ Allow(a) \/ AllowFails(a) \/ VerifyPassword(a) \/ VerifyError(a)
            \/ Failed(a) \/ Reset(a) \/ CallLost(a) \/ Retry(a)

ThrottleNext == NextWindow \/ \E a \in Attempts : Login(a)

ThrottleSpec == ThrottleInit /\ [][ThrottleNext]_throttleVars

-----------------------------------------------------------------------------
\* Attempts Allow has let through that may still add a failure.
Pending == {a \in Attempts : stage[a] \in {"verify", "failed"}}

\* NewLoginThrottle "allows max failures per window".  Attempts that overlap are
\* let through on the same count, so what the code guarantees is max plus one for
\* each of the other clients, and one for each Allow that Redis did not answer.
FailuresBounded ==
  \A w \in 0..MaxWindow : count[w] <= MaxFailures + (Cardinality(Attempts) - 1) + redisFaults
=============================================================================
