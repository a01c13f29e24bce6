------------------------------ MODULE Limiter ------------------------------
(***************************************************************************)
(* RateLimiter of app/services/admin_auth.py: an in-memory sliding window  *)
(* over the attempts it accepted, per key.  check runs without an await,   *)
(* so that a call is one step.  Admin extends the module and takes its     *)
(* steps together with its own.                                            *)
(***************************************************************************)
EXTENDS Integers, FiniteSets

CONSTANTS Keys,          \* what is limited: an address and an e-mail
          Callers,       \* who may try, each once
          MaxAttempts,   \* max_attempts
          Window,        \* window_seconds
          MaxTime        \* bound on the clock

ASSUME MaxAttemptsAssumption == MaxAttempts \in Nat
ASSUME WindowAssumption == Window \in Nat
ASSUME MaxTimeAssumption == MaxTime \in Nat

VARIABLES now,           \* time.time(), which is not set back
          hits,          \* _hits: what the process remembers, per key
          accepted       \* the attempts accepted since the process started

limiterVars == <<now, hits, accepted>>

Times == 0..MaxTime

Attempts == [by : Callers, at : Times]

LimiterInit ==
  /\ now = 0
  /\ hits = [key \in Keys |-> {}]
  /\ accepted = [key \in Keys |-> {}]

\* Faulty variant: nothing is forgotten.
NeverPruned(attempts) == attempts

\* The list comprehension of check.
Recent(attempts) == {a \in attempts : now - a.at < Window}

Remember(key, caller) ==
  /\ hits' = [hits EXCEPT ![key] = Recent(@) \union {[by |-> caller, at |-> now]}]
  /\ accepted' = [accepted EXCEPT ![key] = @ \union {[by |-> caller, at |-> now]}]
  /\ UNCHANGED now

\* Faulty variant: one attempt too many.
AllowOneMore(key, caller) ==
  Cardinality(Recent(hits[key])) <= MaxAttempts /\ Remember(key, caller)

\* check returns True.
Allow(key, caller) ==
  Cardinality(Recent(hits[key])) < MaxAttempts /\ Remember(key, caller)

\* check returns False: it forgets what is old and does not count the attempt.
Deny(key) ==
  /\ Cardinality(Recent(hits[key])) >= MaxAttempts
  /\ hits' = [hits EXCEPT ![key] = Recent(@)]
  /\ UNCHANGED <<now, accepted>>

Tick == now < MaxTime /\ now' = now + 1 /\ UNCHANGED <<hits, accepted>>

\* The process restarts with an empty limiter.
Forget ==
  /\ hits' = [key \in Keys |-> {}]
  /\ accepted' = [key \in Keys |-> {}]
  /\ UNCHANGED now

-----------------------------------------------------------------------------
(***************************************************************************)
(* Properties.                                                             *)
(***************************************************************************)

LimiterTypeOK ==
  /\ now \in Times
  /\ hits \in [Keys -> SUBSET Attempts]
  /\ accepted \in [Keys -> SUBSET Attempts]

\* What was accepted of a key in the last Window.
Lately(key) == {a \in accepted[key] : now - a.at < Window}

\* No window of time ever holds more accepted attempts of a key than the limit,
\* although the limiter forgets attempts as it goes.
WithinLimit == \A key \in Keys : Cardinality(Lately(key)) <= MaxAttempts
=============================================================================
