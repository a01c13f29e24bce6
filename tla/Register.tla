------------------------------ MODULE Register ------------------------------
(***************************************************************************)
(* What a client may expect of a value it asks the backend to change: each *)
(* request takes effect at one moment between being made and being         *)
(* answered, as if it were alone; one that fails took effect once or never *)
(* and nothing else touches the value.  Consent and Admin implement it.    *)
(***************************************************************************)
CONSTANTS Keys,             \* what has a value: a donor, a post
          Requests,
          KeyOf(_),         \* the key an ask is about
          Effect(_, _)      \* the values an ask may turn a value into

VARIABLES req,              \* what each request asks
          value,            \* the value of each key
          phase             \* how far each request is

vars == <<req, value, phase>>

Init == phase = [r \in Requests |-> "made"]

\* The request takes effect.  It may be answered at once, or fail at once when
\* the outcome was lost on its way.
TakeEffect(r) ==
  /\ phase[r] = "made"
  /\ \E v \in Effect(req[r], value[KeyOf(req[r])]) :
       value' = [value EXCEPT ![KeyOf(req[r])] = v]
  /\ \E p \in {"effective", "answered", "failed"} : phase' = [phase EXCEPT ![r] = p]
  /\ UNCHANGED req

Answer(r) ==
  /\ phase[r] = "effective"
  /\ phase' = [phase EXCEPT ![r] = "answered"]
  /\ UNCHANGED <<req, value>>

\* Some requests fail, several at once when a process dies.
Fail(R) ==
  /\ \A r \in R : phase[r] \in {"made", "effective"}
  /\ phase' = [r \in Requests |-> IF r \in R THEN "failed" ELSE phase[r]]
  /\ UNCHANGED <<req, value>>

Next ==
  \/ \E R \in SUBSET Requests : Fail(R)
  \/ \E r \in Requests : TakeEffect(r) \/ Answer(r)

Spec == Init /\ [][Next]_vars
=============================================================================
