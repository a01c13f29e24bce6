---------------------------- MODULE EventIntake ----------------------------
(***************************************************************************)
(* What the webhook endpoints promise a payment provider, whatever the     *)
(* requests, transactions and retries behind them.                         *)
(*                                                                         *)
(*   - only an event the provider really emitted is ever booked;           *)
(*   - an event moves from unknown to received to processed, one stage at  *)
(*     a time and never back, and is marked processed exactly once;        *)
(*   - the provider is told 200, and so stops retrying, only when the      *)
(*     event is on the books.                                              *)
(***************************************************************************)
CONSTANTS Events,          \* every event id a delivery may carry
          Emitted          \* the events the provider emitted

VARIABLES stage,           \* how far each event has come
          acked            \* the events answered with 200 at least once

vars == <<stage, acked>>

Init ==
  /\ stage = [e \in Events |-> "unknown"]
  /\ acked = {}

Receive(e) ==
  /\ e \in Emitted
  /\ stage[e] = "unknown"
  /\ stage' = [stage EXCEPT ![e] = "received"]
  /\ UNCHANGED acked

Process(e) ==
  /\ stage[e] = "received"
  /\ stage' = [stage EXCEPT ![e] = "processed"]
  /\ acked' \in {acked, acked \union {e}}

Acknowledge(e) ==
  /\ stage[e] # "unknown"
  /\ acked' = acked \union {e}
  /\ UNCHANGED stage

Next == \E e \in Events : Receive(e) \/ Process(e) \/ Acknowledge(e)

Spec == Init /\ [][Next]_vars
=============================================================================
