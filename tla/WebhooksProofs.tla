--------------------------- MODULE WebhooksProofs ---------------------------
(***************************************************************************)
(* Theorems about Webhooks, for any number of events and of concurrent     *)
(* requests, any deployment and any number of faults.                      *)
(*                                                                         *)
(* AckedIsRecorded and SoleOwner are not inductive.  IInv adds what each   *)
(* handler knows of the committed row at each point of its code: a handler *)
(* that inserted has the row to itself until it is done, and the row is    *)
(* then exactly as it left it.  What is said of the origin of an event     *)
(* needs one thing more of the deployment, SecretIsSet.                    *)
(***************************************************************************)
EXTENDS Webhooks, TLAPS

Marked == [status |-> "processed", attempts |-> 1]

\* What a handler in flight knows.
HandlerKnows(h) ==
  /\ pc[h] = "retry" => events[ev[h]] # Absent
  /\ pc[h] = "commit" => events[ev[h]] = Absent /\ row[h] = Received
  /\ pc[h] = "mark" => events[ev[h]] = Received /\ row[h] = Received
  /\ pc[h] = "commit_mark" => events[ev[h]] = Received /\ row[h] = Marked

IInv ==
  /\ TypeOK
  /\ \A h \in Handlers : HandlerKnows(h)
  /\ SoleOwner
  /\ AckedIsRecorded

-----------------------------------------------------------------------------
\* The three contents of a row differ, and each is of the type of a row.
LEMMA RowFacts ==
  /\ Absent # Received /\ Absent # Marked /\ Received # Marked
  /\ Absent \in Rows /\ Received \in Rows /\ Marked \in Rows
  /\ Absent.status = "absent" /\ Received.status = "received"
  /\ Marked.status = "processed"
BY DEF Absent, Received, Marked, Rows

\* MarkProcessed applied to a fresh row.
LEMMA MarkOfReceived ==
  ASSUME NEW f \in [Handlers -> Rows], NEW h \in Handlers, f[h] = Received
  PROVE  [f EXCEPT ![h] = [status |-> "processed", attempts |-> @.attempts + 1]]
           = [f EXCEPT ![h] = Marked]
BY DEF Received, Marked

LEMMA InitInv == Init => IInv
<1> SUFFICES ASSUME Init PROVE IInv
  OBVIOUS
<1>1. TypeOK
  BY RowFacts, MaxFaultsAssumption DEF Init, TypeOK, Answered
<1>2. \A h \in Handlers : HandlerKnows(h)
  BY DEF Init, HandlerKnows, InFlight
<1>3. SoleOwner /\ AckedIsRecorded
  BY DEF Init, SoleOwner, AckedIsRecorded, Owning
<1> QED
  BY <1>1, <1>2, <1>3 DEF IInv

LEMMA NextInv == IInv /\ [Next]_vars => IInv'
<1> SUFFICES ASSUME IInv, [Next]_vars PROVE IInv'
  OBVIOUS
<1> USE RowFacts DEF IInv
<1>1. ASSUME NEW h \in Handlers, NEW e \in Events, NEW route \in Routes,
             NEW key \in KeysFor(e), Admit(h, e, route, key)
      PROVE  IInv'
  BY <1>1 DEF Admit, TypeOK, HandlerKnows, SoleOwner, AckedIsRecorded,
              Answered, InFlight, Owning
<1>2. ASSUME NEW h \in Handlers, NEW e \in Events, Reject(h, e) PROVE IInv'
  BY <1>2 DEF Reject, TypeOK, HandlerKnows, SoleOwner, AckedIsRecorded,
              Answered, InFlight, Owning
<1>3. ASSUME NEW h \in Handlers, SelectEvent(h) PROVE IInv'
  BY <1>3 DEF SelectEvent, TypeOK, HandlerKnows, SoleOwner, AckedIsRecorded,
              Answered, InFlight, Owning
<1>4. ASSUME NEW h \in Handlers, AnswerRetry(h) PROVE IInv'
  BY <1>4 DEF AnswerRetry, TypeOK, HandlerKnows, SoleOwner, AckedIsRecorded,
              Answered, InFlight, Owning
<1>5. ASSUME NEW h \in Handlers, InsertEvent(h) PROVE IInv'
  <2>1. \A g \in Handlers \ {h} : ev[g] = ev[h] => pc[g] \notin Owning
    BY <1>5 DEF InsertEvent, Locked, HandlerKnows, Owning, Flushed
  <2>2. TypeOK'
    BY <1>5 DEF InsertEvent, TypeOK, InFlight
  <2>3. SoleOwner'
    BY <1>5, <2>1 DEF InsertEvent, TypeOK, SoleOwner, Owning
  <2>4. (\A g \in Handlers : HandlerKnows(g))' /\ AckedIsRecorded'
    BY <1>5 DEF InsertEvent, TypeOK, HandlerKnows, AckedIsRecorded, InFlight
  <2> QED
    BY <2>2, <2>3, <2>4
<1>6. ASSUME NEW h \in Handlers, InsertConflict(h) PROVE IInv'
  BY <1>6 DEF InsertConflict, TypeOK, HandlerKnows, SoleOwner, AckedIsRecorded,
              Answered, InFlight, Owning
<1>7. ASSUME NEW h \in Handlers, CommitEvent(h) PROVE IInv'
  <2>1. \A g \in Handlers \ {h} : ev[g] = ev[h] => pc[g] \notin Owning
    BY <1>7 DEF CommitEvent, SoleOwner, Owning
  <2>2. TypeOK'
    BY <1>7 DEF CommitEvent, TypeOK, InFlight
  <2>3. SoleOwner'
    BY <1>7, <2>1 DEF CommitEvent, TypeOK, SoleOwner, Owning
  <2>4. (\A g \in Handlers : HandlerKnows(g))'
    BY <1>7, <2>1 DEF CommitEvent, TypeOK, HandlerKnows, Owning, InFlight
  <2>5. AckedIsRecorded'
    BY <1>7 DEF CommitEvent, TypeOK, HandlerKnows, AckedIsRecorded
  <2> QED
    BY <2>2, <2>3, <2>4, <2>5
<1>8. ASSUME NEW h \in Handlers, MarkProcessed(h) PROVE IInv'
  <2>1. row[h] = Received /\ events[ev[h]] = Received
    BY <1>8 DEF MarkProcessed, HandlerKnows
  <2>2. row' = [row EXCEPT ![h] = Marked]
    BY <1>8, <2>1, MarkOfReceived DEF MarkProcessed, TypeOK
  <2>3. TypeOK'
    BY <1>8, <2>2 DEF MarkProcessed, TypeOK, InFlight
  <2>4. SoleOwner'
    BY <1>8 DEF MarkProcessed, TypeOK, SoleOwner, Owning
  <2>5. (\A g \in Handlers : HandlerKnows(g))' /\ AckedIsRecorded'
    BY <1>8, <2>1, <2>2 DEF MarkProcessed, TypeOK, HandlerKnows, AckedIsRecorded, InFlight
  <2> QED
    BY <2>3, <2>4, <2>5
<1>9. ASSUME NEW h \in Handlers, pc[h] \in Flushed,
             events' = [events EXCEPT ![ev[h]] = row[h]],
             pc' \in {[pc EXCEPT ![h] = "200"], [pc EXCEPT ![h] = "500"]},
             acked' = acked \/ acked' = acked \union {ev[h]},
             faults' \in 0..MaxFaults, UNCHANGED <<ev, row>>
      PROVE  IInv'
  <2>1. \A g \in Handlers \ {h} : ev[g] = ev[h] => pc[g] \notin Owning
    BY <1>9 DEF SoleOwner, Owning, Flushed
  <2>2. row[h] \in {Received, Marked}
    BY <1>9 DEF HandlerKnows, Flushed
  <2>3. TypeOK'
    BY <1>9, <2>2 DEF TypeOK, Answered
  <2>4. SoleOwner'
    BY <1>9 DEF TypeOK, SoleOwner, Owning
  <2>5. (\A g \in Handlers : HandlerKnows(g))'
    BY <1>9, <2>1, <2>2 DEF TypeOK, HandlerKnows, Owning, InFlight
  <2>6. AckedIsRecorded'
    BY <1>9, <2>2 DEF TypeOK, AckedIsRecorded
  <2> QED
    BY <2>3, <2>4, <2>5, <2>6
<1>10. ASSUME NEW h \in Handlers, CommitMark(h) PROVE IInv'
  BY <1>9, <1>10 DEF CommitMark, Flushed, TypeOK
<1>11. ASSUME NEW h \in Handlers, CommitUnheard(h) PROVE IInv'
  <2>1. faults' \in 0..MaxFaults
    BY <1>11, MaxFaultsAssumption DEF CommitUnheard, TypeOK
  <2> QED
    BY <1>9, <1>11, <2>1 DEF CommitUnheard
<1>12. ASSUME NEW h \in Handlers, Fault(h) PROVE IInv'
  BY <1>12, MaxFaultsAssumption
    DEF Fault, TypeOK, HandlerKnows, SoleOwner, AckedIsRecorded, Answered, InFlight, Owning
<1>13. CASE Crash
  BY <1>13, MaxFaultsAssumption
    DEF Crash, TypeOK, HandlerKnows, SoleOwner, AckedIsRecorded, Answered, InFlight, Owning
<1>14. CASE UNCHANGED vars
  BY <1>14 DEF vars, TypeOK, HandlerKnows, SoleOwner, AckedIsRecorded
<1> QED
  BY <1>1, <1>2, <1>3, <1>4, <1>5, <1>6, <1>7, <1>8, <1>10, <1>11, <1>12, <1>13, <1>14
    DEF Next, Deliver, Step

-----------------------------------------------------------------------------
\* The strengthened invariant holds in every reachable state.
THEOREM Invariance == Spec => []IInv
<1> QED
  BY InitInv, NextInv, PTL DEF Spec

\* Every variable keeps its type.
THEOREM TypeCorrect == Spec => []TypeOK
<1>1. IInv => TypeOK
  BY DEF IInv
<1> QED
  BY <1>1, Invariance, PTL

\* However deliveries of an event interleave, and whatever fails, at most one
\* handler is past the INSERT of it: webhook_events.provider_event_id is what
\* makes processing exclusive.
THEOREM Exclusive == Spec => []SoleOwner
<1>1. IInv => SoleOwner
  BY DEF IInv
<1> QED
  BY <1>1, Invariance, PTL

\* No path of _handle answers 200 before the event is committed.
THEOREM AckAfterRecord == Spec => []AckedIsRecorded
<1>1. IInv => AckedIsRecorded
  BY DEF IInv
<1> QED
  BY <1>1, Invariance, PTL

-----------------------------------------------------------------------------
\* Where a step changes the committed table, it is the commit of a handler.
LEMMA TableStep ==
  ASSUME IInv, Next, events' # events
  PROVE  \E h \in Handlers :
           /\ events' = [events EXCEPT ![ev[h]] = row[h]]
           /\ \/ pc[h] = "commit" /\ acked' = acked
              \/ pc[h] = "commit_mark" /\ acked' \in {acked, acked \union {ev[h]}}
<1>1. ASSUME NEW h \in Handlers, CommitEvent(h) \/ CommitMark(h) \/ CommitUnheard(h)
      PROVE  /\ events' = [events EXCEPT ![ev[h]] = row[h]]
             /\ \/ pc[h] = "commit" /\ acked' = acked
                \/ pc[h] = "commit_mark" /\ acked' \in {acked, acked \union {ev[h]}}
  BY <1>1 DEF CommitEvent, CommitMark, CommitUnheard, Flushed
<1>2. \E h \in Handlers : CommitEvent(h) \/ CommitMark(h) \/ CommitUnheard(h)
  BY DEF Next, Deliver, Step, Admit, Reject, SelectEvent, AnswerRetry, InsertEvent,
         InsertConflict, MarkProcessed, Fault, Crash
<1> QED
  BY <1>1, <1>2

\* A committed row goes absent, received, processed, and stays: a duplicate,
\* a retry or a crash never books an event a second time.
THEOREM ProcessedOnceHolds == Spec => ProcessedOnce
<1> DEFINE Forward ==
      \A e \in Events :
        events'[e] # events[e] =>
          \/ events[e] = Absent /\ events'[e] = Received
          \/ /\ events[e] = Received
             /\ events'[e] = [status |-> "processed", attempts |-> 1]
<1>1. IInv /\ [Next]_vars => [Forward]_vars
  <2> SUFFICES ASSUME IInv, Next, NEW e \in Events, events'[e] # events[e]
               PROVE  \/ events[e] = Absent /\ events'[e] = Received
                      \/ events[e] = Received /\ events'[e] = Marked
    BY DEF Marked
  <2>1. PICK h \in Handlers :
          /\ events' = [events EXCEPT ![ev[h]] = row[h]]
          /\ pc[h] = "commit" \/ pc[h] = "commit_mark"
    BY TableStep
  <2>2. ev[h] = e /\ events'[e] = row[h]
    BY <2>1 DEF IInv, TypeOK
  <2> QED
    BY <2>1, <2>2 DEF IInv, HandlerKnows
<1> QED
  BY <1>1, Invariance, PTL DEF Spec, ProcessedOnce

-----------------------------------------------------------------------------
(***************************************************************************)
(* The handlers implement EventIntake.                                     *)
(***************************************************************************)

\* The deployment was given the secret of Stripe's webhooks, which the boot-time
\* validation does not ask for.
SecretIsSet == "stripe_enabled" \in Settings => "stripe_webhook_secret" \in Settings

\* Of the rails with a route only Stripe's verifies anything, and only where the
\* provider can be constructed.
LEMMA AdmittedIsStripe ==
  ASSUME NEW route \in Routes, NEW key, Admitted(route, key)
  PROVE  /\ {"stripe_enabled", "stripe_secret_key", "stripe_importable"} \subseteq Settings
         /\ SecretIsSet => key = "provider"
<1>1. route \in Rails /\ route # "test"
  BY DEF Routes
<1>2. BUILDERS[route].verifies /\ key = WebhookKey(Settings, route)
  BY DEF Admitted, VerifyWebhook
<1>3. route = "stripe"
  BY <1>1, <1>2 DEF Rails, BUILDERS, PayPalProvider, MpesaProvider, BtcProvider
<1>4. BUILDERS["stripe"] = StripeProvider
  BY DEF BUILDERS
<1>5. /\ BUILDERS["stripe"].required \subseteq Settings
      /\ BUILDERS["stripe"].needs \subseteq Settings
  BY <1>1, <1>3 DEF Admitted, GetProvider
<1>6. {"stripe_enabled", "stripe_secret_key", "stripe_importable"} \subseteq Settings
  BY <1>4, <1>5 DEF StripeProvider
<1>7. SecretIsSet => key = "provider"
  BY <1>2, <1>3, <1>4, <1>6 DEF SecretIsSet, WebhookKey, StripeProvider
<1> QED
  BY <1>6, <1>7

\* A delivery that is being handled is of an event that its provider emitted.
Genuine == \A h \in Handlers : pc[h] \in InFlight => ev[h] \in Emitted

LEMMA GenuineNext == SecretIsSet /\ TypeOK /\ Genuine /\ [Next]_vars => Genuine'
<1> SUFFICES ASSUME SecretIsSet, TypeOK, Genuine, [Next]_vars PROVE Genuine'
  OBVIOUS
<1>1. ASSUME NEW h \in Handlers, NEW e \in Events, NEW route \in Routes,
             NEW key \in KeysFor(e), Admit(h, e, route, key)
      PROVE  Genuine'
  <2>1. key = "provider"
    BY <1>1, AdmittedIsStripe DEF Admit
  <2>2. e \in Emitted
    BY <2>1 DEF KeysFor
  <2> QED
    BY <1>1, <2>2 DEF Admit, TypeOK, Genuine
<1>2. ASSUME NEW h \in Handlers, NEW e \in Events, Reject(h, e) PROVE Genuine'
  BY <1>2 DEF Reject, TypeOK, Genuine, InFlight
<1>3. ASSUME NEW h \in Handlers, Step(h) \/ Fault(h) \/ CommitUnheard(h) PROVE Genuine'
  BY <1>3 DEF TypeOK, Genuine, InFlight, Flushed, Step, SelectEvent, AnswerRetry, InsertEvent,
              InsertConflict, CommitEvent, MarkProcessed, CommitMark, Fault, CommitUnheard
<1>4. CASE Crash
  BY <1>4 DEF Crash, Genuine, InFlight
<1>5. CASE UNCHANGED vars
  BY <1>5 DEF vars, Genuine
<1> QED
  BY <1>1, <1>2, <1>3, <1>4, <1>5 DEF Next, Deliver

\* Where the secret is set, only emitted events are handled.
LEMMA OnlyGenuine == ASSUME SecretIsSet PROVE Spec => []Genuine
<1>1. Init => Genuine
  BY DEF Init, Genuine, InFlight
<1>2. TypeOK /\ Genuine /\ [Next]_vars => Genuine'
  BY GenuineNext
<1> QED
  BY <1>1, <1>2, TypeCorrect, PTL DEF Spec

Stage == [e \in Events |-> IF events[e] = Absent THEN "unknown" ELSE events[e].status]

LEMMA IntakeInit == Init => Intake!Init
BY DEF Init, Intake!Init

\* A commit is Receive or Process, an answer to a retry is Acknowledge, and
\* every other step of a handler is invisible to the provider.
LEMMA IntakeNext == IInv /\ Genuine /\ [Next]_vars => [Intake!Next]_(Intake!vars)
<1> SUFFICES ASSUME IInv, Genuine, [Next]_vars PROVE [Intake!Next]_(Intake!vars)
  OBVIOUS
<1>1. CASE UNCHANGED <<events, acked>>
  BY <1>1 DEF Intake!vars
<1>2. CASE Next /\ events' # events
  <2>1. PICK h \in Handlers :
          /\ events' = [events EXCEPT ![ev[h]] = row[h]]
          /\ \/ pc[h] = "commit" /\ acked' = acked
             \/ pc[h] = "commit_mark" /\ acked' \in {acked, acked \union {ev[h]}}
    BY <1>2, TableStep
  <2>2. ev[h] \in Events /\ ev[h] \in Emitted
    BY <2>1 DEF IInv, TypeOK, Genuine, InFlight
  <2>3. CASE pc[h] = "commit" /\ acked' = acked
    <3>1. events[ev[h]] = Absent /\ events' = [events EXCEPT ![ev[h]] = Received]
      BY <2>1, <2>3 DEF IInv, HandlerKnows
    <3>2. Stage[ev[h]] = "unknown" /\ Stage' = [Stage EXCEPT ![ev[h]] = "received"]
      BY <2>2, <3>1, RowFacts DEF Stage, IInv, TypeOK
    <3> QED
      BY <2>2, <2>3, <3>2 DEF Intake!Next, Intake!Receive, Stage
  <2>4. CASE pc[h] = "commit_mark" /\ acked' \in {acked, acked \union {ev[h]}}
    <3>1. events[ev[h]] = Received /\ events' = [events EXCEPT ![ev[h]] = Marked]
      BY <2>1, <2>4 DEF IInv, HandlerKnows
    <3>2. Stage[ev[h]] = "received" /\ Stage' = [Stage EXCEPT ![ev[h]] = "processed"]
      BY <2>2, <3>1, RowFacts DEF Stage, IInv, TypeOK
    <3> QED
      BY <2>2, <2>4, <3>2 DEF Intake!Next, Intake!Process, Stage
  <2> QED
    BY <2>1, <2>3, <2>4
<1>3. CASE Next /\ events' = events /\ acked' # acked
  <2>1. PICK h \in Handlers : AnswerRetry(h) \/ CommitMark(h)
    BY <1>3 DEF Next, Deliver, Step, Admit, Reject, SelectEvent, InsertEvent, CommitEvent,
                InsertConflict, MarkProcessed, Fault, CommitUnheard, Crash
  <2>2. ev[h] \in Events /\ events[ev[h]] # Absent /\ acked' = acked \union {ev[h]}
    BY <2>1, RowFacts DEF AnswerRetry, CommitMark, IInv, TypeOK, HandlerKnows
  <2>3. Stage[ev[h]] # "unknown" /\ Stage' = Stage
    BY <1>3, <2>2 DEF Stage, IInv, TypeOK, Rows
  <2> QED
    BY <2>2, <2>3 DEF Intake!Next, Intake!Acknowledge, Stage
<1> QED
  BY <1>1, <1>2, <1>3 DEF vars

\* In a deployment with the secret of its webhooks, every behaviour of the
\* handlers is one EventIntake allows: what the provider is told is true
\* whatever interleaves and whatever fails, and nothing else is booked.
THEOREM ImplementsIntake == SecretIsSet => (Spec => IntakeSpec)
<1> SUFFICES ASSUME SecretIsSet PROVE Spec => IntakeSpec
  OBVIOUS
<1>1. Spec => []Genuine
  BY OnlyGenuine
<1> QED
  BY <1>1, IntakeInit, IntakeNext, Invariance, PTL DEF Spec, IntakeSpec, Intake!Spec

\* In such a deployment only an event that its provider emitted is ever on
\* record: a delivery that does not verify writes nothing.  This is so of
\* EventIntake, and therefore of the handlers.
THEOREM OnlyEmittedOnRecord ==
  SecretIsSet => (Spec => [](\A e \in Events : events[e] # Absent => e \in Emitted))
<1> SUFFICES ASSUME SecretIsSet
             PROVE  Spec => [](\A e \in Events : events[e] # Absent => e \in Emitted)
  OBVIOUS
<1> DEFINE Booked == \A e \in Events : Stage[e] # "unknown" => e \in Emitted
<1>1. Intake!Init => Booked
  BY DEF Intake!Init, Stage
<1>2. Booked /\ [Intake!Next]_(Intake!vars) => Booked'
  <2> SUFFICES ASSUME Booked, [Intake!Next]_(Intake!vars), NEW e \in Events,
                      Stage'[e] # "unknown"
               PROVE  e \in Emitted
    OBVIOUS
  <2>1. CASE Stage' = Stage
    BY <2>1
  <2>2. ASSUME NEW d \in Events, Intake!Receive(d) PROVE e \in Emitted
    <3>1. Stage' = [Stage EXCEPT ![d] = "received"] /\ d \in Emitted
      BY <2>2 DEF Intake!Receive, Stage
    <3> QED
      BY <3>1 DEF Stage
  <2>3. ASSUME NEW d \in Events, Intake!Process(d) PROVE e \in Emitted
    <3>1. Stage' = [Stage EXCEPT ![d] = "processed"] /\ Stage[d] = "received"
      BY <2>3 DEF Intake!Process, Stage
    <3>2. d \in Emitted
      BY <3>1
    <3>3. e # d => Stage'[e] = Stage[e]
      BY <3>1
    <3> QED
      BY <3>2, <3>3
  <2>4. ASSUME NEW d \in Events, Intake!Acknowledge(d) PROVE Stage' = Stage
    BY <2>4 DEF Intake!Acknowledge, Stage
  <2>5. CASE UNCHANGED Intake!vars
    BY <2>1, <2>5 DEF Intake!vars, Stage
  <2> QED
    BY <2>1, <2>2, <2>3, <2>4, <2>5 DEF Intake!Next
<1>3. IntakeSpec => []Booked
  BY <1>1, <1>2, PTL DEF IntakeSpec, Intake!Spec
<1>4. IInv /\ Booked => \A e \in Events : events[e] # Absent => e \in Emitted
  <2>1. IInv => \A e \in Events : events[e] # Absent => Stage[e] # "unknown"
    BY RowFacts DEF IInv, TypeOK, Stage, Rows
  <2> QED
    BY <2>1
<1>5. Spec => IntakeSpec
  BY ImplementsIntake
<1> QED
  BY <1>3, <1>4, <1>5, Invariance, PTL

-----------------------------------------------------------------------------
(***************************************************************************)
(* Who has an event in hand.                                               *)
(***************************************************************************)

\* A handler that is to mark its event, or has, inserted it itself: it was in
\* the middle of it before the step.
LEMMA InHandBefore ==
  ASSUME IInv, [Next]_vars, NEW h \in Handlers, pc'[h] \in {"mark", "commit_mark"}
  PROVE  /\ ev'[h] = ev[h]
         /\ pc[h] \in {"commit", "mark", "commit_mark"}
         /\ pc[h] = "commit" => events'[ev[h]] = Received
<1> USE DEF IInv, TypeOK
<1> DEFINE Before == /\ ev'[h] = ev[h]
                     /\ \/ pc[h] \in {"mark", "commit_mark"}
                        \/ pc[h] = "commit" /\ events'[ev[h]] = Received
<1>1. ASSUME NEW g \in Handlers, Deliver(g) PROVE Before
  BY <1>1 DEF Deliver, Admit, Reject
<1>2. ASSUME NEW g \in Handlers, CommitEvent(g) PROVE Before
  BY <1>2 DEF CommitEvent, HandlerKnows
<1>3. ASSUME NEW g \in Handlers, MarkProcessed(g) PROVE Before
  BY <1>3 DEF MarkProcessed
<1>4. ASSUME NEW g \in Handlers,
             \/ SelectEvent(g) \/ AnswerRetry(g) \/ InsertEvent(g) \/ InsertConflict(g)
             \/ CommitMark(g) \/ Fault(g) \/ CommitUnheard(g)
      PROVE  Before
  BY <1>4 DEF SelectEvent, AnswerRetry, InsertEvent, InsertConflict, CommitMark, Fault,
              CommitUnheard
<1>5. CASE Crash
  BY <1>5 DEF Crash
<1>6. CASE UNCHANGED vars
  BY <1>6 DEF vars
<1>7. Before
  BY <1>1, <1>2, <1>3, <1>4, <1>5, <1>6 DEF Next, Step
<1> QED
  BY <1>7

\* A handler that has its event in hand keeps it, commits the processing, or
\* meets a fault.
LEMMA InHandAfter ==
  ASSUME IInv, [Next]_vars, faults' = faults,
         NEW h \in Handlers, pc[h] \in {"mark", "commit_mark"}
  PROVE  /\ ev'[h] = ev[h]
         /\ pc'[h] \in {"mark", "commit_mark"} \/ events'[ev[h]] = Marked
<1> USE DEF IInv, TypeOK
<1>1. ASSUME NEW g \in Handlers, Deliver(g) PROVE ev'[h] = ev[h] /\ pc'[h] = pc[h]
  BY <1>1 DEF Deliver, Admit, Reject, Answered
<1>2. ASSUME NEW g \in Handlers, CommitMark(g)
      PROVE  ev'[h] = ev[h] /\ (pc'[h] = pc[h] \/ events'[ev[h]] = Marked)
  BY <1>2 DEF CommitMark, HandlerKnows
<1>3. ASSUME NEW g \in Handlers, MarkProcessed(g)
      PROVE  ev'[h] = ev[h] /\ pc'[h] \in {"mark", "commit_mark"}
  BY <1>3 DEF MarkProcessed
<1>4. ASSUME NEW g \in Handlers,
             \/ SelectEvent(g) \/ AnswerRetry(g) \/ InsertEvent(g) \/ InsertConflict(g)
             \/ CommitEvent(g)
      PROVE  ev'[h] = ev[h] /\ pc'[h] = pc[h]
  BY <1>4 DEF SelectEvent, AnswerRetry, InsertEvent, InsertConflict, CommitEvent
<1>5. ASSUME NEW g \in Handlers, Fault(g) \/ CommitUnheard(g) PROVE FALSE
  BY <1>5, MaxFaultsAssumption DEF Fault, CommitUnheard
<1>6. ~Crash
  BY MaxFaultsAssumption DEF Crash
<1>7. CASE UNCHANGED vars
  BY <1>7 DEF vars
<1> QED
  BY <1>1, <1>2, <1>3, <1>4, <1>5, <1>6, <1>7 DEF Next, Step

LEMMA LeftNext == IInv /\ LeftOnlyByFault /\ [Next]_vars => LeftOnlyByFault'
<1> SUFFICES ASSUME IInv, LeftOnlyByFault, [Next]_vars, NEW e \in Events,
                    events'[e] = Received, ~(faults' > 0)
             PROVE  InHand(e)'
  BY DEF LeftOnlyByFault, LeftBehind
<1>0. IInv'
  BY NextInv
<1>1. faults = 0 /\ faults' = faults
  BY <1>0, MaxFaultsAssumption
    DEF IInv, TypeOK, Next, Deliver, Admit, Reject, Step, SelectEvent, AnswerRetry,
        InsertEvent, InsertConflict, CommitEvent, MarkProcessed, CommitMark, Fault,
        CommitUnheard, Crash, vars
<1>2. CASE events[e] = Received
  <2>1. PICK h \in Handlers : ev[h] = e /\ pc[h] \in {"mark", "commit_mark"}
    BY <1>1, <1>2 DEF LeftOnlyByFault, LeftBehind, InHand
  <2>2. ev'[h] = e /\ pc'[h] \in {"mark", "commit_mark"}
    BY <1>1, <2>1, InHandAfter, RowFacts
  <2> QED
    BY <2>2 DEF InHand
<1>3. CASE events[e] # Received
  <2>1. Next /\ events' # events
    BY <1>3 DEF vars
  <2>2. PICK h \in Handlers : CommitEvent(h) \/ CommitMark(h) \/ CommitUnheard(h)
    BY <2>1 DEF Next, Deliver, Step, Admit, Reject, SelectEvent, AnswerRetry, InsertEvent,
                InsertConflict, MarkProcessed, Fault, Crash
  <2>3. ~CommitUnheard(h)
    BY <1>1, MaxFaultsAssumption DEF CommitUnheard, IInv, TypeOK
  <2>4. ev[h] = e /\ row[h] = Received
    BY <1>3, <2>2 DEF CommitEvent, CommitMark, CommitUnheard, IInv, TypeOK
  <2>5. ~CommitMark(h)
    BY <2>4, RowFacts DEF CommitMark, IInv, HandlerKnows
  <2>6. ev'[h] = e /\ pc'[h] = "mark"
    BY <2>2, <2>3, <2>4, <2>5 DEF CommitEvent, IInv, TypeOK
  <2> QED
    BY <2>6 DEF InHand
<1> QED
  BY <1>2, <1>3

\* With nothing failing no event is left behind, however many deliveries of it
\* race: from one commit to the other somebody has it in hand.  This is the part
\* of ProcessedUnlessFault that needs no fairness.
THEOREM NoneLeftBehind == Spec => []LeftOnlyByFault
<1>1. Init => LeftOnlyByFault
  BY RowFacts DEF Init, LeftOnlyByFault, LeftBehind
<1> QED
  BY <1>1, LeftNext, Invariance, PTL DEF Spec

\* An event that a fault left behind is taken up by no later delivery.
LEMMA BehindNext ==
  ASSUME IInv, [Next]_vars, NEW e \in Events, LeftBehind(e)
  PROVE  LeftBehind(e)'
<1>1. events'[e] = Received
  <2> SUFFICES ASSUME events'[e] # events[e] PROVE FALSE
    BY DEF LeftBehind
  <2>1. Next /\ events' # events
    BY DEF vars
  <2>2. PICK h \in Handlers :
          /\ events' = [events EXCEPT ![ev[h]] = row[h]]
          /\ pc[h] \in {"commit", "commit_mark"}
    BY <2>1, TableStep
  <2>3. ev[h] = e
    BY <2>2 DEF IInv, TypeOK
  <2> QED
    BY <2>2, <2>3, RowFacts DEF LeftBehind, InHand, IInv, HandlerKnows
<1>2. ~InHand(e)'
  <2> SUFFICES ASSUME NEW h \in Handlers, ev'[h] = e, pc'[h] \in {"mark", "commit_mark"}
               PROVE  FALSE
    BY DEF InHand
  <2>1. ev[h] = e /\ pc[h] \in {"commit", "mark", "commit_mark"}
    BY InHandBefore
  <2> QED
    BY <2>1, RowFacts DEF LeftBehind, InHand, IInv, HandlerKnows
<1> QED
  BY <1>1, <1>2 DEF LeftBehind

\* Only the handler that inserted an event processes it: no step of any delivery
\* takes up what a fault left behind.
THEOREM NoneTakenUp == Spec => StaysBehind
<1>1. IInv /\ [Next]_vars =>
        [\A e \in Events : LeftBehind(e) => LeftBehind(e)']_vars
  BY BehindNext
<1> QED
  BY <1>1, Invariance, PTL DEF Spec, StaysBehind

\* So once left behind it is never processed, however often it is delivered
\* again: what the run webhooks_stranded finds is for ever.
THEOREM LeftForEver == Spec => \A e \in Events : [](LeftBehind(e) => []LeftBehind(e))
<1> SUFFICES ASSUME NEW e \in Events PROVE Spec => [](LeftBehind(e) => []LeftBehind(e))
  OBVIOUS
<1>1. IInv /\ LeftBehind(e) /\ [Next]_vars => LeftBehind(e)'
  BY BehindNext
<1> QED
  BY <1>1, Invariance, PTL DEF Spec

-----------------------------------------------------------------------------
\* The Stripe provider can be constructed.
StripeIsOn == {"stripe_enabled", "stripe_secret_key", "stripe_importable"} \subseteq Settings

\* In a deployment where Stripe is not on, with its key and its package, no event
\* is ever recorded: verify_webhook of the other rails returns False, so that
\* PayPal, M-Pesa and Bitcoin are deaf however they are set up.
THEOREM OnlyStripeIsHeard == Spec => []((\E e \in Events : events[e] # Absent) => StripeIsOn)
<1> DEFINE Quiet == /\ \A h \in Handlers : pc[h] \notin InFlight
                    /\ \A e \in Events : events[e] = Absent
<1>1. Init => Quiet
  BY DEF Init, InFlight
<1>2. ~StripeIsOn /\ TypeOK /\ Quiet /\ [Next]_vars => Quiet'
  <2> SUFFICES ASSUME ~StripeIsOn, TypeOK, Quiet, [Next]_vars PROVE Quiet'
    OBVIOUS
  <2>1. ASSUME NEW h \in Handlers, NEW e \in Events, NEW route \in Routes,
               NEW key \in KeysFor(e), Admit(h, e, route, key)
        PROVE  FALSE
    BY <2>1, AdmittedIsStripe DEF Admit, StripeIsOn
  <2>2. ASSUME NEW h \in Handlers, NEW e \in Events, Reject(h, e) PROVE Quiet'
    BY <2>2 DEF Reject, TypeOK, InFlight
  <2>3. ASSUME NEW h \in Handlers, Step(h) \/ Fault(h) \/ CommitUnheard(h) PROVE FALSE
    BY <2>3 DEF Step, SelectEvent, AnswerRetry, InsertEvent, InsertConflict, CommitEvent,
                MarkProcessed, CommitMark, Fault, CommitUnheard, InFlight, Flushed
  <2>4. CASE Crash
    BY <2>4 DEF Crash, InFlight
  <2>5. CASE UNCHANGED vars
    BY <2>5 DEF vars
  <2> QED
    BY <2>1, <2>2, <2>3, <2>4, <2>5 DEF Next, Deliver
<1>3. CASE StripeIsOn
  <2>1. (\E e \in Events : events[e] # Absent) => StripeIsOn
    BY <1>3
  <2> QED
    BY <2>1, PTL
<1>4. CASE ~StripeIsOn
  <2>1. TypeOK /\ Quiet /\ [Next]_vars => Quiet'
    BY <1>2, <1>4
  <2>2. Quiet => ((\E e \in Events : events[e] # Absent) => StripeIsOn)
    OBVIOUS
  <2> QED
    BY <1>1, <2>1, <2>2, TypeCorrect, PTL DEF Spec
<1> QED
  BY <1>3, <1>4
=============================================================================
