------------------------------ MODULE Webhooks ------------------------------
(***************************************************************************)
(* The webhook endpoints (app/routers/webhooks.py) over the webhook_events *)
(* table (app/services/ledger.py, app/models/webhook_event.py).            *)
(*                                                                         *)
(* A handler is one HTTP request being served.  Handlers interleave at     *)
(* every statement they await from the database.  Each one works in its    *)
(* own PostgreSQL transaction at READ COMMITTED: it sees what others       *)
(* committed, its own INSERT or UPDATE is seen by others only after COMMIT *)
(* but already holds the unique index entry or the row.                    *)
(*                                                                         *)
(* A provider delivers an event any number of times, also concurrently     *)
(* with itself, until one delivery is answered 200, and maybe after that.  *)
(***************************************************************************)
EXTENDS Naturals, Rails

CONSTANTS Events,       \* the event ids a delivery may carry
          Emitted,      \* those the provider emitted
          Handlers,     \* the requests being served at one time
          Settings,     \* the deployment, see Rails
          MaxFaults     \* bound on database errors and process crashes

ASSUME EmittedAssumption == Emitted \subseteq Events
ASSUME SettingsAssumption == Settings \subseteq SettingNames /\ Boots(Settings)
ASSUME MaxFaultsAssumption == MaxFaults \in Nat

VARIABLES events,       \* table webhook_events, as committed
          pc,           \* where each handler is, or how it answered
          ev,           \* the event id of each handler's delivery
          row,          \* the ORM instance each handler holds
          acked,        \* the events answered with 200 at least once
          faults        \* faults so far

vars == <<events, pc, ev, row, acked, faults>>

Absent == [status |-> "absent", attempts |-> 0]
Received == [status |-> "received", attempts |-> 0]
Rows == [status : {"absent", "received", "processed"}, attempts : 0..1]

Answered == {"idle", "200", "401", "500"}
InFlight == {"select", "retry", "insert", "commit", "mark", "commit_mark"}

\* The handlers whose transaction holds an uncommitted write of their event.
Flushed == {"commit", "commit_mark"}
\* The handlers that inserted their event, or marked it, and are not done.
Owning == {"commit", "mark", "commit_mark"}

\* Some other open transaction has written the row or index entry of h's
\* event: a write of h waits until that transaction ends.
Locked(h) == \E g \in Handlers \ {h} : ev[g] = ev[h] /\ pc[g] \in Flushed

-----------------------------------------------------------------------------
Init ==
  /\ events = [e \in Events |-> Absent]
  /\ pc = [h \in Handlers |-> "idle"]
  /\ ev \in [Handlers -> Events]
  /\ row = [h \in Handlers |-> Absent]
  /\ acked = {}
  /\ faults = 0

\* The keys that a delivery of e may be signed with: the provider signs what it
\* emitted, and nobody else has its secret.
KeysFor(e) == IF e \in Emitted THEN SigningKeys ELSE SigningKeys \ {"provider"}

\* The provider is constructed and the signature is good.
Admitted(route, key) ==
  /\ GetProvider(Settings, route) = "ok"
  /\ VerifyWebhook(Settings, route, key)

\* Faulty variant: the answer goes out before anything is recorded.
AdmitAnswersFirst(h, e, route, key) ==
  /\ pc[h] \in Answered
  /\ Admitted(route, key)
  /\ pc' = [pc EXCEPT ![h] = "select"]
  /\ ev' = [ev EXCEPT ![h] = e]
  /\ acked' = acked \union {e}
  /\ UNCHANGED <<events, row, faults>>

\* A delivery that passes get_provider and verify_webhook.
Admit(h, e, route, key) ==
  /\ pc[h] \in Answered
  /\ Admitted(route, key)
  /\ pc' = [pc EXCEPT ![h] = "select"]
  /\ ev' = [ev EXCEPT ![h] = e]
  /\ UNCHANGED <<events, row, acked, faults>>

\* A delivery for a rail that is off, or with a bad signature: 401 and no more.
\* Which rail it was and which key makes no difference.
Reject(h, e) ==
  /\ pc[h] \in Answered
  /\ ~\A route \in Routes, key \in KeysFor(e) : Admitted(route, key)
  /\ pc' = [pc EXCEPT ![h] = "401"]
  /\ ev' = [ev EXCEPT ![h] = e]
  /\ UNCHANGED <<events, row, acked, faults>>

\* Faulty variant: _handle ignores is_new and processes the row it found.
SelectAndReprocess(h) ==
  /\ pc[h] = "select"
  /\ pc' = [pc EXCEPT ![h] = IF events[ev[h]] = Absent THEN "insert" ELSE "mark"]
  /\ row' = [row EXCEPT ![h] = events[ev[h]]]
  /\ UNCHANGED <<events, ev, acked, faults>>

\* record_webhook_event: SELECT by provider_event_id.
SelectEvent(h) ==
  /\ pc[h] = "select"
  /\ pc' = [pc EXCEPT ![h] = IF events[ev[h]] = Absent THEN "insert" ELSE "retry"]
  /\ UNCHANGED <<events, ev, row, acked, faults>>

\* Faulty variant: a retry is refused.
RefuseRetry(h) ==
  /\ pc[h] = "retry"
  /\ pc' = [pc EXCEPT ![h] = "500"]
  /\ UNCHANGED <<events, ev, row, acked, faults>>

\* The row was there: commit the read-only transaction, answer 200.
AnswerRetry(h) ==
  /\ pc[h] = "retry"
  /\ pc' = [pc EXCEPT ![h] = "200"]
  /\ acked' = acked \union {ev[h]}
  /\ UNCHANGED <<events, ev, row, faults>>

\* Faulty variant: provider_event_id has no unique index.
InsertNotUnique(h) ==
  /\ pc[h] = "insert"
  /\ row' = [row EXCEPT ![h] = Received]
  /\ pc' = [pc EXCEPT ![h] = "commit"]
  /\ UNCHANGED <<events, ev, acked, faults>>

\* record_webhook_event: add the row and flush.  The unique index lets one
\* open transaction at a time hold an entry, and none that is committed.
InsertEvent(h) ==
  /\ pc[h] = "insert"
  /\ ~Locked(h)
  /\ events[ev[h]] = Absent
  /\ row' = [row EXCEPT ![h] = Received]
  /\ pc' = [pc EXCEPT ![h] = "commit"]
  /\ UNCHANGED <<events, ev, acked, faults>>

\* A rival delivery committed the row after h's SELECT: flush raises
\* IntegrityError, which nothing catches.
InsertConflict(h) ==
  /\ pc[h] = "insert"
  /\ ~Locked(h)
  /\ events[ev[h]] # Absent
  /\ pc' = [pc EXCEPT ![h] = "500"]
  /\ UNCHANGED <<events, ev, row, acked, faults>>

\* Faulty variant: _handle answers after the first commit and never processes.
CommitAndAnswer(h) ==
  /\ pc[h] = "commit"
  /\ events' = [events EXCEPT ![ev[h]] = row[h]]
  /\ pc' = [pc EXCEPT ![h] = "200"]
  /\ acked' = acked \union {ev[h]}
  /\ UNCHANGED <<ev, row, faults>>

\* The first commit of _handle.
CommitEvent(h) ==
  /\ pc[h] = "commit"
  /\ events' = [events EXCEPT ![ev[h]] = row[h]]
  /\ pc' = [pc EXCEPT ![h] = "mark"]
  /\ UNCHANGED <<ev, row, acked, faults>>

\* mark_event_processed, on the instance kept across the commit
\* (expire_on_commit=False), and its flush.
MarkProcessed(h) ==
  /\ pc[h] = "mark"
  /\ ~Locked(h)
  /\ row' = [row EXCEPT ![h] = [status |-> "processed", attempts |-> @.attempts + 1]]
  /\ pc' = [pc EXCEPT ![h] = "commit_mark"]
  /\ UNCHANGED <<events, ev, acked, faults>>

\* The second commit, and the answer.
CommitMark(h) ==
  /\ pc[h] = "commit_mark"
  /\ events' = [events EXCEPT ![ev[h]] = row[h]]
  /\ pc' = [pc EXCEPT ![h] = "200"]
  /\ acked' = acked \union {ev[h]}
  /\ UNCHANGED <<ev, row, faults>>

-----------------------------------------------------------------------------
\* A statement or a commit raises: the transaction rolls back, the answer is
\* 500.  This is so after the first commit too.  There the except clause calls
\* mark_event_processed again, but a session whose flush or commit failed
\* raises on every use until it is rolled back, which the clause does not do:
\* the error it means to store is lost and the row stays as committed.
Fault(h) ==
  /\ faults < MaxFaults
  /\ pc[h] \in InFlight
  /\ pc' = [pc EXCEPT ![h] = "500"]
  /\ faults' = faults + 1
  /\ UNCHANGED <<events, ev, row, acked>>

\* The connection is lost after the server applied a COMMIT and before the
\* handler heard of it: the write is durable, the answer is 500.
CommitUnheard(h) ==
  /\ faults < MaxFaults
  /\ pc[h] \in Flushed
  /\ events' = [events EXCEPT ![ev[h]] = row[h]]
  /\ pc' = [pc EXCEPT ![h] = "500"]
  /\ faults' = faults + 1
  /\ UNCHANGED <<ev, row, acked>>

\* The process dies and is started again: no handler survives, nothing that
\* was not committed survives.
Crash ==
  /\ faults < MaxFaults
  /\ pc' = [h \in Handlers |-> "idle"]
  /\ faults' = faults + 1
  /\ UNCHANGED <<events, ev, row, acked>>

-----------------------------------------------------------------------------
Step(h) ==
  \/ SelectEvent(h) \/ AnswerRetry(h)
  \/ InsertEvent(h) \/ InsertConflict(h) \/ CommitEvent(h)
  \/ MarkProcessed(h) \/ CommitMark(h)

Deliver(h) ==
  \E e \in Events :
    \/ \E route \in Routes, key \in KeysFor(e) : Admit(h, e, route, key)
    \/ Reject(h, e)

Next ==
  \/ \E h \in Handlers : Deliver(h) \/ Step(h) \/ Fault(h) \/ CommitUnheard(h)
  \/ Crash

Spec == Init /\ [][Next]_vars

\* The provider's side of the protocol: an event that was not answered 200 is
\* delivered again, signed with the provider's secret.
Redeliver(e) ==
  /\ e \notin acked
  /\ \E h \in Handlers, route \in Routes : Admit(h, e, route, "provider")

\* The event loop runs every handler and the database answers it.  A provider
\* keeps redelivering; the fairness is strong because the model serves no more
\* than Cardinality(Handlers) requests at a time, and a delivery may find them
\* all busy again and again.
Fairness ==
  /\ \A h \in Handlers : WF_vars(Step(h))
  /\ \A e \in Emitted : SF_vars(Redeliver(e))

FairSpec == Spec /\ Fairness

-----------------------------------------------------------------------------
(***************************************************************************)
(* Properties.                                                             *)
(***************************************************************************)

TypeOK ==
  /\ events \in [Events -> Rows]
  /\ pc \in [Handlers -> Answered \union InFlight]
  /\ ev \in [Handlers -> Events]
  /\ row \in [Handlers -> Rows]
  /\ acked \subseteq Events
  /\ faults \in 0..MaxFaults

\* A provider that was answered 200 never delivers again, so the answer must
\* not come before the event is committed, on any path, whatever fails.
AckedIsRecorded == \A e \in acked : events[e] # Absent

\* Of all concurrent deliveries of an event at most one gets past its INSERT
\* and goes on to process it.
SoleOwner ==
  \A g, h \in Handlers :
    (ev[g] = ev[h] /\ pc[g] \in Owning /\ pc[h] \in Owning) => g = h

\* A committed row goes from received to processed and no other way: no later
\* delivery inserts it again, reprocesses it or puts it back.
ProcessedOnce ==
  [][\A e \in Events :
       events'[e] # events[e] =>
         \/ events[e] = Absent /\ events'[e] = Received
         \/ /\ events[e] = Received
            /\ events'[e] = [status |-> "processed", attempts |-> 1]]_vars

\* The handler that inserted e is on its way to mark it.
InHand(e) == \E h \in Handlers : ev[h] = e /\ pc[h] \in {"mark", "commit_mark"}

\* e is on record, not processed, and nobody is processing it.
LeftBehind(e) == events[e] = Received /\ ~InHand(e)

\* Conflicts, retries and locks alone leave no event behind: from the commit of
\* its row to that of its processing an event is in somebody's hands, unless a
\* statement, a connection or the process failed.
LeftOnlyByFault == \A e \in Events : LeftBehind(e) => faults > 0

\* Only the handler that inserted an event processes it.  So an event that was
\* left behind stays so: every later delivery finds the row and is answered 200.
StaysBehind == [][\A e \in Events : LeftBehind(e) => LeftBehind(e)']_vars

\* The detailed handlers implement the promise made to the provider, in a
\* deployment that was given the secret of its webhooks.
Intake == INSTANCE EventIntake
            WITH stage <- [e \in Events |->
                             IF events[e] = Absent THEN "unknown" ELSE events[e].status]

IntakeSpec == Intake!Spec

\* Whatever fails, if it fails finitely often, every emitted event is answered
\* 200 in the end: retries are not stuck behind locks, conflicts or leftovers.
EventuallyAcked == \A e \in Emitted : <>(e \in acked)

\* Conflicts, retries and locks alone never leave a recorded event unprocessed.
ProcessedUnlessFault ==
  \A e \in Events :
    (events[e] # Absent) ~> (events[e].status = "processed" \/ faults > 0)

\* An event that was recorded is processed in the end, whatever fails: the
\* handlers "process, update donations/subscriptions, send the receipt, mark
\* processed" every event they insert.
RecordedIsProcessed ==
  \A e \in Events : (events[e] # Absent) ~> (events[e].status = "processed")

\* A delivery of an event that is on record, and that meets no fault, is not
\* answered 500: "If provider_event_id already exists, return 200 immediately".
DuplicateAnswered200 ==
  [][\A h \in Handlers :
       (events[ev[h]] # Absent /\ pc[h] # "500" /\ pc'[h] = "500") => faults' > faults]_vars
=============================================================================
