----------------------------- MODULE Donations -----------------------------
(***************************************************************************)
(* The giving endpoints (app/routers/donations.py) with the writes they    *)
(* make through app/services/ledger.py, the receipt they send and the      *)
(* provider they call.                                                     *)
(*                                                                         *)
(* Requests interleave at every await.  Each one is one PostgreSQL         *)
(* transaction at READ COMMITTED from its first SELECT to its commit: its  *)
(* rows are its own until then, but a donors row it inserted or updated is *)
(* locked, and a rival writer of the same e-mail address waits.            *)
(***************************************************************************)
EXTENDS Naturals, Gifts

CONSTANTS Requests,     \* the form submissions, retries included
          Asked,        \* what they may ask: a subset of Asks
          Settings,     \* the deployment, see Rails
          MaxFaults     \* bound on errors of the database, the mail server, the process

ASSUME AskedAssumption == Asked \subseteq Asks
ASSUME SettingsAssumption == Settings \subseteq SettingNames /\ Boots(Settings)
ASSUME MaxFaultsAssumption == MaxFaults \in Nat

VARIABLES req,          \* what each request asks
          pc,           \* where its handler is, or how it answered
          donors,       \* table donors, as committed
          ledger,       \* each request's rows in the other tables, as committed
          work,         \* each request's rows that are flushed and not committed
          holds,        \* the requests whose transaction wrote their donor's row
          orders,       \* the requests for which a provider opened an order
          mailed,       \* the requests whose receipt was sent
          faults        \* faults so far

vars == <<req, pc, donors, ledger, work, holds, orders, mailed, faults>>

Answered == {"200", "422", "500"}
InFlight == {"start", "select", "insert", "call", "subscribe", "activate",
             "event", "donate", "mark", "mail", "flush", "commit"}

\* A write of r's donor row waits for the end of a transaction that wrote it.
Locked(r) == \E q \in holds \ {r} : req[q].email = req[r].email

IsTest(r) == req[r].rail = "test"

-----------------------------------------------------------------------------
Init ==
  /\ req \in [Requests -> Asked]
  /\ pc = [r \in Requests |-> "start"]
  /\ donors = [m \in Emails |-> "absent"]
  /\ ledger = [r \in Requests |-> NoRows]
  /\ work = [r \in Requests |-> NoRows]
  /\ holds = {}
  /\ orders = {}
  /\ mailed = {}
  /\ faults = 0

\* An exception nothing catches: the session closes and rolls back, 500.
Abort(r) ==
  /\ pc' = [pc EXCEPT ![r] = "500"]
  /\ work' = [work EXCEPT ![r] = NoRows]
  /\ holds' = holds \ {r}

\* What the flush before a statement, or before COMMIT, does with the consent
\* assigned to the donor instance: an UPDATE of the donor's row, once.
WriteConsent(r) ==
  /\ req[r].consent => ~Locked(r)
  /\ holds' = IF req[r].consent THEN holds \union {r} ELSE holds

Goto(r, label) == pc' = [pc EXCEPT ![r] = label]

\* get_provider returns a provider.
Admit(r) ==
  /\ pc[r] = "start"
  /\ GetProvider(Settings, req[r].rail) = "ok"
  /\ Goto(r, "select")
  /\ UNCHANGED <<req, donors, ledger, work, holds, orders, mailed, faults>>

\* get_provider raises: ProviderNotConfigured is answered 422, anything else
\* (an SDK that cannot be imported, a mode without a host) 500.
Refuse(r) ==
  /\ pc[r] = "start"
  /\ GetProvider(Settings, req[r].rail) # "ok"
  /\ Goto(r, IF GetProvider(Settings, req[r].rail) = "ProviderNotConfigured"
             THEN "422" ELSE "500")
  /\ UNCHANGED <<req, donors, ledger, work, holds, orders, mailed, faults>>

\* _get_or_create_donor: SELECT by e-mail.
SelectDonor(r) ==
  /\ pc[r] = "select"
  /\ Goto(r, IF donors[req[r].email] = "absent" THEN "insert" ELSE "call")
  /\ UNCHANGED <<req, donors, ledger, work, holds, orders, mailed, faults>>

\* Faulty variant: donors.email has no unique index.
InsertDuplicateDonor(r) ==
  /\ pc[r] = "insert"
  /\ holds' = holds \union {r}
  /\ Goto(r, "call")
  /\ UNCHANGED <<req, donors, ledger, work, orders, mailed, faults>>

\* _get_or_create_donor: the donor was not there, add and flush.
InsertDonor(r) ==
  /\ pc[r] = "insert"
  /\ ~Locked(r)
  /\ donors[req[r].email] = "absent"
  /\ holds' = holds \union {r}
  /\ Goto(r, "call")
  /\ UNCHANGED <<req, donors, ledger, work, orders, mailed, faults>>

\* Faulty variant: the flush gives up when another transaction has the row.
DonorConflictNoWait(r) ==
  /\ pc[r] = "insert"
  /\ Locked(r) \/ donors[req[r].email] # "absent"
  /\ Abort(r)
  /\ UNCHANGED <<req, donors, ledger, orders, mailed, faults>>

\* A rival request of the same donor committed since the SELECT: the flush
\* raises IntegrityError.
DonorConflict(r) ==
  /\ pc[r] = "insert"
  /\ ~Locked(r)
  /\ donors[req[r].email] # "absent"
  /\ Abort(r)
  /\ UNCHANGED <<req, donors, ledger, orders, mailed, faults>>

\* provider.create_one_off / create_subscription returns.  The transaction,
\* and the donor's row if it was inserted, stays open during the call.
ProviderCreates(r) ==
  /\ pc[r] = "call"
  /\ CanCreate(req[r].kind, req[r].rail)
  /\ orders' = IF CallsOut(req[r].kind, req[r].rail) THEN orders \union {r} ELSE orders
  /\ Goto(r, IF req[r].kind = "subscription" THEN "subscribe"
             ELSE IF IsTest(r) THEN "event" ELSE "flush")
  /\ UNCHANGED <<req, donors, ledger, work, holds, mailed, faults>>

\* It raises: a declined or failed call, a rail without that operation.  The
\* provider may have opened the order before the call failed.
ProviderRaises(r) ==
  /\ pc[r] = "call"
  /\ CanRaise(req[r].kind, req[r].rail)
  /\ \/ UNCHANGED orders
     \/ /\ CallsOut(req[r].kind, req[r].rail)
        /\ orders' = orders \union {r}
  /\ Abort(r)
  /\ UNCHANGED <<req, donors, ledger, mailed, faults>>

\* Faulty variant: the pending subscription is committed before it is activated.
CommitPending(r) ==
  /\ pc[r] = "subscribe"
  /\ WriteConsent(r)
  /\ work' = [work EXCEPT ![r].sub = "pending"]
  /\ ledger' = [ledger EXCEPT ![r].sub = "pending"]
  /\ Goto(r, IF IsTest(r) THEN "activate" ELSE "commit")
  /\ UNCHANGED <<req, donors, orders, mailed, faults>>

\* create_subscription: add the subscription as pending and flush.
InsertSubscription(r) ==
  /\ pc[r] = "subscribe"
  /\ WriteConsent(r)
  /\ work' = [work EXCEPT ![r].sub = "pending"]
  /\ Goto(r, IF IsTest(r) THEN "activate" ELSE "commit")
  /\ UNCHANGED <<req, donors, ledger, orders, mailed, faults>>

\* ledger.activate_subscription.
ActivateSubscription(r) ==
  /\ pc[r] = "activate"
  /\ work' = [work EXCEPT ![r].sub = "active"]
  /\ Goto(r, "event")
  /\ UNCHANGED <<req, donors, ledger, holds, orders, mailed, faults>>

\* ledger.record_webhook_event with a fresh event id: its SELECT flushes the
\* consent and finds nothing, so the row is added.
RecordEvent(r) ==
  /\ pc[r] = "event"
  /\ WriteConsent(r)
  /\ work' = [work EXCEPT ![r].event = "received"]
  /\ Goto(r, "donate")
  /\ UNCHANGED <<req, donors, ledger, orders, mailed, faults>>

\* ledger.record_donation with a fresh payment id.
RecordDonation(r) ==
  /\ pc[r] = "donate"
  /\ work' = [work EXCEPT ![r].donation = "succeeded"]
  /\ Goto(r, "mark")
  /\ UNCHANGED <<req, donors, ledger, holds, orders, mailed, faults>>

\* Faulty variant: "failed if error" the wrong way round.
MarkFailed(r) ==
  /\ pc[r] = "mark"
  /\ work' = [work EXCEPT ![r].event = "failed"]
  /\ Goto(r, "mail")
  /\ UNCHANGED <<req, donors, ledger, holds, orders, mailed, faults>>

\* ledger.mark_event_processed.
MarkProcessed(r) ==
  /\ pc[r] = "mark"
  /\ work' = [work EXCEPT ![r].event = "processed"]
  /\ Goto(r, "mail")
  /\ UNCHANGED <<req, donors, ledger, holds, orders, mailed, faults>>

\* EmailService.send: the receipt, or the welcome with the link to cancel.
SendReceipt(r) ==
  /\ pc[r] = "mail"
  /\ mailed' = mailed \union {r}
  /\ Goto(r, "commit")
  /\ UNCHANGED <<req, donors, ledger, work, holds, orders, faults>>

\* A one-off gift of another rail than test flushes when it commits.
FlushConsent(r) ==
  /\ pc[r] = "flush"
  /\ WriteConsent(r)
  /\ Goto(r, "commit")
  /\ UNCHANGED <<req, donors, ledger, work, orders, mailed, faults>>

\* COMMIT takes effect: r's rows are durable, its locks are released.
TakesEffect(r) ==
  /\ pc[r] = "commit"
  /\ donors' = [donors EXCEPT ![req[r].email] = DonorAfter(req[r], @)]
  /\ ledger' = [ledger EXCEPT ![r] = work[r]]
  /\ work' = [work EXCEPT ![r] = NoRows]
  /\ holds' = holds \ {r}

\* Faulty variant: the commit is forgotten, the session stays open.
AnswerWithoutCommit(r) ==
  /\ pc[r] = "commit"
  /\ Goto(r, "200")
  /\ UNCHANGED <<req, donors, ledger, work, holds, orders, mailed, faults>>

Commit(r) ==
  /\ TakesEffect(r)
  /\ Goto(r, "200")
  /\ UNCHANGED <<req, orders, mailed, faults>>

-----------------------------------------------------------------------------
\* The connection is lost after COMMIT took effect and before the handler
\* heard of it: the gift is booked, the answer is 500.
CommitUnheard(r) ==
  /\ faults < MaxFaults
  /\ TakesEffect(r)
  /\ Goto(r, "500")
  /\ faults' = faults + 1
  /\ UNCHANGED <<req, orders, mailed>>

\* A statement, a commit or the mail server fails.  A message the server had
\* accepted is on its way all the same.
Fault(r) ==
  /\ faults < MaxFaults
  /\ pc[r] \in InFlight \ {"start", "call"}
  /\ \/ UNCHANGED mailed
     \/ pc[r] = "mail" /\ mailed' = mailed \union {r}
  /\ Abort(r)
  /\ faults' = faults + 1
  /\ UNCHANGED <<req, donors, ledger, orders>>

\* The process dies: every request in flight is lost with its transaction, and
\* its client sees an error.  Requests that come later meet the next process.
Crash ==
  /\ faults < MaxFaults
  /\ pc' = [r \in Requests |->
              IF pc[r] \in InFlight \ {"start"} THEN "500" ELSE pc[r]]
  /\ work' = [r \in Requests |-> NoRows]
  /\ holds' = {}
  /\ faults' = faults + 1
  /\ UNCHANGED <<req, donors, ledger, orders, mailed>>

-----------------------------------------------------------------------------
Step(r) ==
  \/ Admit(r) \/ Refuse(r)
  \/ SelectDonor(r) \/ InsertDonor(r) \/ DonorConflict(r)
  \/ ProviderCreates(r) \/ ProviderRaises(r)
  \/ InsertSubscription(r) \/ ActivateSubscription(r)
  \/ RecordEvent(r) \/ RecordDonation(r) \/ MarkProcessed(r) \/ SendReceipt(r)
  \/ FlushConsent(r) \/ Commit(r)

Next ==
  \/ \E r \in Requests : Step(r) \/ CommitUnheard(r) \/ Fault(r)
  \/ Crash

Spec == Init /\ [][Next]_vars

\* The event loop runs every handler that can run, the database answers, and a
\* provider call ends: httpx and the Stripe client both time out.
FairSpec == Spec /\ \A r \in Requests : WF_vars(Step(r))

-----------------------------------------------------------------------------
(***************************************************************************)
(* Properties.                                                             *)
(***************************************************************************)

TypeOK ==
  /\ req \in [Requests -> Asked]
  /\ pc \in [Requests -> Answered \union InFlight]
  /\ donors \in [Emails -> DonorRows]
  /\ ledger \in [Requests -> Entries]
  /\ work \in [Requests -> Entries]
  /\ holds \subseteq Requests
  /\ orders \subseteq Requests
  /\ mailed \subseteq Requests
  /\ faults \in 0..MaxFaults

\* A donor who got a 200 has, committed: the rows of the gift, complete; the
\* donor they belong to; the consent the form gave, whatever other requests of
\* the same donor wrote before or since.
AnswerIsTrue ==
  \A r \in Requests :
    pc[r] = "200" =>
      /\ ledger[r] = Booked(req[r])
      /\ donors[req[r].email] # "absent"
      /\ req[r].consent => donors[req[r].email] = "consented"

\* At no time have two open transactions written the row of one donor.
OneWriterPerDonor ==
  \A q, r \in holds : req[q].email = req[r].email => q = r

\* On the test rail, with nothing failing, a gift is refused for one reason: the
\* donor's first gift came in twice and the other one went through.
RefusedOnlyToARival ==
  \A r \in Requests :
    (pc[r] = "500" /\ IsTest(r) /\ faults = 0) =>
      \E q \in Requests \ {r} : req[q].email = req[r].email /\ pc[q] = "200"

\* r is at a statement that writes its donor's row, and another transaction has it.
Waits(r) ==
  /\ Locked(r)
  /\ \/ pc[r] = "insert"
     \/ pc[r] \in {"subscribe", "event", "flush"} /\ req[r].consent

\* Nobody waits for somebody who waits: who has the row a request waits for is
\* not done yet and waits for no row itself, though it may come back to its own
\* row after the call to the provider.
HolderIsFree ==
  \A r \in Requests :
    Waits(r) =>
      \E q \in holds \ {r} :
        req[q].email = req[r].email /\ pc[q] \in InFlight /\ ~Waits(q)

\* The receipts and the ledger agree on every answered request, unless something
\* failed: a payment that is booked was confirmed by mail, and one that was
\* confirmed is booked, although the mail goes out before the commit.
ReceiptsMatch ==
  faults = 0 =>
    \A r \in Requests :
      pc[r] \in Answered => (r \in mailed <=> ledger[r].donation = "succeeded")

\* The requests implement the book of gifts.
Book == INSTANCE GiftBook
          WITH entry <- ledger,
               answer <- [r \in Requests |->
                            IF pc[r] \in InFlight THEN "none"
                            ELSE IF pc[r] = "200" THEN "accepted" ELSE "failed"]

BookSpec == Book!Spec

\* Every request is answered: no set of requests waits for each other's donor
\* rows for ever, whatever fails.
EveryRequestAnswered == \A r \in Requests : <>(pc[r] \in Answered)

\* "Thank you for your gift ... Keep this email as your receipt" goes to donors
\* whose gift is in the ledger once the request is over.
ReceiptIsTrue ==
  \A r \in mailed : pc[r] \in Answered => ledger[r].donation = "succeeded"
=============================================================================
