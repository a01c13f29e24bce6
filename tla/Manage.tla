------------------------------- MODULE Manage -------------------------------
(***************************************************************************)
(* The donors' manage page (app/routers/subscriptions.py): the signed link *)
(* is the credential (app/services/tokens.py), PATCH changes the amount,   *)
(* DELETE cancels at the provider, then in the database.  The provider     *)
(* starts and ends its agreements by itself, and nothing here follows it:  *)
(* _handle (webhooks.py) touches no subscription.                          *)
(*                                                                         *)
(* A request reads its row once, in its first statement, and acts on that  *)
(* instance; the row is locked from its UPDATE to its commit only.         *)
(* SQLAlchemy's UPDATE names the columns whose value changed since that    *)
(* read, and none is sent when nothing did.                                *)
(***************************************************************************)
EXTENDS Subscriptions

CONSTANTS Requests,     \* the requests to the page, retries included
          Asked,        \* what they may ask: a subset of Asks
          Settings,     \* the deployment, see Rails
          MaxFaults     \* bound on errors of the database, the mail server, the process

ASSUME AskedAssumption == Asked \subseteq Asks
ASSUME SettingsAssumption == Settings \subseteq SettingNames /\ Boots(Settings)
ASSUME MaxFaultsAssumption == MaxFaults \in Nat

VARIABLES req,          \* what each request asks
          pc,           \* where its handler is, or how it answered
          subs,         \* table subscriptions, as committed
          held,         \* the row each request acts on, and the amount it read
          holds,        \* the requests whose transaction updated their row
          expired,      \* the links past their 90 days
          agreement,    \* what the provider has for each subscription
          raised,       \* the requests whose call to the provider raised
          mailed,       \* the requests whose confirmation was sent
          faults        \* faults so far

vars == <<req, pc, subs, held, holds, expired, agreement, raised, mailed, faults>>

Answered == {"200", "404", "500"}
InFlight == {"start", "update", "cancel", "row", "mail", "commit"}

\* No row is held yet.
Nothing == [sub |-> "none", amount |-> 0]

Locked(r) == \E q \in holds \ {r} : held[q].sub = held[r].sub

Goto(r, label) == pc' = [pc EXCEPT ![r] = label]

-----------------------------------------------------------------------------
\* No request has begun.
Fresh ==
  /\ req \in [Requests -> Asked]
  /\ pc = [r \in Requests |-> "start"]
  /\ held = [r \in Requests |-> Nothing]
  /\ holds = {}
  /\ expired = {}
  /\ raised = {}
  /\ mailed = {}
  /\ faults = 0

Init ==
  /\ Fresh
  /\ subs = [s \in Subs |-> NoRow]
  /\ agreement = [s \in Subs |-> "none"]

\* create_subscription commits a subscription.
Open(s) ==
  /\ subs[s].status = "absent"
  /\ \E row \in NewRows(s) : subs' = [subs EXCEPT ![s] = row]
  /\ UNCHANGED <<req, pc, held, holds, expired, agreement, raised, mailed, faults>>

\* The donor completes the provider's checkout, sooner or later: from now on
\* the provider charges.
Agree(s) ==
  /\ subs[s].status # "absent"
  /\ agreement[s] = "none" /\ BUILDERS[RailOf[s]].subscription = "remote"
  /\ agreement' = [agreement EXCEPT ![s] = "charging"]
  /\ UNCHANGED <<req, pc, subs, held, holds, expired, raised, mailed, faults>>

\* The provider ends it of its own accord: payments fail for good, somebody
\* cancels on its dashboard, a checkout page is not completed in time.
End(s) ==
  /\ subs[s].status # "absent"
  /\ agreement[s] # "ended" /\ BUILDERS[RailOf[s]].subscription = "remote"
  /\ agreement' = [agreement EXCEPT ![s] = "ended"]
  /\ UNCHANGED <<req, pc, subs, held, holds, expired, raised, mailed, faults>>

\* A link gets 90 days old.
Expire(l) ==
  /\ l \notin expired
  /\ expired' = expired \union {l}
  /\ UNCHANGED <<req, pc, subs, held, holds, agreement, raised, mailed, faults>>

-----------------------------------------------------------------------------
\* verify_manage_token returns a donor.
Verified(r) == req[r].link \in Links \ expired

\* Faulty variant: subscriptions of any donor.
FoundOfAnyone(r) == {s \in Subs : subs[s].status \notin {"absent", "cancelled"}}

\* The rows _donor_subscriptions selects.
Found(r) == {s \in Named(req[r]) : subs[s].status \notin {"absent", "cancelled"}}

\* The link is bad, or there is nothing to change or cancel.
NotFound(r) ==
  /\ pc[r] = "start"
  /\ ~Verified(r) \/ (req[r].op # "get" /\ Found(r) = {})
  /\ Goto(r, "404")
  /\ UNCHANGED <<req, subs, held, holds, expired, agreement, raised, mailed, faults>>

\* GET answers with the rows found, none included.
Show(r) ==
  /\ pc[r] = "start" /\ req[r].op = "get" /\ Verified(r)
  /\ Goto(r, "200")
  /\ UNCHANGED <<req, subs, held, holds, expired, agreement, raised, mailed, faults>>

\* PATCH and DELETE take the first row found, of a SELECT without ORDER BY.
Load(r) ==
  /\ pc[r] = "start" /\ req[r].op # "get" /\ Verified(r)
  /\ \E s \in Found(r) :
       held' = [held EXCEPT ![r] = [sub |-> s, amount |-> subs[s].amount]]
  /\ Goto(r, IF req[r].op = "patch" THEN "update" ELSE "cancel")
  /\ UNCHANGED <<req, subs, holds, expired, agreement, raised, mailed, faults>>

\* change_amount: the flush of its commit.
UpdateAmount(r) ==
  /\ pc[r] = "update"
  /\ \/ req[r].amount = held[r].amount /\ UNCHANGED holds
     \/ req[r].amount # held[r].amount /\ ~Locked(r) /\ holds' = holds \union {r}
  /\ Goto(r, "commit")
  /\ UNCHANGED <<req, subs, held, expired, agreement, raised, mailed, faults>>

\* The provider is constructed, which fails for a rail that is off by now, and
\* asked to cancel.  That ends no agreement: the test rail has none, and Stripe's
\* call raises (see Rails).
AtProvider(r) ==
  \/ CancelCanReturn(Settings, RailOf[held[r].sub]) /\ UNCHANGED raised
  \/ CancelCanRaise(Settings, RailOf[held[r].sub]) /\ raised' = raised \union {r}

\* Faulty variant: an exception of the provider is not caught.
ProviderErrorEscapes(r) ==
  /\ pc[r] = "cancel"
  /\ AtProvider(r)
  /\ Goto(r, IF r \in raised' THEN "500" ELSE "row")
  /\ UNCHANGED <<req, subs, held, holds, expired, agreement, mailed, faults>>

\* Faulty variant: the subscription is left alone when the provider failed.
ReturnOnProviderError(r) ==
  /\ pc[r] = "cancel"
  /\ AtProvider(r)
  /\ Goto(r, IF r \in raised' THEN "200" ELSE "row")
  /\ UNCHANGED <<req, subs, held, holds, expired, agreement, mailed, faults>>

\* cancel: the provider is told; whatever it or its constructor raises is
\* ignored.
CancelAtProvider(r) ==
  /\ pc[r] = "cancel"
  /\ AtProvider(r)
  /\ Goto(r, "row")
  /\ UNCHANGED <<req, subs, held, holds, expired, agreement, mailed, faults>>

\* ledger.cancel_subscription_row.
CancelRow(r) ==
  /\ pc[r] = "row"
  /\ ~Locked(r)
  /\ holds' = holds \union {r}
  /\ Goto(r, "mail")
  /\ UNCHANGED <<req, subs, held, expired, agreement, raised, mailed, faults>>

\* cancel: look up the donor, whom a foreign key keeps, and send the
\* confirmation.
SendConfirmation(r) ==
  /\ pc[r] = "mail"
  /\ mailed' = mailed \union {r}
  /\ Goto(r, "commit")
  /\ UNCHANGED <<req, subs, held, holds, expired, agreement, raised, faults>>

\* Faulty variant: the UPDATE names every column.
WholeRow(r, row) ==
  IF req[r].op = "patch" THEN ChangedRow(row, req[r].amount)
  ELSE CancelledRow(ChangedRow(row, held[r].amount))

\* Faulty variant: status failed is written.
FailedRow(r, row) ==
  IF req[r].op = "patch" THEN ChangedRow(row, req[r].amount)
  ELSE [row EXCEPT !.status = "failed"]

\* The row after r's UPDATE of it.
UpdatedRow(r, row) ==
  IF req[r].op = "patch" THEN ChangedRow(row, req[r].amount) ELSE CancelledRow(row)

\* COMMIT takes effect: r's UPDATE, if there was one, is durable.
TakesEffect(r) ==
  /\ pc[r] = "commit"
  /\ subs' = IF r \in holds THEN [subs EXCEPT ![held[r].sub] = UpdatedRow(r, @)] ELSE subs
  /\ holds' = holds \ {r}

\* Faulty variant: the commit is forgotten, the session stays open.
AnswerWithoutCommit(r) ==
  /\ pc[r] = "commit"
  /\ Goto(r, "200")
  /\ UNCHANGED <<req, subs, held, holds, expired, agreement, raised, mailed, faults>>

Commit(r) ==
  /\ TakesEffect(r)
  /\ Goto(r, "200")
  /\ UNCHANGED <<req, held, expired, agreement, raised, mailed, faults>>

-----------------------------------------------------------------------------
\* The connection is lost after COMMIT took effect and before the handler
\* heard of it.
CommitUnheard(r) ==
  /\ faults < MaxFaults
  /\ TakesEffect(r)
  /\ Goto(r, "500")
  /\ faults' = faults + 1
  /\ UNCHANGED <<req, held, expired, agreement, raised, mailed>>

\* A statement, a commit or the mail server fails: 500, rolled back.  A message
\* the server had accepted is on its way all the same.
Fault(r) ==
  /\ faults < MaxFaults
  /\ pc[r] \in InFlight \ {"cancel"}
  /\ pc[r] = "start" => Verified(r)
  /\ \/ UNCHANGED mailed
     \/ pc[r] = "mail" /\ mailed' = mailed \union {r}
  /\ Goto(r, "500")
  /\ holds' = holds \ {r}
  /\ faults' = faults + 1
  /\ UNCHANGED <<req, subs, held, expired, agreement, raised>>

\* The process dies with every request in it.
Crash ==
  /\ faults < MaxFaults
  /\ pc' = [r \in Requests |->
              IF pc[r] \in InFlight \ {"start"} THEN "500" ELSE pc[r]]
  /\ holds' = {}
  /\ faults' = faults + 1
  /\ UNCHANGED <<req, subs, held, expired, agreement, raised, mailed>>

-----------------------------------------------------------------------------
Step(r) ==
  \/ NotFound(r) \/ Show(r) \/ Load(r)
  \/ UpdateAmount(r)
  \/ CancelAtProvider(r) \/ CancelRow(r) \/ SendConfirmation(r)
  \/ Commit(r)

Next ==
  \/ \E r \in Requests : Step(r) \/ CommitUnheard(r) \/ Fault(r)
  \/ \E s \in Subs : Open(s) \/ Agree(s) \/ End(s)
  \/ \E l \in Links : Expire(l)
  \/ Crash

Spec == Init /\ [][Next]_vars

\* The event loop runs every handler that can run, the database answers, and a
\* provider call ends: httpx and the Stripe client both time out.
FairSpec == Spec /\ \A r \in Requests : WF_vars(Step(r))

-----------------------------------------------------------------------------
(***************************************************************************)
(* Properties.                                                             *)
(***************************************************************************)

TypeOK ==
  /\ req \in [Requests -> Asked]
  /\ pc \in [Requests -> Answered \union InFlight]
  /\ subs \in [Subs -> Rows]
  /\ held \in [Requests -> [sub : Subs, amount : Amounts] \union {Nothing}]
  /\ holds \subseteq Requests
  /\ expired \subseteq Links
  /\ agreement \in [Subs -> {"none", "charging", "ended"}]
  /\ raised \subseteq Requests
  /\ mailed \subseteq Requests
  /\ faults \in 0..MaxFaults

\* A donor told that the gift is cancelled, by a 200 or, while nothing fails, by
\* the message, has it cancelled, whatever is written to its row before or
\* after.
CancelIsTrue ==
  \A r \in Requests :
    (req[r].op = "delete" /\ pc[r] = "200") \/ (r \in mailed /\ pc[r] \in Answered /\ faults = 0) =>
      subs[held[r].sub].status = "cancelled"

\* Another change of r's gift went through, or failed unheard.
Overtaken(r) ==
  \E q \in Requests \ {r} :
    /\ req[q].op = "patch" /\ held[q].sub = held[r].sub
    /\ pc[q] = "200" \/ (pc[q] = "500" /\ faults > 0)

\* A donor told that the amount is changed finds that amount, unless another
\* change of the same gift went through, or failed unheard.  No cancellation
\* brings an earlier amount back.
ChangeIsTrue ==
  \A r \in Requests :
    req[r].op = "patch" /\ pc[r] = "200" =>
      subs[held[r].sub].amount = req[r].amount \/ Overtaken(r)

\* The page fails only when the database, the mail server or the process does:
\* never because of the provider, of a rail that is off by now, or of another
\* request for the same gift.
FailsOnlyOnFault == faults = 0 => \A r \in Requests : pc[r] # "500"

\* The requests implement the donors' view of their monthly gifts.
View == INSTANCE Pledges
          WITH answer <- [r \in Requests |->
                            IF pc[r] \in InFlight THEN "none"
                            ELSE IF pc[r] = "200" THEN "done" ELSE "failed"]

PledgeSpec == View!Spec

\* Every request is answered, whatever other requests hold its row.
EveryRequestAnswered == \A r \in Requests : <>(pc[r] \in Answered)

\* "Cancellation must work in one click": a DELETE that found a gift cancels
\* it, whatever the provider does, unless something else fails.
OneClickCancels ==
  \A r \in Requests, s \in Subs :
    (req[r].op = "delete" /\ held[r].sub = s) ~> (subs[s].status = "cancelled" \/ faults > 0)

\* "Your monthly gift has been cancelled, as requested.  No further charges will
\* be made": once the request went through, the provider does not charge for
\* the gift.
NoFurtherCharges ==
  \A r \in mailed : pc[r] = "200" => agreement[held[r].sub] # "charging"
=============================================================================
