# The Bridge of Hope backend, specified

TLA+ specifications of the donation backend in `src/`: what its concurrent
requests, transactions and webhook deliveries may do, checked with TLC on small
instances and, for the core, proved with TLAPS for instances of any size.

- [The system](#the-system) – inventory
- [Modules](#modules) – which module models what, and how to read it
- [Runs](#runs) – what is checked, with which bounds
- [Fairness](#fairness)
- [Proofs](#proofs)
- [Where the code and its documentation part](#where-the-code-and-its-documentation-part)
- [Not modelled](#not-modelled)
- [Plan](#plan)

To check everything by hand: `tlc -config MCWebhooks_safety.cfg MCWebhooks` and
so on for each `.cfg` (the module is the part of its name before the `_`), and
`tlapm X.tla` for each `X` whose name ends in `Proofs`, and for `Conversions`.

## The system

A FastAPI application, one uvicorn process, over a PostgreSQL database. Every
HTTP request runs as a coroutine with an `AsyncSession` of its own, that is one
database transaction at READ COMMITTED from its first statement to its commit;
coroutines interleave at every `await`. All durable state is in the database.

| component | state it keeps | operations | talks to | what is hard about it | what makes it correct |
|---|---|---|---|---|---|
| webhook intake (`routers/webhooks.py`) | `webhook_events` | one POST per provider route: verify, record, process | providers (deliver, redeliver), ledger | concurrent duplicates, two commits with a gap between them, 200 means "do not send again" | an event is processed once; a 200 is given only for a recorded event; a recorded event gets processed |
| giving endpoints (`routers/donations.py`) | `donors`, `donations`, `subscriptions`, `webhook_events` | `POST /donations/one-off`, `POST /subscriptions` | rails, ledger, e-mail | select-then-insert of the donor, a row locked across a call to a provider, a receipt sent before the commit, orders opened for requests that then fail | a gift is written whole or not at all; a 200 is true; every request ends |
| ledger (`services/ledger.py`) | none of its own | record event, mark processed, record donation, activate, cancel | database | idempotency by select-then-insert | no event or payment is booked twice |
| rails (`payments/`) | M-Pesa token cache, never reused | create a gift, cancel, verify a webhook | Stripe, PayPal, Daraja | remote calls that fail after they took effect; rails without some operation | a rail that boots can be constructed |
| configuration, startup (`config.py`, `main.py`, `db.py`) | settings, connection pool | validate, connect with retries | database | incomplete settings, cold starts | an enabled rail has what it needs |
| e-mail (`services/email.py`) | none | send | SMTP | synchronous; may fail after the message was accepted | a message says what is true |
| donor self-service (`routers/subscriptions.py`, `services/tokens.py`) | `subscriptions` | list, change the amount, cancel | rails, ledger, e-mail | stale reads, a provider that fails to cancel is ignored | cancelled is final; what the donor is told about charges is true |
| newsletter, posts, data requests (`routers/content.py`) | `donors`, `posts`, `data_requests` | subscribe, unsubscribe, read posts, ask for data | database | column-wise writes of a stale read | the consent record is the one that was given |
| admin API (`routers/admin.py`, `services/admin_auth.py`) | `admin_users`, login attempts in memory | login, listings, edit posts | database | sliding window, restarts, deactivation during a session | no more than five attempts in any window |
| fee estimate (`services/fx.py`) | none | a pure function | none | rounding | |
| migration, seed script | schema, test data | the first applied by the Dockerfile at each start, the second run by hand | database | | |

## Modules

| module | models | kind |
|---|---|---|
| `Rails` | `payments/*`, the validation in `config.py` | operators, no state |
| `RailsProofs` | theorems about `Rails` | proofs |
| `EventIntake` | what the webhook endpoints promise a provider | abstract specification |
| `Webhooks` | `routers/webhooks.py` over `ledger.record_webhook_event` and `mark_event_processed` | detailed; implements `EventIntake` |
| `WebhooksProofs` | theorems about `Webhooks` | proofs |
| `MCWebhooks` | constants of the TLC runs of `Webhooks` | model |
| `Gifts` | what a form asks and which rows a gift is | operators |
| `GiftBook` | what a donor is entitled to see of the books | abstract specification |
| `Donations` | `routers/donations.py` with the ledger writes, the e-mail and the provider call | detailed; implements `GiftBook` |
| `DonationsProofs` | theorems about `Donations` | proofs |
| `MCDonations` | constants of the TLC runs of `Donations` | model |
| `Subscriptions` | a row of `subscriptions`, what the manage page can be asked, whom a link names (`services/tokens.py`) | operators |
| `Pledges` | a monthly gift as its donor is entitled to see it | abstract specification |
| `Manage` | `routers/subscriptions.py` with `ledger.cancel_subscription_row`, the provider call and the confirmation | detailed; implements `Pledges` |
| `ManageProofs` | theorems about `Manage` | proofs |
| `MCManage` | constants of the TLC runs of `Manage` | model |
| `Register` | what one may expect of a value that requests change: an atomic register | abstract specification |
| `Donors` | the consent columns of a donor and the requests that read or write them | operators |
| `Consent` | `routers/content.py` (newsletter, data requests) with the consent of the give forms | detailed; implements `Register` |
| `ConsentProofs` | theorems about `Consent` | proofs |
| `MCConsent` | constants of the TLC run of `Consent` | model |
| `Limiter` | `RateLimiter` of `services/admin_auth.py` | state machine, extended by `Admin` |
| `Posts` | a row of `posts`, what an administrator asks of it | operators |
| `Admin` | `routers/admin.py` over `Limiter` and `Posts`, with the sessions of `services/admin_auth.py` | detailed; implements `Register` |
| `AdminProofs` | theorems about `Admin` and `Limiter` | proofs |
| `MCAdmin` | constants of the TLC run of `Admin` | model |
| `Conversions` | `services/fx.py`, the amounts and phone numbers of `mpesa_provider.py` | operators, with theorems |

**How a transaction is modelled.** One action per statement the coroutine
awaits; the committed tables are variables (`events`; `donors`, `ledger`), what
a transaction has flushed is kept apart (`row`; `work`, `holds`) and reaches
the committed tables at its commit. An INSERT under a unique index, or an
UPDATE, of a row that another open transaction has written is not enabled until
that transaction ends (`Locked`); an INSERT that finds the key committed by then
raises `IntegrityError` (`InsertConflict`, `DonorConflict`), which nothing in
the code catches, so the request rolls back and is answered 500. SELECTs see
committed rows only.

**What may fail.** Up to `MaxFaults` times: a statement or a commit raises
(`Fault`); the commit takes effect and its reply is lost (`CommitUnheard`); the
process dies with every request in it and is started again (`Crash`). A call to
a remote provider may raise at any time, not counted, and then may have opened
the order or not (`ProviderRaises`). An e-mail may have gone out although the
send raised.

**`Webhooks`.** `pc[h]` is the point of `_handle` that request `h` has reached:
`select` → (`retry` → answered) or `insert` → `commit` → `mark` → `commit_mark`
→ answered. `ev[h]` is the event it delivers, `row[h]` the ORM instance it
holds, which survives the first commit because the sessions are made with
`expire_on_commit=False`. A delivery carries an event, a route and the key it was
signed with (`SigningKeys`): the provider signs what it emitted with its secret,
and anybody may send anything under another key. `verify_webhook` compares with
the secret of the settings, or, where that was left unset, with the empty key. A handler that has answered may take the next
delivery, so there is no bound on the number of deliveries. `Fault` covers
the `except` clause: after a failed flush or commit a session raises on every
use until it is rolled back, which the clause does not do, so its own
`mark_event_processed` raises and the status `failed` is never written.

**`Donations`.** `req[r]` is what request `r` asks (endpoint, provider name,
address, consent), chosen at the start. `pc[r]` walks through the endpoint:
`start` → `select` → (`insert`) → `call` → then for a monthly gift `subscribe`
and, on the test rail, `activate`; for gifts of the test rail `event` →
`donate` → `mark` → `mail`; for one-off gifts of other rails `flush`; and
`commit`. The consent is assigned to the donor instance early but written by
the flush that precedes the next statement (`WriteConsent`), which is where the
row lock is taken. Payment, subscription and event ids are minted for the
request (`secrets.token_hex`, the provider's own ids), so a request's rows are
keyed by the request, and the SELECTs of `record_webhook_event` and
`record_donation` find nothing. Each request is made once; a donor who tries
again is another element of `Requests`.

**`Manage`.** `req[r]` is an operation, a link and, for PATCH, an amount.
`Load` is the SELECT of `_donor_subscriptions`, which has no ORDER BY: the row
the request acts on is any live one of the link's donor, and `held[r]` keeps
it with the amount it had then. PATCH goes `update` → `commit`, DELETE `cancel`
→ `row` → `mail` → `commit`. An UPDATE writes only the column whose value
changed since `Load` (`UpdatedRow`), and a PATCH to the amount it read writes
nothing and waits for nobody. `holds` are the requests whose UPDATE has locked
their row. `agreement[s]` is the provider's side: it starts to charge when the
donor completes its checkout page (`Agree`), possibly after the gift was cancelled here,
and stops when the provider sees fit (`End`: failed payments, its dashboard, a
checkout page that expires); neither is followed by anything in the database. The
call that the page makes ends nothing: Stripe is asked to delete a subscription by
the id that `create_subscription` stored, which is the checkout session's, so the
call raises, and `raised` records whose did. A link names a donor. It is mailed with
a monthly gift on the test rail only (`donations.py:136-158`), and serves for all
gifts she has; a donor with Stripe gifts alone has no link. A link goes
bad at any time (`Expire`); `"forged"` stands for anything not signed with the
secret key. Subscriptions are opened by `Donations`; here that is the action
`Open`. Statuses that nothing writes (`past_due`, `failed`) do not occur.

**`Consent`.** Five kinds of request write, or look at, the consent columns of a
`donors` row: subscribe, unsubscribe, a data request and the two give forms. Each
loads the row (`seen[r]`), assigns to the instance (`Assigned`) and writes it
later (`Flush`): of a donor it loaded only the columns whose value changed, so
that two requests can each contribute columns to one record. `at` is
`consent_recorded_at`, represented by the request that took the time; `source` is
`consent_source`. A request that adds a donor waits for a rival that is adding
the same one, and then fails if that one went through. `holds` are the
transactions that wrote the row. On a give form the row is inserted before the
call to the provider and the consent written after it. What else a gift does is
in `Donations`; here its statements between the call and the last flush of the
donor are one step.

**`Admin`.** A login goes `start` (the limiter) → `select` → `stamp` → `commit`
and then issues a token; every other request `start` (its token) → `admit` (its
account) → `get` and `write` → `commit` if it edits a post. `req[r].cookie` names
the login that issued the token, or an account for a session from before;
`issued` is when. `checked[r]` is when the request looked at the clock. A post is
named by the request that creates it; `date` is `published_at`, by the request
that took the time. An edit is flushed by its commit: it waits for a transaction
that wrote the same row, or wrote or left the same slug (`Waits`); it raises when
the slug is another post's (`SlugTaken`) or the row it loaded is gone (`Gone`,
SQLAlchemy's `StaleDataError`). `Deactivate` is an operator at the database: no
code in `src/` writes `is_active`. `Crash` empties the limiter (`Forget`) and
leaves the sessions, which are signed and kept nowhere. Logout tells the browser
to drop its cookie and does nothing else, so it is no action.

**`Limiter`.** `hits` is what `RateLimiter` remembers, `accepted` what it accepted
since the process started: the property compares the two. `check` has no `await`,
so that a call is one step. The clock goes forward only; the code reads the wall
clock, and a clock that is set back makes the window longer.

**`Conversions`.** Pure functions, with their theorems in the module.

**The abstract specifications.** `EventIntake`: an event the provider really
emitted goes unknown → received → processed, a stage at a time, and is
acknowledged only once recorded. `GiftBook`: a gift is entered with all its rows,
its donor and the consent in one step, while nobody was told anything of it;
"accepted" is only said of a gift in the book. `Pledges`: a monthly gift is opened once, changed
or cancelled in one step by a request with its donor's link that has not been
answered, and a cancelled gift stays cancelled. `Register`: each request changes
the value it is about at one moment between being made and being answered, one
that fails at most so, and nothing else changes it. `Consent` implements it for
what a donor agreed to (absent, off, on), `Admin` for what is shown of a post
(absent, draft, live). The moment is the commit, except for a request that reads
the value it is about to write: its flush leaves the column alone, so it takes
effect where it reads (`Effective`). `Webhooks!Intake`, `Donations!Book`,
`Manage!View`, `Consent!Choice` and `Admin!Publication` give the refinement
mappings.

Definitions marked *faulty variant* in the modules are not part of a model: each
is a plausible bug, written down to show that a property would notice it.

## Runs

| run | instance | shows |
|---|---|---|
| `webhooks_safety` | 3 handlers, 2 emitted events and one nobody emitted, deliveries signed with any key, 2 faults; Stripe on, PayPal on (rejects), M-Pesa and Bitcoin off | `AckedIsRecorded`, `SoleOwner`, `ProcessedOnce`, that only a fault leaves an event behind (`LeftOnlyByFault`) and nothing takes it up again (`StaysBehind`), and that the handlers implement `EventIntake` |
| `webhooks_liveness` | 2 handlers, 2 events, 2 faults | every emitted event is acknowledged in the end; without a fault a recorded event is processed |
| `webhooks_stranded` | 2 handlers, 1 event, 1 fault | **violation** of `RecordedIsProcessed` |
| `webhooks_duplicate` | 2 handlers, 1 event, no fault | **violation** of `DuplicateAnswered200` |
| `donations_safety` | 3 requests, every provider name, endpoint and consent for one donor, a second donor, 1 fault; Stripe and Bitcoin construct, M-Pesa off (422), PayPal misconfigured (500) | `AnswerIsTrue`, `OneWriterPerDonor`, `RefusedOnlyToARival`, that nobody waits for somebody who waits (`HolderIsFree`), that receipts and ledger agree unless something failed (`ReceiptsMatch`), and that the requests implement `GiftBook` |
| `donations_liveness` | 3 requests of one donor that hold her row, 1 fault | every request is answered |
| `donations_receipt` | 2 one-off test gifts, 1 fault | **violation** of `ReceiptIsTrue` |
| `manage_safety` | 3 requests (GET, PATCH to either amount, DELETE, a forged link), a donor with a test and a Stripe gift, another donor, 2 amounts, 1 fault | `CancelIsTrue`, `ChangeIsTrue`, `FailsOnlyOnFault`, and that the page implements `Pledges` |
| `manage_liveness` | 3 PATCHes and DELETEs of one Stripe gift, 1 fault | every request is answered; a DELETE that found a gift cancels it unless something other than the provider fails |
| `manage_charges` | 1 DELETE by a donor who cancelled her test gift earlier and whose Stripe gift is being charged for (`ChargedSpec`), no fault | **violation** of `NoFurtherCharges` |
| `consent` | 3 requests of one donor, of every kind and tick, over three rows there may be before (none, consented, consented and unsubscribed), 1 fault | `ConsentIsGiven`, `ComesBackByConsent`, `TornOnlyByOvertaking`, `RefusedOnlyToARival`, that every request is answered, and that what a donor agreed to is an atomic register |
| `admin` | 3 requests: three attempts to log in from one or two clients; a login and two uses of its token, of an earlier one or of none; three edits of a post; limit 2 in a window of 2, sessions of age 1, a clock of 3 ticks, 1 deactivation, 1 fault | `WithinLimit`, `RefusedOnlyWhenFull`, `EntryIsEarned`, `DeactivatedIsOut`, `DateIsKept`, `SlugsAreUnique`, and that what is shown of a post is an atomic register |

*Bounds.* Three concurrent actors are enough for every race here: one that
holds a row, one that waits for it and one that arrives between the two. Two
events show that deliveries of different events do not disturb each other; a
second donor does the same for gifts. Two faults allow a crash followed by a
failed retry. `MaxFaults` is the only bound on behaviour; the requests of
`Donations` and `Manage` are finite in number, so their runs end and do not
check for deadlock (waiting for ever is excluded by `EveryRequestAnswered`).
In `admin`, the mixes of requests are those that can meet: logins meet logins at
the limiter, a token meets its login, a publication meets every other edit and
itself. All mixes at once would not end within minutes; the theorems of
`AdminProofs` hold for every mix. A limit of 2 is the
least that tells "full" from "one attempt"; a window of 2 in a time of 0 to 2 lets
attempts grow old; an age of 1 lets a session end within the run. Posts have two
slugs, so that a rename can collide with a creation, and one account suffices, as
no request touches two.
Two amounts suffice to tell a change from none and an old value from a new one. Requests and handlers
are symmetric in the runs without liveness properties. The theorems below hold
without any of these bounds.

## Fairness

`Webhooks!Fairness`: weak fairness of each handler's steps (the event loop runs
what can run, the database answers), and strong fairness of the redelivery of
an event that was never answered 200. A provider does redeliver what it got no
200 for; strong fairness is needed only because the model serves a bounded
number of requests at a time, so that a redelivery may find all of them busy
again and again. No fairness is assumed of faults, of deliveries that
the provider did not sign or of repeated deliveries after a 200.

`Donations!FairSpec`: weak fairness of each request's steps. That a call to a
provider ends is what the time-outs of httpx (5 s) and of the Stripe client
guarantee; it may end by raising. Lock waits need no assumption of their own:
each transaction writes the row of one donor only, so no cycle of waits exists:
`HolderIsFree` and the theorem `SomebodyMoves` say so. `Manage!FairSpec` is the same, for the same reasons; a
transaction of the page writes one subscription only. Nothing is assumed of the
donor's checkout, of the provider's endings, of links or of new subscriptions. `Consent!FairSpec` is the same
again: a transaction writes one donor. `Admin` states no fairness: its properties
are about what may never happen, and its clock may stand still; that its requests
cannot be stuck either is the theorem `SomebodyMoves` of `AdminProofs`.

## Proofs

All theorems hold for any sets of events, requests, handlers and addresses, any
deployment that boots, and any number of faults. The assumptions are the ones
the modules name: the events emitted are among the events, the requests ask
things that can be asked, the settings are known ones and pass the boot check,
`MaxFaults` is a natural number. TLC evaluates them in every run. Two theorems,
which rest on signatures, name one condition more (`SecretIsSet`). Every
invariant and every action property that a passing run checks, and each of the
five refinements, is a theorem.

### `WebhooksProofs`

`SoleOwner` and `AckedIsRecorded` are not inductive: nothing in them says why a
handler's COMMIT leaves a row behind or why a second INSERT is impossible.
`IInv` adds `HandlerKnows`: from its INSERT on, a handler knows the committed row
exactly (absent, then received), because nobody else can write it. Its
preservation is proved action by action; one step lemma covers both commits and
the commit whose reply is lost. From it follow `TypeCorrect`, `Exclusive`
(`SoleOwner`), `AckAfterRecord` (`AckedIsRecorded`), `ProcessedOnceHolds`
(`ProcessedOnce`, through a lemma that only commits change the table). None of them
rests on signatures.

What becomes of a recorded event is said exactly. `NoneLeftBehind`
(`LeftOnlyByFault`): as long as nothing fails, an event on record is processed
or in the hands of the handler that recorded it. `NoneTakenUp` (`StaysBehind`) and
`LeftForEver`: one that a fault left behind stays so through every later
delivery, so that the counterexample of `webhooks_stranded` is not a delay.

The refinement does rest on signatures. `ImplementsIntake` (`IntakeSpec`), and
`OnlyEmittedOnRecord`, which is read off `EventIntake`, have the hypothesis
`SecretIsSet`: a deployment with Stripe on was given `STRIPE_WEBHOOK_SECRET`. The
boot does not ask for it, and without it the signature is checked with the empty
key (`BootsDeaf`), so neither holds then. The lemma in between is `OnlyGenuine`:
with the secret, what is being handled was emitted. `OnlyStripeIsHeard` needs no
hypothesis: a deployment that cannot construct the Stripe provider records
nothing, since the other rails' `verify_webhook` returns False.

### `DonationsProofs`

`IInv` adds to the properties `Written` (which rows a transaction has flushed at
each point; at `commit` they are exactly `Booked`), `Holding` (who can hold a
donor's row) and `OnFileByGift` (without faults a donor is on file because of a
gift that went through). Three lemmas, `Advance`, `Rollback` and `Durable`, say
what a step of each kind preserves, and every action is an instance of one. From
it follow `TypeCorrect`, `AnswersAreTrue`, `WritersExclude`, `RefusedToARival`
and `ImplementsBook` (the refinement: commits enter the gift, errors and crashes
fail, all else is invisible).

- *Waiting.* `HoldersAreFree` (`HolderIsFree`): the request that has the row
  another one waits for is the only one that has it, so it waits for nobody.
  `SomebodyMoves`: hence of the unanswered requests one at least need not wait.
  `OnlyForward`: each statement brings a request nearer to its answer, which is
  at most twelve away, and nothing sets it back. This is all of
  `EveryRequestAnswered` but the fairness.
- *Receipts.* `ReceiptsAgree` (`ReceiptsMatch`) needs `Receipted`: who was sent a
  message is at its commit, committed it, or was hit by a fault.
- *From the abstract to the detailed.* `WholeOrNothing` and `ConsentWasGiven` are
  invariants of `GiftBook`, carried over by the refinement. `ConsentIsKept`,
  `AnswersAreFinal`: what was entered is not taken back.
- *Between the components.* `OpensAsManageAssumes`: the rows that `Manage` opens
  (`NewRows`, `RailOfAssumption`) are those these endpoints commit.
  `OnlyTestIsBooked`: payments of real rails are left to webhooks.

### `ManageProofs`

That a cancellation or a change is true after the fact depends on what other
requests may still write from what they read before. `IInv` adds `Point`: what
a request knows of the row it acts on at each point of its handler, in
particular that the amount it read is still the row's unless another change went
through meanwhile (`Overtaken`), and that every DELETE that reaches its commit has
updated its row; and `OpenedRows`. The lemmas `Moves`, `Durable`, `Opens`, `Dies`
and `Outside` cover the kinds of steps. From it follow `TypeCorrect`,
`CancelsAreTrue`, `ChangesAreTrue`, `NoOtherFailure` and `ImplementsPledges`.

- *The row.* `OnlyByItsDonor`: it changes only as its donor asked. `CancelledForGood`:
  no late commit brings a cancelled one back.
- *The provider.* Nothing is proved of `agreement`: database and provider drift apart
  in both directions. What the page cancels goes on being charged for
  (`manage_charges`), and what the provider ends (`End`) stays as it was here.
- *One click.* `OneClickUnlessFault` is what of `OneClickCancels` needs no
  fairness. `WritersExclude`, `SomebodyMoves` and `OnlyForward` are as above; who
  has a row is past the call to the provider, so that nobody waits for one.

### `ConsentProofs`

`IInv` adds `Point` (what a request knows of its donor at each point: who
inserted it, that a row once there stays, whose source it carries), `Recorded`
(where the record of a row comes from), `OneWriter`, and `RivalWon` (why an INSERT
finds its donor there). The hard case is a commit: what it writes is a mixture of
what was assigned and of what the row has become since the SELECT, and each
property is shown column by column. From it follow `TypeCorrect`,
`ConsentsAreGiven`, `TornRecords`, `Refused`, `ComesBack` and
`ImplementsRegister`.

`LeavesByUnsubscribe` is the counterpart of `ComesBack`: nobody is taken off the
list but by an unsubscribe of hers. `HoldersAreFree`, `SomebodyMoves` and
`OnlyForward` are as above. `DataRequestsKept`: what the client of a data request
was told is true.

### `AdminProofs`

`Limits`: what the limiter remembers of a key lies between what it accepted in
the last window and all it accepted, and is no more than the limit; after
pruning it is the former, so that the length of the list is the number
`WithinLimit` bounds. `Handling`: what each request has passed at each point of
its handler, whose session it uses, who holds a row. From it follow
`TypeCorrect`, `LimitHolds`, `FullWhenRefused`, `EntriesEarned`, `Deactivated`,
`DatesKept` and `ImplementsRegister`, for any limit, window, age of sessions and
number of clients, accounts, posts and requests.

`SlugsUnique` (`SlugsAreUnique`) is not inductive: two flushed edits could commit
the same slug one after the other. `WrittenApart` says what the unique index does
for what is not committed yet: a flushed row has the slug of no post and of no
other flushed row. `DeletedForGood`: a stale update does not bring a deleted post
back. `EditsAreEarned`: `EntryIsEarned` carried from the check of the session to
what the request wrote.

`SomebodyMoves` and `OnlyForward` are as above, whether a row is locked by a
login, by an edit of the post or by its slug: `Admin` states no fairness, and this
is what it says of waiting.

### `RailsProofs` and `Conversions`

`OfferedIsConfigured`: the validation of the settings, the flags by which a rail
is offered and the tests in the constructors are three lists kept apart by hand;
in a deployment that boots they agree. `ConstructedIsOffered` is the converse,
which fails for the test rail alone (it can always be constructed, as
`test_provider.py` says). `BootsDeaf` is the limit of the validation: it does not
ask for the secret of Stripe's webhooks, so a deployment boots that takes gifts
through Stripe, turns away every delivery that Stripe signs, and checks signatures
with the empty key instead.

The fee is within half a cent of 3.9 % and the fixed part and grows with the gift;
M-Pesa is asked for within fifty cents of the gift, for nothing exactly when the
gift is of fifty cents or less; a normalised phone number stays as it is. The
code computes with floating-point numbers; that its results are those of `Round`
was tested in Python, for amounts up to 2^31, in every tie and in a sample of the
rest.

### Model-checked only

The liveness properties (`EventuallyAcked`, `ProcessedUnlessFault`,
`EveryRequestAnswered`, `OneClickCancels`). They rest on fairness, and a proof
from WF or SF has to reason about ENABLED, which the provers here cannot. What
is proved is what a step may do to them: `SomebodyMoves` and `OnlyForward` for
`EveryRequestAnswered`, `NoneLeftBehind` for `ProcessedUnlessFault`,
`OneClickUnlessFault` for `OneClickCancels`.

## Where the code and its documentation part

- **A fault between the two commits strands an event** (`webhooks_stranded`). The
  row is committed as `received` first. If processing then fails, or the process
  dies, the redelivery finds the row and is answered 200 by the early return,
  whatever the row's status; `webhooks.py:11` promises that every handler
  processes its event and marks it processed.
- **A concurrent duplicate is answered 500** (`webhooks_duplicate`). The existence
  test sees committed rows only, so the second of two concurrent deliveries
  inserts, waits, and gets an `IntegrityError`. `webhooks.py:6` says such a
  delivery is answered 200 immediately. The provider will redeliver, and
  `EventuallyAcked` shows that the redelivery succeeds.
- **A receipt for a gift that is not in the ledger** (`donations_receipt`). The
  message is sent before the commit.
- **A donor told of no further charges is charged** (`manage_charges`).
  `subscriptions.py:67` swallows whatever the provider's cancel call raises. The
  confirmation says "No further charges will be made" (`email.py:31`). The run starts
  from a gift that Stripe charges for: the call raises, the row is cancelled, the
  message goes out, the answer is 200, and the agreement goes on charging. Since a
  cancelled row is not found again, no later click repeats the call.

## Not modelled

- Amounts, currencies, names, templates, URLs: no branch of the modelled code
  reads them, save that M-Pesa refuses other currencies than KES and bad phone
  numbers, which is one of the ways its `create_one_off` raises.
- Orders that a provider opened for a request that then failed. The model keeps
  them (`orders`), the code makes no promise about them.
- A donor who submits again after a 500 gives twice: no key identifies the
  submission. It is a new request in the model too.
- The connection pool and the stop of the whole event loop during the
  synchronous calls to Stripe and SMTP: there is no time in the models, and a
  stop of everything only delays.
- An amount changed on the manage page is never told to the provider, which has
  no operation for it; nothing in the repository says what should happen.
- With two gifts, the page acts on whichever the database returns first; the
  request cannot say which is meant.
- The SQL isolation of PostgreSQL, SQLAlchemy's unit of work and the HTTP server
  are modelled as the code uses them.
- A post that is not published is served to whoever knows its slug
  (`content.py:32`), although the seed data says that "the public API cannot"
  see drafts (`seed.py:171`); a single read, which needs no model to be seen. The
  same holds for `consent_source = "newsletter_double_optin"` (`content.py:46`),
  which is recorded at the first and only click.
- Logout, the listings and the public reads change no state; the listings are the
  request `look` of `Admin`.
- The retries of the connection at startup: a counter up to five over one
  statement, in the library, before anything is served.
- The M-Pesa token cache is a field of the provider object, which every request
  makes anew: it is never read twice.
- The wall clock is taken to go forward, also across restarts.
- The Dockerfile applies the migration (`alembic upgrade head`, `Dockerfile:13`)
  before the process serves anything; of it the models rely on the unique constraints.
  The seed script runs by hand and alone. Some donors it makes consented at no recorded
  time (`seed.py:88-90`); `EarlierRows` has no such row.

## Plan

1. *(done)* `Rails`, `Webhooks` with `EventIntake`, `Donations` with `GiftBook`,
   `Manage` with `Pledges`, and their theorems.
2. *(done)* `Consent`, `Admin` with `Limiter` and `Posts`, both against `Register`,
   `Conversions`, and their theorems.
3. *(open)* When webhooks come to process what they record (today `_handle` marks
   an event processed without touching a gift), a module that composes
   `Donations`, `Webhooks` and `Manage` over one database: confirmations against
   the rows a gift left, orders without rows, two confirmations of one payment.
   As the code stands these three share no row that two of them write, save the
   donor's, whose writers meet in `Donations` and in `Consent`.
