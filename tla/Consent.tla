------------------------------ MODULE Consent ------------------------------
(***************************************************************************)
(* The requests that change what a donor agreed to: the newsletter and     *)
(* data request endpoints (app/routers/content.py) and the consent ticked  *)
(* on the give forms (app/routers/donations.py), over the donors table.    *)
(*                                                                         *)
(* Each handler loads the donor, assigns to the instance it loaded and     *)
(* writes it later, the give forms after a call to a provider.  SQLAlchemy *)
(* then writes the columns that differ from what was loaded, over whatever *)
(* the row has become.  What else a gift writes is in Donations.           *)
(***************************************************************************)
EXTENDS Naturals, Donors

CONSTANTS Asked,        \* what the requests may ask: a subset of Asks
          Before,       \* the rows there may be at the start, of EarlierRows
          MaxFaults     \* bound on errors of the database and the process

ASSUME AskedAssumption == Asked \subseteq Asks
ASSUME BeforeAssumption == Before \subseteq EarlierRows
ASSUME MaxFaultsAssumption == MaxFaults \in Nat

VARIABLES req,          \* what each request asks
          pc,           \* where its handler is, or how it answered
          donors,       \* table donors, as committed
          seen,         \* the donor as each request's SELECT returned it
          holds,        \* the requests whose transaction wrote their donor's row
          recorded,     \* table data_requests, as committed
          faults        \* faults so far

vars == <<req, pc, donors, seen, holds, recorded, faults>>

Answered == {"200", "404", "500"}
InFlight == {"select", "insert", "call", "update", "ask", "commit"}

\* A write of r's donor row waits for the end of a transaction that wrote it.
Locked(r) == \E q \in holds \ {r} : req[q].email = req[r].email

-----------------------------------------------------------------------------
Init ==
  /\ req \in [Requests -> Asked]
  /\ pc = [r \in Requests |-> "select"]
  /\ donors \in [Emails -> Before]
  /\ seen = [r \in Requests |-> NoRow]
  /\ holds = {}
  /\ recorded = {}
  /\ faults = 0

Goto(r, label) == pc' = [pc EXCEPT ![r] = label]

\* The handler's first statement, and where it goes from there.
Load(r, ops, label) ==
  /\ pc[r] = "select"
  /\ req[r].op \in ops
  /\ seen' = [seen EXCEPT ![r] = donors[req[r].email]]
  /\ Goto(r, label)
  /\ UNCHANGED <<req, donors, holds, recorded, faults>>

\* subscribe: SELECT by e-mail; a donor who is not there is added.
LoadSubscribe(r) ==
  Load(r, {"subscribe"}, IF donors[req[r].email].there THEN "update" ELSE "insert")

\* _get_or_create_donor of a give form.
LoadGive(r) ==
  Load(r, Gives, IF donors[req[r].email].there THEN "call" ELSE "insert")

\* unsubscribe: get by id.  A donor who is not there is told the same; for one
\* who is not subscribed the commit has nothing to write.
LoadUnsubscribe(r) ==
  Load(r, {"unsubscribe"}, IF ~donors[req[r].email].there THEN "200"
                           ELSE IF donors[req[r].email].on THEN "update" ELSE "commit")

\* create_data_request: 404 without a donor; a type that DataRequestType does
\* not have raises ValueError, which nothing catches.
LoadAsk(r) ==
  Load(r, {"ask_data", "ask_unknown"},
       IF ~donors[req[r].email].there THEN "404"
       ELSE IF req[r].op = "ask_unknown" THEN "500" ELSE "ask")

\* Faulty variant: the session of a failed request is not closed.
AbortKeepsRow(r) ==
  /\ Goto(r, "500")
  /\ UNCHANGED <<req, donors, seen, holds, recorded>>

\* An exception nothing catches: the session closes and rolls back, 500.
Abort(r) ==
  /\ Goto(r, "500")
  /\ holds' = holds \ {r}
  /\ UNCHANGED <<req, donors, seen, recorded>>

\* The flush of a donor that was not there: at once on a give form, by the
\* commit of a subscribe.
InsertDonor(r) ==
  /\ pc[r] = "insert"
  /\ ~Locked(r)
  /\ ~donors[req[r].email].there
  /\ holds' = holds \union {r}
  /\ Goto(r, IF req[r].op \in Gives THEN "call" ELSE "commit")
  /\ UNCHANGED <<req, donors, seen, recorded, faults>>

\* Faulty variant: the flush gives up when another transaction has the row.
DonorConflictNoWait(r) ==
  /\ pc[r] = "insert"
  /\ Locked(r) \/ donors[req[r].email].there
  /\ Abort(r)
  /\ UNCHANGED faults

\* A rival request inserted the donor since: the flush raises IntegrityError.
DonorConflict(r) ==
  /\ pc[r] = "insert"
  /\ ~Locked(r)
  /\ donors[req[r].email].there
  /\ Abort(r)
  /\ UNCHANGED faults

\* A give form calls its provider, with the consent assigned and not flushed.
ProviderReturns(r) ==
  /\ pc[r] = "call"
  /\ Goto(r, IF Consenting(req[r]) THEN "update" ELSE "commit")
  /\ UNCHANGED <<req, donors, seen, holds, recorded, faults>>

ProviderRaises(r) ==
  /\ pc[r] = "call"
  /\ Abort(r)
  /\ UNCHANGED faults

\* The flush of a donor that was there, or was inserted before the call.
UpdateDonor(r) ==
  /\ pc[r] = "update"
  /\ ~Locked(r)
  /\ holds' = holds \union {r}
  /\ Goto(r, "commit")
  /\ UNCHANGED <<req, donors, seen, recorded, faults>>

\* The flush of the data request.
InsertDataRequest(r) ==
  /\ pc[r] = "ask"
  /\ Goto(r, "commit")
  /\ UNCHANGED <<req, donors, seen, holds, recorded, faults>>

\* The instance r's handler loaded, or made.
Loaded(r) == IF seen[r].there THEN seen[r] ELSE NewRow

\* The same after its assignments.
Wanted(r) == Assigned(req[r], r, Loaded(r))

\* The committed row that a flush of the instance makes of row: all columns of a
\* new donor, of a loaded one those that differ from what was loaded.
Flush(r, row, instance) ==
  [c \in DOMAIN row |->
     IF ~seen[r].there \/ Loaded(r)[c] # instance[c] THEN instance[c] ELSE row[c]]

\* Faulty variant: the UPDATE names every column of the instance.
WriteEveryColumn(r, row) == Wanted(r)

\* Faulty variant: the time of the consent is forgotten.
ForgetTheTime(r, row) == Flush(r, row, [Wanted(r) EXCEPT !.at = Loaded(r).at])

\* Faulty variant: the time of the first consent is kept.
KeepTheTime(r, row) ==
  Flush(r, row, IF Loaded(r).at = Unset THEN Wanted(r) ELSE [Wanted(r) EXCEPT !.at = Loaded(r).at])

\* Faulty variant: the source of the first consent is kept.
KeepTheSource(r, row) ==
  Flush(r, row, IF Loaded(r).source = Unset THEN Wanted(r)
                ELSE [Wanted(r) EXCEPT !.source = Loaded(r).source])

Written(r, row) == Flush(r, row, Wanted(r))

\* COMMIT takes effect.
TakesEffect(r) ==
  /\ pc[r] = "commit"
  /\ donors' = [donors EXCEPT ![req[r].email] = Written(r, @)]
  /\ recorded' = IF req[r].op = "ask_data" THEN recorded \union {r} ELSE recorded
  /\ holds' = holds \ {r}
  /\ UNCHANGED <<req, seen>>

Commit(r) ==
  /\ TakesEffect(r)
  /\ Goto(r, "200")
  /\ UNCHANGED faults

-----------------------------------------------------------------------------
\* The connection is lost after COMMIT took effect and before the handler
\* heard of it.
CommitUnheard(r) ==
  /\ faults < MaxFaults
  /\ TakesEffect(r)
  /\ Goto(r, "500")
  /\ faults' = faults + 1

\* A statement or a commit fails.
Fault(r) ==
  /\ faults < MaxFaults
  /\ pc[r] \in InFlight \ {"call"}
  /\ Abort(r)
  /\ faults' = faults + 1

\* The process dies with every request in it.
Crash ==
  /\ faults < MaxFaults
  /\ pc' = [r \in Requests |->
              IF pc[r] \in InFlight \ {"select"} THEN "500" ELSE pc[r]]
  /\ holds' = {}
  /\ faults' = faults + 1
  /\ UNCHANGED <<req, donors, seen, recorded>>

-----------------------------------------------------------------------------
Step(r) ==
  \/ LoadSubscribe(r) \/ LoadGive(r) \/ LoadUnsubscribe(r) \/ LoadAsk(r)
  \/ InsertDonor(r) \/ DonorConflict(r)
  \/ ProviderReturns(r) \/ ProviderRaises(r)
  \/ UpdateDonor(r) \/ InsertDataRequest(r) \/ Commit(r)

Next ==
  \/ \E r \in Requests : Step(r) \/ CommitUnheard(r) \/ Fault(r)
  \/ Crash

Spec == Init /\ [][Next]_vars

\* The event loop runs every handler that can run, the database answers, and a
\* call to a provider ends.
FairSpec == Spec /\ \A r \in Requests : WF_vars(Step(r))

-----------------------------------------------------------------------------
(***************************************************************************)
(* Properties.                                                             *)
(***************************************************************************)

TypeOK ==
  /\ req \in [Requests -> Asked]
  /\ pc \in [Requests -> Answered \union InFlight]
  /\ donors \in [Emails -> Rows]
  /\ seen \in [Requests -> Rows]
  /\ holds \subseteq Requests
  /\ recorded \subseteq Requests
  /\ faults \in 0..MaxFaults

\* Nobody is on the list without having asked: a donor marked as consenting has
\* on record when and where, and the time is one at which that donor consented,
\* whatever columns other requests wrote in between.
ConsentIsGiven ==
  \A m \in Emails :
    donors[m].on =>
      /\ donors[m].at # Unset /\ donors[m].source # Unset
      /\ donors[m].at # Earlier =>
           /\ Consenting(req[donors[m].at])
           /\ req[donors[m].at].email = m
           /\ pc[donors[m].at] \in {"200", "500"}

\* A donor who is off the list comes back onto it only in a step that records a
\* new consent; no stale write of another request brings her back.
ComesBackByConsent ==
  [][\A m \in Emails :
       (donors'[m].on /\ ~donors[m].on) => donors'[m].at \notin {donors[m].at, Unset, Earlier}]_vars

\* When the record of a consent names the time of one request and the source of
\* another, then the first one had read its own source from the row, and the
\* other one overtook it: there is no other way to tear the record.
TornOnlyByOvertaking ==
  \A m \in Emails, q \in Requests :
    (donors[m].at = q /\ donors[m].source # SourceOf(req[q])) =>
      /\ seen[q].source = SourceOf(req[q])
      /\ \E p \in Requests \ {q} :
           /\ Consenting(req[p]) /\ req[p].email = m
           /\ donors[m].source = SourceOf(req[p])
           /\ pc[p] \in {"200", "500"}

\* With nothing failing, a subscribe or an unsubscribe is refused for one
\* reason: the donor was being created by another request, which went through.
RefusedOnlyToARival ==
  \A r \in Requests :
    (pc[r] = "500" /\ faults = 0 /\ req[r].op \in {"subscribe", "unsubscribe"}) =>
      /\ req[r].op = "subscribe"
      /\ \E q \in Requests \ {r} :
           /\ req[q].email = req[r].email /\ req[q].op \in Gives \union {"subscribe"}
           /\ pc[q] = "200"

\* What a donor agreed to is an atomic register.  A request that finds the
\* value it is to write writes it in effect where it reads it, since the flush
\* leaves the column alone; any other one where it commits.
Effective(r) ==
  /\ pc[r] \in {"call", "update", "ask", "commit"}
  /\ seen[r].there
  /\ Standing(Assigned(req[r], r, seen[r])) = Standing(seen[r])

Choice == INSTANCE Register
            WITH Keys <- Emails, KeyOf <- AskEmail,
                 value <- [m \in Emails |-> Standing(donors[m])],
                 phase <- [r \in Requests |->
                             IF pc[r] \in {"200", "404"} THEN "answered"
                             ELSE IF pc[r] = "500" THEN "failed"
                             ELSE IF Effective(r) THEN "effective" ELSE "made"]

ChoiceSpec == Choice!Spec

\* Every request is answered, whatever fails.
EveryRequestAnswered == \A r \in Requests : <>(pc[r] \in Answered)
=============================================================================
