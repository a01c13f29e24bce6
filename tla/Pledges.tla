------------------------------ MODULE Pledges ------------------------------
(***************************************************************************)
(* A monthly gift as its donor is entitled to see it.  It is opened once;  *)
(* only who holds a link to it changes its amount or cancels it, in one    *)
(* step, before being answered; once cancelled it stays so.                *)
(***************************************************************************)
EXTENDS Subscriptions

CONSTANT Requests

VARIABLES req,            \* what each request asks
          subs,           \* the monthly gifts
          answer          \* what each request was told

vars == <<req, subs, answer>>

Init ==
  /\ req \in [Requests -> Asks]
  /\ subs = [s \in Subs |-> NoRow]
  /\ answer = [r \in Requests |-> "none"]

Open(s) ==
  /\ subs[s].status = "absent"
  /\ \E row \in NewRows(s) : subs' = [subs EXCEPT ![s] = row]
  /\ UNCHANGED <<req, answer>>

\* The answer may be lost on its way: the donor is told of a failure.
Tell(r, told) ==
  /\ answer[r] = "none"
  /\ answer' = [answer EXCEPT ![r] = told]
  /\ UNCHANGED req

Cancel(r, s) ==
  /\ req[r].op = "delete" /\ s \in Named(req[r])
  /\ subs[s].status # "absent"
  /\ subs' = [subs EXCEPT ![s] = CancelledRow(@)]
  /\ \E told \in {"done", "failed"} : Tell(r, told)

Change(r, s) ==
  /\ req[r].op = "patch" /\ s \in Named(req[r])
  /\ subs[s].status # "absent"
  /\ subs' = [subs EXCEPT ![s] = ChangedRow(@, req[r].amount)]
  /\ \E told \in {"done", "failed"} : Tell(r, told)

\* Nothing is left to do: the gifts are shown, or the amount is the one there
\* was when the donor asked.
Agree(r) ==
  /\ req[r].op # "delete" /\ req[r].link \in Links
  /\ Tell(r, "done")
  /\ UNCHANGED subs

\* Some requests fail and leave nothing, several at once when a process dies.
Fail(R) ==
  /\ \A r \in R : answer[r] = "none"
  /\ answer' = [r \in Requests |-> IF r \in R THEN "failed" ELSE answer[r]]
  /\ UNCHANGED <<req, subs>>

Next ==
  \/ \E R \in SUBSET Requests : Fail(R)
  \/ \E s \in Subs : Open(s)
  \/ \E r \in Requests, s \in Subs : Cancel(r, s) \/ Change(r, s)
  \/ \E r \in Requests : Agree(r)

Spec == Init /\ [][Next]_vars
=============================================================================
