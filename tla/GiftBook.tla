------------------------------ MODULE GiftBook ------------------------------
(***************************************************************************)
(* The book of gifts as a donor is entitled to see it: a gift is entered   *)
(* with all its rows, its donor and the donor's consent in one step, or    *)
(* not at all; a donor told that the gift went through finds it there.     *)
(***************************************************************************)
EXTENDS Gifts

CONSTANT Requests

VARIABLES req,            \* what each request asks
          donors,         \* the donors on file
          entry,          \* what each request has entered
          answer          \* what each donor was told

vars == <<req, donors, entry, answer>>

Init ==
  /\ req \in [Requests -> Asks]
  /\ donors = [m \in Emails |-> "absent"]
  /\ entry = [r \in Requests |-> NoRows]
  /\ answer = [r \in Requests |-> "none"]

\* The gift is entered.  The donor may be told of a failure all the same, when
\* the outcome was lost on its way.
Enter(r) ==
  /\ answer[r] = "none"
  /\ entry' = [entry EXCEPT ![r] = Booked(req[r])]
  /\ donors' = [donors EXCEPT ![req[r].email] = DonorAfter(req[r], @)]
  /\ \E told \in {"accepted", "failed"} : answer' = [answer EXCEPT ![r] = told]
  /\ UNCHANGED req

\* Some requests fail and leave nothing, several at once when a process dies.
Fail(R) ==
  /\ \A r \in R : answer[r] = "none"
  /\ answer' = [r \in Requests |-> IF r \in R THEN "failed" ELSE answer[r]]
  /\ UNCHANGED <<req, donors, entry>>

Next == (\E r \in Requests : Enter(r)) \/ (\E R \in SUBSET Requests : Fail(R))

Spec == Init /\ [][Next]_vars
=============================================================================
