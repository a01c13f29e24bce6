--------------------------- MODULE Subscriptions ---------------------------
(***************************************************************************)
(* Table subscriptions and the links that donors hold to their rows of it. *)
(* Shared by Pledges and Manage.                                           *)
(***************************************************************************)
EXTENDS Naturals, Rails

CONSTANTS Subs,          \* the subscriptions there will ever be
          RailOf,        \* the rail of each
          DonorOf,       \* the donor of each
          Links,         \* the signed manage links that were mailed, see below
          LinkDonor,     \* the donor id in each
          Amounts        \* monthly amounts, in minor units

\* A link is mailed with a monthly gift on the test rail only
\* (donations.py:136-158).  It names a donor and no gift, so it serves for the
\* gifts that she has on other rails, if any.

\* Field(gt=0) of the request bodies.
ASSUME AmountsAssumption == Amounts \subseteq Nat \ {0}

\* Subscriptions exist on the rails whose create_subscription can return.
ASSUME RailOfAssumption == RailOf \in [Subs -> {p \in Rails : CanCreate("subscription", p)}]

\* A row.  No code writes the statuses past_due and failed.
Rows == [status : {"absent", "pending", "active", "cancelled"}, amount : Amounts \union {0}]

NoRow == [status |-> "absent", amount |-> 0]

\* The rows that create_subscription may leave for s.
NewRows(s) ==
  [status : {IF RailOf[s] = "test" THEN "active" ELSE "pending"}, amount : Amounts]

CancelledRow(row) == [row EXCEPT !.status = "cancelled"]

ChangedRow(row, amount) == [row EXCEPT !.amount = amount]

\* A request to the manage page: GET, PATCH with an amount or DELETE, with a
\* link or with something no secret key of ours has signed.
Asks == [op : {"get", "patch", "delete"}, link : Links \union {"forged"}, amount : Amounts]

\* The subscriptions that a's link names.
Named(a) ==
  IF a.link \in Links THEN {s \in Subs : DonorOf[s] = LinkDonor[a.link]} ELSE {}
=============================================================================
