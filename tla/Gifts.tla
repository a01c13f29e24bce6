------------------------------- MODULE Gifts -------------------------------
(***************************************************************************)
(* What a donor can ask of the giving form, and what the database holds    *)
(* about a gift.  Shared by GiftBook and Donations.                        *)
(***************************************************************************)
EXTENDS Rails

CONSTANT Emails          \* the donors' e-mail addresses, up to case (CITEXT)

\* A request to /donations/one-off or /subscriptions.
Asks == [kind : Kinds, rail : ProviderNames, email : Emails, consent : BOOLEAN]

\* A row of donors: whether it is there, and marketing_consent.
DonorRows == {"absent", "plain", "consented"}

\* A donor's row after the gift a: created if it was not there, the consent
\* set when the form asked for it.
DonorAfter(a, donor) ==
  IF a.consent THEN "consented"
  ELSE IF donor = "absent" THEN "plain" ELSE donor

\* The rows a request writes: its row in webhook_events, in donations and in
\* subscriptions, by status.  Their keys are minted for the request (payment,
\* subscription and event ids), so no two requests share a row.
Entries == [event : {"none", "received", "processed"},
            donation : {"none", "succeeded"},
            sub : {"none", "pending", "active"}]

NoRows == [event |-> "none", donation |-> "none", sub |-> "none"]

\* The rows of a gift that went through: the test rail books the payment, the
\* other rails leave that to a webhook and only open the subscription.
Booked(a) ==
  [event |-> IF a.rail = "test" THEN "processed" ELSE "none",
   donation |-> IF a.rail = "test" THEN "succeeded" ELSE "none",
   sub |-> IF a.kind = "one_off" THEN "none"
           ELSE IF a.rail = "test" THEN "active" ELSE "pending"]
=============================================================================
