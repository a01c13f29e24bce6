------------------------------- MODULE Donors -------------------------------
(***************************************************************************)
(* The consent columns of a donors row and the requests that read or write *)
(* it.  The module has no state; Consent extends it.                       *)
(***************************************************************************)
CONSTANTS Requests,      \* the requests, each made once
          Emails,        \* the donors' e-mail addresses, up to case (CITEXT)
          Unset,         \* NULL in a column
          Earlier        \* the time of a consent given before the first request

Gives == {"give_oneoff", "give_monthly"}

\* subscribe and unsubscribe of the newsletter, a data request of a known and
\* of an unknown type, the two give forms.
Ops == Gives \union {"subscribe", "unsubscribe", "ask_data", "ask_unknown"}

\* consent is the tick of a give form.
Asks == [op : Ops, email : Emails, consent : BOOLEAN]

Consenting(a) == a.op = "subscribe" \/ (a.op \in Gives /\ a.consent)

\* consent_source, by the request it comes from.
Sources == {"newsletter_double_optin", "give_form_oneoff", "give_form_monthly"}

ASSUME UnsetAssumption == Unset \notin Requests \union Sources \union {Earlier}
ASSUME EarlierAssumption == Earlier \notin Requests

\* Faulty variant: the source is the name of the endpoint.
EndpointOf(a) == a.op

SourceOf(a) ==
  IF a.op = "subscribe" THEN "newsletter_double_optin"
  ELSE IF a.op = "give_oneoff" THEN "give_form_oneoff" ELSE "give_form_monthly"

\* A row: whether it is there, marketing_consent, consent_recorded_at (by the
\* request that took the time) and consent_source.
Rows == [there : BOOLEAN, on : BOOLEAN, at : Requests \union {Unset, Earlier},
         source : Sources \union {Unset}]

NoRow == [there |-> FALSE, on |-> FALSE, at |-> Unset, source |-> Unset]

\* A donor as the constructor of Donor leaves it.
NewRow == [there |-> TRUE, on |-> FALSE, at |-> Unset, source |-> Unset]

\* Rows that earlier requests left: none, a donor who never consented, one who
\* did, one who did and unsubscribed.
EarlierRows ==
  {NoRow, NewRow}
    \union [there : {TRUE}, on : BOOLEAN, at : {Earlier}, source : Sources]

\* The ORM instance after r's handler assigned to the one it loaded.
Assigned(a, r, row) ==
  IF Consenting(a) THEN [there |-> TRUE, on |-> TRUE, at |-> r, source |-> SourceOf(a)]
  ELSE IF a.op = "unsubscribe" THEN [row EXCEPT !.on = FALSE]
  ELSE row

\* What a client sees of a row.
Standing(row) == IF ~row.there THEN "absent" ELSE IF row.on THEN "on" ELSE "off"

\* What a request is for: how it may change the standing of its donor.
Effect(a, standing) ==
  IF Consenting(a) THEN {"on"}
  ELSE IF standing = "absent" THEN (IF a.op \in Gives THEN {"off"} ELSE {"absent"})
  ELSE IF a.op = "unsubscribe" THEN {"off"} ELSE {standing}

AskEmail(a) == a.email
=============================================================================
