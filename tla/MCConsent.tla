----------------------------- MODULE MCConsent -----------------------------
(***************************************************************************)
(* Consent on a small instance: everything one donor can ask at once.      *)
(***************************************************************************)
EXTENDS Consent, TLC

CONSTANTS ann

\* No row, a donor who consented on the newsletter form, one who did on a give
\* form and unsubscribed.  That of a donor who never consented is what a gift
\* without the tick makes of the first.
RowsBefore ==
  {NoRow,
   [there |-> TRUE, on |-> TRUE, at |-> Earlier, source |-> "newsletter_double_optin"],
   [there |-> TRUE, on |-> FALSE, at |-> Earlier, source |-> "give_form_oneoff"]}

\* A give form with and without the tick, a monthly one with it, and all that
\* has no tick.
AllOfAnn ==
  [op : {"give_oneoff"}, email : {ann}, consent : BOOLEAN]
    \union [op : {"give_monthly"}, email : {ann}, consent : {TRUE}]
    \union [op : Ops \ Gives, email : {ann}, consent : {FALSE}]
=============================================================================
