----------------------------- MODULE MCWebhooks -----------------------------
(***************************************************************************)
(* Webhooks on small instances.  In the configurations e1 and e2 are       *)
(* events a provider emitted, x is one nobody emitted: the provider signed *)
(* no delivery of it.                                                      *)
(***************************************************************************)
EXTENDS Webhooks, TLC

CONSTANTS e1, e2, x

\* Stripe takes webhooks and has its secret; PayPal is on and rejects every one of them; M-Pesa
\* and Bitcoin are off.
StripeAndPayPal ==
  {"stripe_enabled", "stripe_secret_key", "stripe_webhook_secret", "stripe_importable",
   "paypal_enabled", "paypal_client_id", "paypal_client_secret", "paypal_mode_known"}

OneEvent == {e1}
TwoEvents == {e1, e2}
TwoAndUnknown == {e1, e2, x}

\* Requests are interchangeable.  Used where no temporal property is checked.
Interchangeable == Permutations(Handlers)
=============================================================================
