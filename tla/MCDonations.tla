---------------------------- MODULE MCDonations ----------------------------
(***************************************************************************)
(* Donations on small instances: ann and bob are two donors' addresses.    *)
(***************************************************************************)
EXTENDS Donations, TLC

CONSTANTS ann, bob

\* Stripe and Bitcoin construct, M-Pesa is off (422), PayPal is on with a mode
\* that names no host (500).
MixedDeployment ==
  {"stripe_enabled", "stripe_secret_key", "stripe_importable",
   "paypal_enabled", "paypal_client_id", "paypal_client_secret",
   "btc_enabled", "btc_api_key"}

\* Every name, kind and consent for ann; one monthly gift of bob.
AllOfAnnOneOfBob ==
  [kind : Kinds, rail : ProviderNames, email : {ann}, consent : BOOLEAN]
    \union [kind : {"subscription"}, rail : {"test"}, email : {bob}, consent : {FALSE}]

\* Gifts of ann that hold her row to the commit, or across a provider call.
LockingGifts ==
  [kind : {"one_off"}, rail : {"stripe"}, email : {ann}, consent : BOOLEAN]
    \union [kind : {"subscription"}, rail : {"test"}, email : {ann}, consent : BOOLEAN]

TestOneOff ==
  [kind : {"one_off"}, rail : {"test"}, email : {ann}, consent : BOOLEAN]

\* Requests are interchangeable.  Used where no temporal property is checked.
Interchangeable == Permutations(Requests)
=============================================================================
