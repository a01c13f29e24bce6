------------------------------- MODULE Rails -------------------------------
(***************************************************************************)
(* The payment rails behind app/payments: which of them a deployment can   *)
(* construct, and what each operation of a rail may do to its caller.      *)
(*                                                                         *)
(* A deployment is the set s of the settings that are on: a flag that is   *)
(* true, a credential that is not empty, a mode that is one of the keys of *)
(* the provider's host table.  "stripe_importable" says that the stripe    *)
(* package can be imported, which requirements.txt does not arrange.       *)
(*                                                                         *)
(* The module has no state.  Modules with state extend it.                 *)
(***************************************************************************)

Rails == {"test", "stripe", "paypal", "mpesa", "btc"}

\* The provider names a request may carry: of a rail, or of nothing there is.
ProviderNames == Rails \union {"unknown"}

\* The rails that /api/v1/webhooks has a route for.
Routes == Rails \ {"test"}

SettingNames ==
  {"test_provider_enabled",
   "stripe_enabled", "stripe_secret_key", "stripe_webhook_secret", "stripe_importable",
   "paypal_enabled", "paypal_client_id", "paypal_client_secret",
   "paypal_mode_known",
   "mpesa_enabled", "mpesa_consumer_key", "mpesa_consumer_secret",
   "mpesa_shortcode", "mpesa_passkey", "mpesa_environment_known",
   "btc_enabled", "btc_api_key",
   "email_provider_smtp", "smtp_host", "smtp_user", "smtp_password"}

\* Settings._validate_feature_flags: the process refuses to boot when a feature
\* that is on lacks one of the values listed for it.
Boots(s) ==
  /\ "stripe_enabled" \in s => "stripe_secret_key" \in s
  /\ "paypal_enabled" \in s => {"paypal_client_id", "paypal_client_secret"} \subseteq s
  /\ "mpesa_enabled" \in s => {"mpesa_consumer_key", "mpesa_consumer_secret",
                               "mpesa_shortcode", "mpesa_passkey"} \subseteq s
  /\ "btc_enabled" \in s => "btc_api_key" \in s
  /\ "email_provider_smtp" \in s => {"smtp_host", "smtp_user", "smtp_password"} \subseteq s

-----------------------------------------------------------------------------
(***************************************************************************)
(* The provider classes.  Of each:                                         *)
(*   required  what its constructor tests before ProviderNotConfigured;    *)
(*   needs     what the rest of the constructor fails without: an import,  *)
(*             a key of a table of hosts;                                  *)
(*   one_off, subscription                                                 *)
(*             what create_one_off and create_subscription do: "local"     *)
(*             returns from code alone, "remote" calls the provider, which *)
(*             may return or raise, "raises" always raises;                *)
(*   cancel    the same of cancel_subscription;                            *)
(*   verifies  TRUE when verify_webhook checks the signature, FALSE when   *)
(*             it returns False whatever was delivered;                    *)
(*   secrets   the settings that hold the key of that check, if it is not  *)
(*             written in the code.                                        *)
(*                                                                         *)
(* Stripe is asked to delete a subscription by the id that                 *)
(* create_subscription stored, which is the checkout session's and names   *)
(* no subscription: its cancel raises.                                     *)
(***************************************************************************)
TestProvider ==
  [required |-> {}, needs |-> {}, one_off |-> "local", subscription |-> "local",
   cancel |-> "local", verifies |-> TRUE, secrets |-> {}]

StripeProvider ==
  [required |-> {"stripe_enabled", "stripe_secret_key"},
   needs |-> {"stripe_importable"},
   one_off |-> "remote", subscription |-> "remote", cancel |-> "raises",
   verifies |-> TRUE, secrets |-> {"stripe_webhook_secret"}]

PayPalProvider ==
  [required |-> {"paypal_enabled", "paypal_client_id", "paypal_client_secret"},
   needs |-> {"paypal_mode_known"},
   one_off |-> "remote", subscription |-> "raises", cancel |-> "remote",
   verifies |-> FALSE, secrets |-> {}]

MpesaProvider ==
  [required |-> {"mpesa_enabled", "mpesa_consumer_key", "mpesa_consumer_secret",
                 "mpesa_shortcode", "mpesa_passkey"},
   needs |-> {"mpesa_environment_known"},
   one_off |-> "remote", subscription |-> "raises", cancel |-> "raises",
   verifies |-> FALSE, secrets |-> {}]

BtcProvider ==
  [required |-> {"btc_enabled", "btc_api_key"}, needs |-> {},
   one_off |-> "raises", subscription |-> "raises", cancel |-> "raises",
   verifies |-> FALSE, secrets |-> {}]

BUILDERS ==
  [test |-> TestProvider, stripe |-> StripeProvider, paypal |-> PayPalProvider,
   mpesa |-> MpesaProvider, btc |-> BtcProvider]

\* get_provider(name, settings): "ok", or how it raises.
GetProvider(s, name) ==
  IF name \notin Rails THEN "ProviderNotConfigured"
  ELSE IF ~(BUILDERS[name].required \subseteq s) THEN "ProviderNotConfigured"
  ELSE IF BUILDERS[name].needs \subseteq s THEN "ok" ELSE "Exception"

\* available_providers(settings): the rails whose flag is on.
AvailableProviders(s) ==
  {name \in Rails :
     CASE name = "test" -> "test_provider_enabled" \in s
       [] name = "stripe" -> "stripe_enabled" \in s
       [] name = "paypal" -> "paypal_enabled" \in s
       [] name = "mpesa" -> "mpesa_enabled" \in s
       [] name = "btc" -> "btc_enabled" \in s}

\* The key that a delivery is signed with: the provider's secret for this
\* endpoint, the empty string, or some other, which stands for no signature too.
SigningKeys == {"provider", "empty", "other"}

\* The key that the check of a rail uses: the provider's secret, where it was put
\* into the settings, and the default of the setting, "", where it was not.
WebhookKey(s, name) == IF BUILDERS[name].secrets \subseteq s THEN "provider" ELSE "empty"

\* Faulty variant: the signature is not looked at.
VerifyNothing(s, name, key) == BUILDERS[name].verifies

\* verify_webhook, of a delivery signed with key.
VerifyWebhook(s, name, key) == BUILDERS[name].verifies /\ key = WebhookKey(s, name)

Kinds == {"one_off", "subscription"}

\* provider.create_one_off / create_subscription reaches the provider.
CallsOut(kind, name) == BUILDERS[name][kind] = "remote"

CanCreate(kind, name) == BUILDERS[name][kind] # "raises"

CanRaise(kind, name) == BUILDERS[name][kind] # "local"

\* get_provider and then cancel_subscription, of a deployment s, can return.
CancelCanReturn(s, name) == GetProvider(s, name) = "ok" /\ BUILDERS[name].cancel # "raises"

\* They can raise.
CancelCanRaise(s, name) == GetProvider(s, name) # "ok" \/ BUILDERS[name].cancel # "local"
=============================================================================
