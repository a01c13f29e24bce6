---------------------------- MODULE RailsProofs ----------------------------
(***************************************************************************)
(* What the boot-time validation of the settings is worth to the rails.    *)
(***************************************************************************)
EXTENDS Rails, TLAPS

\* In a deployment that boots, no rail that is offered is refused for want of a
\* setting, and none but the test rail can be constructed that is not offered:
\* config.py, the provider's constructor and registry.py, three lists kept apart
\* by hand, agree.  A constructor may still raise on what the validation does not
\* look at: a package that is not installed, a mode that is not in a table.
THEOREM OfferedIsConfigured ==
  ASSUME NEW s, Boots(s), NEW name \in AvailableProviders(s)
  PROVE  GetProvider(s, name) # "ProviderNotConfigured"
<1>1. name \in Rails
  BY DEF AvailableProviders
<1>2. BUILDERS[name].required \subseteq s
  <2>1. CASE name = "test"
    BY <2>1, SMT DEF BUILDERS, TestProvider
  <2>2. CASE name = "stripe"
    BY <2>2, SMT DEF Boots, AvailableProviders, BUILDERS, StripeProvider
  <2>3. CASE name = "paypal"
    BY <2>3, SMT DEF Boots, AvailableProviders, BUILDERS, PayPalProvider
  <2>4. CASE name = "mpesa"
    BY <2>4, SMT DEF Boots, AvailableProviders, BUILDERS, MpesaProvider
  <2>5. CASE name = "btc"
    BY <2>5, SMT DEF Boots, AvailableProviders, BUILDERS, BtcProvider
  <2> QED BY <1>1, <2>1, <2>2, <2>3, <2>4, <2>5 DEF Rails
<1> QED BY <1>1, <1>2 DEF GetProvider

\* The converse: a provider that can be constructed under some settings is among
\* those that a gift may name under them, save the test rail, which is constructed
\* whether or not TEST_PROVIDER_ENABLED is set.
THEOREM ConstructedIsOffered ==
  ASSUME NEW s, NEW name \in ProviderNames, GetProvider(s, name) = "ok"
  PROVE  name = "test" \/ name \in AvailableProviders(s)
<1>1. name \in Rails /\ BUILDERS[name].required \subseteq s
  BY DEF GetProvider
<1>2. CASE name = "stripe"
  BY <1>1, <1>2, SMT DEF AvailableProviders, BUILDERS, StripeProvider
<1>3. CASE name = "paypal"
  BY <1>1, <1>3, SMT DEF AvailableProviders, BUILDERS, PayPalProvider
<1>4. CASE name = "mpesa"
  BY <1>1, <1>4, SMT DEF AvailableProviders, BUILDERS, MpesaProvider
<1>5. CASE name = "btc"
  BY <1>1, <1>5, SMT DEF AvailableProviders, BUILDERS, BtcProvider
<1> QED BY <1>1, <1>2, <1>3, <1>4, <1>5 DEF Rails

\* The validation is not enough for the webhooks, for it does not ask for
\* STRIPE_WEBHOOK_SECRET: a deployment boots that offers Stripe, constructs it,
\* takes gifts of both kinds through it, and checks signatures with the empty key.
\* So it turns away every delivery that Stripe signs, and what it accepts is
\* not signed with a secret (config.py:37, config.py:87, stripe_provider.py:61-68).
THEOREM BootsDeaf ==
  \E s \in SUBSET SettingNames :
    /\ Boots(s) /\ "stripe" \in AvailableProviders(s) /\ GetProvider(s, "stripe") = "ok"
    /\ \A kind \in Kinds : CanCreate(kind, "stripe")
    /\ ~VerifyWebhook(s, "stripe", "provider")
    /\ \A key \in SigningKeys : VerifyWebhook(s, "stripe", key) <=> key = "empty"
<1> DEFINE s == {"stripe_enabled", "stripe_secret_key", "stripe_importable"}
<1>1. s \in SUBSET SettingNames
  BY DEF SettingNames
<1>2. Boots(s)
  BY DEF Boots
<1>3. "stripe" \in AvailableProviders(s)
  BY DEF AvailableProviders, Rails
<1>4. BUILDERS["stripe"] = StripeProvider
  BY DEF BUILDERS
<1>5. GetProvider(s, "stripe") = "ok"
  BY <1>4 DEF GetProvider, Rails, StripeProvider
<1>6. \A kind \in Kinds : CanCreate(kind, "stripe")
  BY <1>4 DEF Kinds, CanCreate, StripeProvider
<1>7. WebhookKey(s, "stripe") = "empty"
  BY <1>4 DEF WebhookKey, StripeProvider
<1>8. BUILDERS["stripe"].verifies
  BY <1>4 DEF StripeProvider
<1>9. /\ ~VerifyWebhook(s, "stripe", "provider")
      /\ \A key \in SigningKeys : VerifyWebhook(s, "stripe", key) <=> key = "empty"
  BY <1>7, <1>8 DEF VerifyWebhook
<1> QED
  BY <1>1, <1>2, <1>3, <1>5, <1>6, <1>9
=============================================================================
