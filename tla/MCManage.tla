------------------------------ MODULE MCManage ------------------------------
(***************************************************************************)
(* Manage on small instances: ann has a gift on the test rail and one on   *)
(* Stripe, bob one on the test rail; the requests hold a link of ann's,    *)
(* which was mailed for her gift on the test rail.                         *)
(***************************************************************************)
EXTENDS Manage, TLC

CONSTANTS ann, bob, annTest, annStripe, bobTest, annLink

StripeOn == {"stripe_enabled", "stripe_secret_key", "stripe_importable"}

RailOfAll == [s \in {annTest, annStripe, bobTest} |-> IF s = annStripe THEN "stripe" ELSE "test"]

DonorOfAll == [s \in {annTest, annStripe, bobTest} |-> IF s = bobTest THEN bob ELSE ann]

\* The instances with Stripe only: ann's link is of an earlier test gift.
RailOfStripe == [s \in {annStripe} |-> "stripe"]

DonorOfStripe == [s \in {annStripe} |-> ann]

\* Ann's two gifts.
RailOfTwo == [s \in {annTest, annStripe} |-> IF s = annStripe THEN "stripe" ELSE "test"]

DonorOfTwo == [s \in {annTest, annStripe} |-> ann]

LinkDonorAnn == [l \in {annLink} |-> ann]

\* Ann looks, changes and cancels; somebody tries without a link.
Everything ==
  [op : {"patch"}, link : {annLink}, amount : Amounts]
    \union [op : {"get", "delete"}, link : {annLink}, amount : {500}]
    \union [op : {"delete"}, link : {"forged"}, amount : {500}]

\* Changes and cancellations of ann's one gift.
ChangesAndCancels ==
  [op : {"patch"}, link : {annLink}, amount : Amounts]
    \union [op : {"delete"}, link : {annLink}, amount : {500}]

\* One request, to cancel.
OneCancel == [op : {"delete"}, link : {annLink}, amount : {500}]

\* Ann has cancelled her test gift, and completed the checkout of the other one:
\* its row stays pending, as no code activates it, and Stripe charges.
Charged ==
  /\ Fresh
  /\ subs = [s \in Subs |-> [status |-> IF s = annTest THEN "cancelled" ELSE "pending",
                             amount |-> 500]]
  /\ agreement = [s \in Subs |-> IF s = annStripe THEN "charging" ELSE "none"]

ChargedSpec == Charged /\ [][Next]_vars

\* Requests are interchangeable.  Used where no temporal property is checked.
Interchangeable == Permutations(Requests)
=============================================================================
