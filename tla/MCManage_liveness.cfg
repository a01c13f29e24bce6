CONSTANTS
  ann = ann
  bob = bob
  annTest = annTest
  annStripe = annStripe
  bobTest = bobTest
  annLink = annLink
  Settings <- StripeOn
  Subs = {annStripe}
  RailOf <- RailOfStripe
  DonorOf <- DonorOfStripe
  Links = {annLink}
  LinkDonor <- LinkDonorAnn
  Amounts = {500, 900}
  Requests = {r1, r2, r3}
  Asked <- ChangesAndCancels
  MaxFaults = 1
SPECIFICATION FairSpec
PROPERTIES
  EveryRequestAnswered
  OneClickCancels
CHECK_DEADLOCK FALSE
