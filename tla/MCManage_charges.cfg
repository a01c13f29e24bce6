CONSTANTS
  ann = ann
  bob = bob
  annTest = annTest
  annStripe = annStripe
  bobTest = bobTest
  annLink = annLink
  Settings <- StripeOn
  Subs = {annTest, annStripe}
  RailOf <- RailOfTwo
  DonorOf <- DonorOfTwo
  Links = {annLink}
  LinkDonor <- LinkDonorAnn
  Amounts = {500}
  Requests = {r1}
  Asked <- OneCancel
  MaxFaults = 0
SPECIFICATION ChargedSpec
INVARIANT
  NoFurtherCharges
CHECK_DEADLOCK FALSE
