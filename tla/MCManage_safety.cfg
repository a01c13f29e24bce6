CONSTANTS
  ann = ann
  bob = bob
  annTest = annTest
  annStripe = annStripe
  bobTest = bobTest
  annLink = annLink
  Settings <- StripeOn
  Subs = {annTest, annStripe, bobTest}
  RailOf <- RailOfAll
  DonorOf <- DonorOfAll
  Links = {annLink}
  LinkDonor <- LinkDonorAnn
  Amounts = {500, 900}
  Requests = {r1, r2, r3}
  Asked <- Everything
  MaxFaults = 1
SPECIFICATION Spec
SYMMETRY Interchangeable
INVARIANTS
  TypeOK
  CancelIsTrue
  ChangeIsTrue
  FailsOnlyOnFault
PROPERTIES
  PledgeSpec
CHECK_DEADLOCK FALSE
