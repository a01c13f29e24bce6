CONSTANTS
  ann = ann
  bob = bob
  Settings <- MixedDeployment
  Emails = {ann, bob}
  Requests = {r1, r2}
  Asked <- TestOneOff
  MaxFaults = 1
SPECIFICATION Spec
INVARIANTS
  ReceiptIsTrue
CHECK_DEADLOCK FALSE
