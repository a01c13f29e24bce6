CONSTANTS
  ann = ann
  bob = bob
  Settings <- MixedDeployment
  Emails = {ann, bob}
  Requests = {r1, r2, r3}
  Asked <- LockingGifts
  MaxFaults = 1
SPECIFICATION FairSpec
PROPERTIES
  EveryRequestAnswered
CHECK_DEADLOCK FALSE
