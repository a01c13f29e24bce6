CONSTANTS
  ann = ann
  bob = bob
  Settings <- MixedDeployment
  Emails = {ann, bob}
  Requests = {r1, r2, r3}
  Asked <- AllOfAnnOneOfBob
  MaxFaults = 1
SPECIFICATION Spec
SYMMETRY Interchangeable
INVARIANTS
  TypeOK
  AnswerIsTrue
  OneWriterPerDonor
  RefusedOnlyToARival
  HolderIsFree
  ReceiptsMatch
PROPERTIES
  BookSpec
CHECK_DEADLOCK FALSE
