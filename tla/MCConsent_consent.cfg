CONSTANTS
  ann = ann
  Unset = Unset
  Earlier = Earlier
  Emails = {ann}
  Requests = {r1, r2, r3}
  Asked <- AllOfAnn
  Before <- RowsBefore
  MaxFaults = 1
SPECIFICATION FairSpec
INVARIANTS
  TypeOK
  ConsentIsGiven
  TornOnlyByOvertaking
  RefusedOnlyToARival
PROPERTIES
  ComesBackByConsent
  ChoiceSpec
  EveryRequestAnswered
CHECK_DEADLOCK FALSE
