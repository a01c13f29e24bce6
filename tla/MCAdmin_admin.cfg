CONSTANTS
  r1 = r1
  r2 = r2
  r3 = r3
  home = home
  office = office
  ann = ann
  p1 = p1
  s1 = s1
  s2 = s2
  Unset = Unset
  Earlier = Earlier
  NoCookie = NoCookie
  Requests = {r1, r2, r3}
  Callers = {r1, r2, r3}
  OldPosts = {p1}
  Slugs = {s1, s2}
  Clients = {home, office}
  Accounts = {ann}
  Keys <- KeysOf
  MaxAttempts = 2
  Window = 2
  SessionMaxAge = 1
  MaxTime = 2
  Asked <- MixesOfAnn
  Before <- PostsBefore
  MaxFaults = 1
SPECIFICATION Spec
INVARIANTS
  TypeOK
  WithinLimit
  EntryIsEarned
  SlugsAreUnique
PROPERTIES
  RefusedOnlyWhenFull
  DeactivatedIsOut
  DateIsKept
  PublicationSpec
CHECK_DEADLOCK FALSE
