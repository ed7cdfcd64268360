SPECIFICATION Spec
CONSTANTS
  a = a
  Users = {a}
  Org = Org
  HostKind <- Kinds
  Inputs <- SpelledInputs
  MaxTargets = 3
  MaxTime = 1
  Limit = 1
INVARIANTS
  TypeOK
  TargetsAreUnique
  TargetsArePublic
  ListingIsExact
