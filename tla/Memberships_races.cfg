SPECIFICATION Spec
CONSTANTS
  a = a
  b = b
  r1 = r1
  r2 = r2
  Users = {a, b}
  Founder = a
  Requests = {r1, r2}
  MaxAudit = 4
  NoUser = NoUser
SYMMETRY Symmetries
INVARIANTS
  TypeOK
  AdminsAreAudited
PROPERTY OrphanedIsFrozen
CHECK_DEADLOCK FALSE
