CONSTANTS
  r1 = r1
  u1 = u1
  Realms = {r1, r2}
  Users = {u1, u2}
  Names = {n1, n2}
  Owner <- MCOwner
  NoOne = NoOne
  MaxIncarnations = 2
  MaxErrors = 2
  MaxCrashes = 2
  MaxCopyFailures = 2
  MaxLogOuts = 2
SPECIFICATION Spec
CHECK_DEADLOCK FALSE
INVARIANTS UsersRestored
PROPERTIES BackedUpOrThere ActionsHitTheirIncarnation
