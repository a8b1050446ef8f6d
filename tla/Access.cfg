SPECIFICATION MCSpec
CONSTANTS
  r1 = r1
  r2 = r2
  g = g
  l1 = l1
  k1 = k1
  Roles = {r1, r2}
  Groups = {g}
  Gates <- GatesOf
  Logins = {l1}
  Checks = {k1}
  AdminRoles = {r2}
  MaxChanges = 1
INVARIANT AdmittedWasGranted
INVARIANT HeldThroughoutIsAdmitted
INVARIANT SignInIsAuthoritative
CHECK_DEADLOCK FALSE
