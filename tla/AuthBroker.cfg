\* Two logins, an administrator and an ordinary user, two callbacks at a time.
CONSTANTS
  Login = {r1, r2}
  Token = {t1, t2}
  User = {ann, bob}
  Admins = {ann}
  DevUser = dev
  DevAuthEnabled = TRUE
  Slot = {s1, s2}
  AuthLifetime = 2
  SessionLifetime = 3
  None = None
SPECIFICATION FairSpec
INVARIANTS AuthInv TokenGood AdminOnly
PROPERTY LoginEnds
