CONSTANTS
  Passwords = {a, b, c}
  NoPassword = none
  MaxGen = 6
SPECIFICATION Spec
INVARIANTS
  TypeOK
  NeverLockedOut
  OldPasswordsRevoked
  NewestFirst
