CONSTANTS
  Users = {u1, u2}
  Passwords = {p1, p2}
  NoPassword = NoPassword
  NoKey = NoKey
SPECIFICATION Spec
INVARIANT AccountsSound
PROPERTY ImplementsVault
