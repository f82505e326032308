SPECIFICATION Spec
CONSTANTS
  Users = {bob}
  Passwords = {p}
  Clients = {c1, c2}
  Ids = {i1, i2}
  Keys = {k1, k2, k3}
  CodesPerSet = 1
  SignInAttempts = 2
  MaxGen = 3
  MaxRow = 2
  NoUser = NoUser
  NoPassword = NoPassword
  NoId = NoId
  NoKey = NoKey
SYMMETRY Symmetry
CHECK_DEADLOCK FALSE
INVARIANTS PreparedCodesRecoverStoredKey
