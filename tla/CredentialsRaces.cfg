SPECIFICATION Spec
CONSTANTS
  Users = {bob}
  Passwords = {p, q}
  Clients = {c1, c2}
  Ids = {i1}
  Keys = {k1, k2}
  CodesPerSet = 2
  SignInAttempts = 2
  MaxGen = 4
  MaxRow = 4
  NoUser = NoUser
  NoPassword = NoPassword
  NoId = NoId
  NoKey = NoKey
SYMMETRY Symmetry
CHECK_DEADLOCK FALSE
INVARIANTS PasswordOpensKey GenerationWitness BasisDetectsChange
