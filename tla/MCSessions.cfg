SPECIFICATION Spec
CONSTANTS
  Requests = {r1, r2}
  Secrets = {1, 2}
  Policies <- MCPolicies
  Attempts = 2
  Lockout = 1
  Timeout = 2
  Short = 1
  MaxToken = 3
  MaxState = 1
  MaxVersion = 3
  MaxTime = 2
  MaxRestarts = 1
SYMMETRY MCSymmetry
INVARIANTS
  TypeOK
  CredentialsAreCurrent
  SignedOutStaysOut
  LockoutHolds
  OneGrantPerState
  GrantsFollowPolicy
CHECK_DEADLOCK FALSE
