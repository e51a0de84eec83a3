SPECIFICATION Spec
CONSTANTS
  None = None
  Upload = {r1}
  User = {alice, bob}
  Customer = alice
  Merchant = bob
  Name = {n1, n2}
  Original = Original
  Membership <- MCMembership
  Post <- MCPost
  MaxChanges = 1
CHECK_DEADLOCK FALSE
INVARIANTS RefusalsAre400
