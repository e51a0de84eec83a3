SPECIFICATION Spec
CONSTANTS
  None = None
  Upload = {r1, r2}
  User = {alice, bob}
  Customer = alice
  Merchant = bob
  Name = {n1, n2}
  Original = Original
  Membership <- MCMembership
  Post <- MCPost
  MaxChanges = 1
SYMMETRY Interchangeable
CHECK_DEADLOCK FALSE
INVARIANTS TypeOK RowHasItsFile RefusedLeavesNothing UploadIsWhole OfferIsKept
