SPECIFICATION FairSpec
CONSTANTS
  None = None
  Membership <- MCMembership
INVARIANTS TypeOK LandingOpens BackWhereItBegan
PROPERTIES RedirectsEnd
