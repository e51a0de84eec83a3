SPECIFICATION Spec
CONSTANTS
  None = None
  Pk = {1, 2, 3, 4, 5, 6}
  MaxBefore = 3
  Taken = {1, 2}
  Stranger = {s}
  BlockSize = 1
INVARIANTS TypeOK CompleteRunIsWhole
PROPERTIES CollidesOnlyOverTakenName RerunKeepsProfiles
