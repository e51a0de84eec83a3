SPECIFICATION Spec
CONSTANTS
  None = None
  Torn = Torn
  Base = {b1, b2}
  Committed = b1
  Scorer = {s1}
  MayCrash = FALSE
INVARIANTS ScoreAlwaysProduced
