SPECIFICATION FairSpec
CONSTANTS
  Texts = {1, 2}
  MaxDefs = 1
  Atoms = {2}
  InfoErrors = {530, 550}
  Refused = Refused
  Failed = Failed
CHECK_DEADLOCK FALSE
PROPERTY InfoReturns
