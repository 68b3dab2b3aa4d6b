SPECIFICATION Spec
CONSTANTS
  Texts = {1}
  MaxDefs = 1
  Atoms = {1, 2}
  InfoErrors = {550}
  Refused = Refused
  Failed = Failed
CHECK_DEADLOCK FALSE
PROPERTY MatchesOfServer
