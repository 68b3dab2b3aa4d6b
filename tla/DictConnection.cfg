SPECIFICATION FairSpec
CONSTANTS
  Texts = {1, 2}
  MaxDefs = 2
  Atoms = {2}
  InfoErrors = {550}
  Refused = Refused
  Failed = Failed
CHECK_DEADLOCK FALSE
PROPERTIES
  RequestReplySpec
  CallReturns
