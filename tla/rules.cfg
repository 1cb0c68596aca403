SPECIFICATION Spec
CONSTANTS
  Ids = {1, 2, 3}
  Tags <- MCTags
  Calls <- MCCalls
  Drafts <- MCDrafts
  NoList = NoList
  None = None
  Canon <- MCCanon
  Undated <- MCUndated
  MaxOps = 2
INVARIANTS
  TypeOK
  IndexPointsAtRule
  PackTellsTruth
  MissIsSound
