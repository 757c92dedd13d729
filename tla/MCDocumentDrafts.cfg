SPECIFICATION Spec
CONSTANTS
  c1 = c1
  c2 = c2
  Texts <- Typed
  Suggestion <- Suggested
  Comments = {c1, c2}
  First = c1
  MaxMutations = 2
  MaxFailures = 1
  MaxLeaves = 1
INVARIANTS
  TypeOK
  DraftSurvives
  ListShowsStore
PROPERTIES
  CommentEditsApply
CHECK_DEADLOCK FALSE
