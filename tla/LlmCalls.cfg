SPECIFICATION LlmSpec
CONSTANTS
  Editors = {e1, e2}
  Main = "linkedin_post"
  Names = {"linkedin_post", "other"}
  MaxRows = 3
  Runs = {r1, r2}
  Uploads = {u1}
  Posts = {p1, p2}
  Nothing = Nothing
  Budget = 1
  MaxCost = 1
  MaxCalls = 6
SYMMETRY Symmetry
CONSTRAINT EditsOrCalls
INVARIANTS TemplatesTypeOK ActiveUnlessClash VersionsUnlessClash RefusalsExplained LlmTypeOK TransformOverdraft CostOfOneThread
CHECK_DEADLOCK FALSE
