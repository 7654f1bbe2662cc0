SPECIFICATION FairSpec
CONSTANTS
  Approvals = {"a1", "a2"}
  NRows = 3
  RowOf <- MCRowOf
  MaxAnswers <- MCMaxAnswers
  MaxFaults = 1
INVARIANTS TypeOK SyncedMeansRecorded ReplayExplained
PROPERTIES ImplementsDelivery AnswerDelivered DeadlineDelivered
