SPECIFICATION Spec
CONSTANTS
  p1 = p1
  p2 = p2
  a = a
  b = b
  Contents = {"c1", "c2"}
  UserNames <- MCUserNames
  DriveFiles = {"f1", "f2"}
  FileName <- MCFileName
  FileContent <- MCFileContent
  Web = {"w1"}
  Watch = {"o1"}
  Pollers <- MCPollers
  Batch = 1
  MaxInputs = 2
  MaxFaults = 1
INVARIANTS TypeOK DuplicatesRaced DriveFileOnce RightContent MissingOnlyFromDrive RunOnce NoUploadForgotten NoDropForgotten
SYMMETRY Symmetry
CHECK_DEADLOCK FALSE
