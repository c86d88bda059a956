SPECIFICATION NormalSpec
CONSTANTS
  AppIDs = {42, 43}
  Registered = {42}
  Requests <- MCRequests
  Refused = {"randomBytes0"}
  Faults = {"cut", "broken"}
  AppletID = 42
INVARIANTS
  TypeOK
  MailTakenBeforeNormalWorldResumes
  
  ResultsAnswerTheirRequest
  AppletsLeaveNoOldResult
  DemoGetsItsResults
PROPERTIES
  ImplementsRemoteCall
  RequestsEnd
  DemoEnds
