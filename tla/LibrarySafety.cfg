CONSTANTS
  Desk = Desk
  Other = Other
  Template = Template
  Paths <- MCPaths
  Templates <- MCTemplates
  Short = Short
  Long = Long
  Seed = Template
  Absent = Absent
  Torn = Torn
  Texts <- MCTexts
  Runs <- MCRuns
  Jobs <- MCJobs
  MaxFamilies = 3
  MaxVersions = 3
  MaxRequests = 3
  MaxFaults = 1
SYMMETRY MCSymmetry
SPECIFICATION Spec
INVARIANT
  OneVersionPerJob
PROPERTIES
  ReferencesStayInside
  RunKeepsItsFlow
CHECK_DEADLOCK FALSE
