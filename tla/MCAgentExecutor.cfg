SPECIFICATION FairSpec
CONSTANTS
  AllowedDomains <- MCDomains
  Registered <- MCRegistered
  Call <- MCCall
  MaxLines = 2
  MaxIterations = 2
INVARIANTS
  TypeOK
  PromptIsFullTranscript
  OutcomesStayWithTheirCalls
  ValidatedCallsRun
  ResultMatchesTrace
PROPERTIES
  Terminates
  ImplementsLifecycle
