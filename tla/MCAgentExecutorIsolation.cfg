SPECIFICATION Spec
CONSTANTS
  AllowedDomains <- MCDomains
  Registered = {"calculator"}
  Call <- MCCall
  MaxLines = 2
  MaxIterations = 2
INVARIANTS
  ToolFailuresStayLocal
