SPECIFICATION FairSpec
CONSTANTS
  e1 = e1
  e2 = e2
  e3 = e3
  Absent = Absent
  DangerWords = {"remove", "delete"}
  SoftVerbs = {"remove"}
  ViewStateNouns = {"filter"}
  ReadWords = {"open", "filter"}
  SessionPhrases = {"sign in"}
  Numbers = {"inv7", "inv8"}
  SecretNames = {"password"}
  MaxAttempts = 2
  ShownToModel = 2
  MaxChanges = 1
  Providers = {"gemini", "openai_compatible", "ollama"}
  Plain = {"key"}
  Encoded = {"a2V5"}
  Redacted = "[redacted]"
  Order <- MCOrder
  Steps <- MCSteps
  Pages <- MCPages
  Changes <- MCChanges
  Responses <- MCResponses
  MaxAttemptsOf <- MCMaxAttemptsOf
  Folding <- MCFolding
INVARIANTS
  PickIsSound
  SecretsStayHere
  CallsAddUp
PROPERTIES
  RungReturns
CHECK_DEADLOCK FALSE
