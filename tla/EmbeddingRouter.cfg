SPECIFICATION FairSpec
CONSTANTS
  r1 = r1 r2 = r2 r3 = r3
  Requests = {r1, r2, r3}
  Names = {"ollama", "openai", "google"}
  Registered <- MCRegistered
  ProviderOrder <- WithUnknown
  FailureThreshold = 2
  MaxAttempts = 2
INVARIANTS
  TypeOK
  FailuresBound
PROPERTIES
  
  RequestsEnd
