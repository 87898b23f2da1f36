SPECIFICATION FairSpec
CONSTANTS
  Keys = {"GOOGLE_AI_API_KEY", "OPENROUTER_API_KEY"}
  MostTokens = 1
  r1 = r1
  r2 = r2
  Requests = {r1, r2}
  AllProviders <- Names
  Tier <- MCTier
  Answering <- MCAnswering
  TokensUsed <- MCTokensUsed
  Gemini = "gemini-pro"
  Enabled = TRUE
  RpmLimit = 1
  DailyRequestLimit = 1
  DailyTokenLimit = 1
  MaxTokens = 1
  FailureThreshold = 1
  SuccessThreshold = 1
  Timeout = 1
  ResetTimeout = 2
INVARIANTS
  TypeOK
  UsageBound
PROPERTIES
  RefinesFailover
  RefinesBreakers
