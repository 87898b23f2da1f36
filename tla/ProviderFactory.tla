-------------------------- MODULE ProviderFactory --------------------------
(***************************************************************************)
(* The language-model providers of LLMProviderFactory, as far as the model *)
(* router can tell them apart: their tier, the API key without which the   *)
(* service refuses every request, and the tokens a response reports.  Each *)
(* makes one request and throws what it rejects with, under another text   *)
(* when the key is at fault.                                               *)
(***************************************************************************)
EXTENDS Naturals, Sequences

CONSTANTS
  Keys,        \* API keys that are configured
  MostTokens   \* the most tokens a service counts for a request

NoKey == "none"

\* A missing count is reported as 0.
Counted == 0 .. MostTokens

GeminiProvider ==
  [name |-> "gemini-pro", tier |-> "primary", key |-> "GOOGLE_AI_API_KEY",
   tokensUsed |-> Counted]

OpenRouterGPT4Provider ==
  [name |-> "gpt-4o", tier |-> "fallback", key |-> "OPENROUTER_API_KEY",
   tokensUsed |-> Counted]

ClaudeProvider ==
  [name |-> "claude-3.5", tier |-> "fallback", key |-> "OPENROUTER_API_KEY",
   tokensUsed |-> Counted]

OllamaProvider ==
  [name |-> "ollama", tier |-> "local", key |-> NoKey, tokensUsed |-> {0}]

Factory == {GeminiProvider, OpenRouterGPT4Provider, ClaudeProvider, OllamaProvider}

ProviderNamed(n) == CHOOSE p \in Factory : p.name = n

Usable(p) == p.key \in Keys \cup {NoKey}
=============================================================================
