--------------------------- MODULE MCModelRouter ---------------------------
(* Three providers of the factory, one per tier, listed in another order than  *)
(* their tiers.                                                              *)
EXTENDS ModelRouter, ProviderFactory

CONSTANTS r1, r2

Names == <<"gpt-4o", "ollama", "gemini-pro">>

MCTier       == [n \in Providers |-> ProviderNamed(n).tier]
MCAnswering  == {n \in Providers : Usable(ProviderNamed(n))}
MCTokensUsed == [n \in Providers |-> ProviderNamed(n).tokensUsed]
=============================================================================
