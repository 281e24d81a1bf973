----------------------------- MODULE MCTrustFlow -----------------------------
EXTENDS TrustFlow, TLC

CONSTANTS dflt, acme, c1, c2

\* acme overrides its retrieval chain: a second instance over the same
\* backend,
OwnCache == (dflt :> c1) @@ (acme :> c2)
\* or no cache at all.
Uncached == (dflt :> c1) @@ (acme :> NoCache)

RequestSymmetry == Permutations(Requests)
==============================================================================
