---------------------------- MODULE MCRoundTrip ----------------------------
(* The round trip over the chains of MCReissue, two of them without their  *)
(* root as well: the machine knows R.                                      *)
EXTENDS RoundTrip, MCReissue

MCEveryChain == {<<L, I, R>>, <<K, J, I, R>>, <<M, X, P, R>>, <<M, S, R>>, <<N, T, U>>,
                 <<L, I>>, <<K, J, I>>}

\* What OpenSSL 3 issues carries key identifiers.
MCParsable == MCBase \cup MCReissuable
=============================================================================
