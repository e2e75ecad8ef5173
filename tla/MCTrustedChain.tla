--------------------------- MODULE MCTrustedChain ---------------------------
(* find_trusted_chain over bundles of the PKI of MCPKI. *)
EXTENDS TrustedChain, MCPKI

\* BuildPaths chooses the order of the candidates, so one order of each
\* bundle will do.
MCBundles ==
    { <<>>, <<U>>, <<E>>, <<I, R>>, <<L>>, <<L, I, U>>,
      <<L, I, R>>, <<L, I, R, N, U>>, <<K, J, I, R>>, <<K, L, J, I, R>>,
      <<F, L, I, R>>, <<L, V, I, R>>, <<L, I, R2>>, <<L, I, R, R2>>,
      <<M, R, R2>>, <<L, M, I, R>>, <<L, I, X, O>>, <<M, R, X, O>>, <<M, X, P, R>>,
      <<K, J, M, R>> }
=============================================================================
