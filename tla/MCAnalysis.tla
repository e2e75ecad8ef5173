----------------------------- MODULE MCAnalysis -----------------------------
(* The analysis over bundles of the PKI of MCPKI. *)
EXTENDS Analysis, MCPKI

\* Orders that matter to the analysis are chosen by BuildPaths and OpenSSL;
\* reading order plays no other part, so one order of each bundle will do.
MCBundles ==
    { <<>>, <<U>>, <<I, R>>, <<U, R>>, <<E>>, <<E, U, R>>,
      <<L>>, <<L, U>>, <<L, N, R>>, <<L, I>>, <<L, I, N>>, <<L, I, U>>,
      <<L, I, R>>, <<L, I, R, N, U>>, <<K, J, I, R>>, <<K, J, R>>,
      <<F, I, R>>, <<L, V, R>>, <<L, V, I, R>>, <<L, I, R2>>, <<L, I, R, R2>>,
      <<M, R, R2>>, <<M, R, X, O>>, <<L, M, I, R>>, <<L, I, X, O>>, <<M, X, P>>,
      <<M, X, P, R>> }
=============================================================================
