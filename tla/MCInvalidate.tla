---------------------------- MODULE MCInvalidate ----------------------------
(* Two runs over the chains of MCReissue. *)
EXTENDS Invalidate, MCReissue

MCRuns == 1..2

MCChains == {<<L, I, R>>, <<K, J, I, R>>}

Pick(s) == [i \in 1..Len(s) |-> {s[i]}]

\* A scenario twice over, by number and by name; two that share positions;
\* a re-issue after a mangling; a typing error.
MCSelections ==
    { Pick(<<"missing_intermediate", "root_hash_mismatch", "missing_intermediate">>),
      Pick(<<"corrupted_server", "expired_server">>),
      <<{"expired_root"}, {}>>, <<>> }

\* None, the leaf's and a repeated one, both intermediates, a typing error.
MCPlaces == {<<>>, <<{0}, {1}, {1}>>, <<{2}, {1}>>, <<{1}, {}>>}
=============================================================================
