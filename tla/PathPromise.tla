---------------------------- MODULE PathPromise ----------------------------
(***************************************************************************)
(* What chains.build_paths promises its callers, without saying how: of a  *)
(* bundle in any order and with any repetitions, every distinct path from  *)
(* an end-entity certificate to the highest issuer the bundle holds, each  *)
(* delivered once.                                                         *)
(***************************************************************************)
EXTENDS Paths

CONSTANT Bundles   \* the bundles the call may be given

VARIABLES
    bundle,     \* the blocks handed to build_paths, in reading order
    delivered,  \* the paths delivered so far
    finished    \* TRUE once the call has returned

-----------------------------------------------------------------------------

Init ==
    /\ bundle \in Bundles
    /\ delivered = <<>>
    /\ finished = FALSE

\* One more path, never one already delivered.
Deliver ==
    /\ ~finished
    /\ \E q \in PathsOf(bundle) \ Certs(delivered) :
            delivered' = Append(delivered, q)
    /\ UNCHANGED <<bundle, finished>>

\* The call returns only when nothing is missing.
Finish ==
    /\ ~finished
    /\ PathsOf(bundle) \subseteq Certs(delivered)
    /\ finished' = TRUE
    /\ UNCHANGED <<bundle, delivered>>

Next == Deliver \/ Finish

vars == <<bundle, delivered, finished>>

\* That the call returns at all is PathBuilding!Terminates.
Spec == Init /\ [][Next]_vars
=============================================================================
