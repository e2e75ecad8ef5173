--------------------------- MODULE MCPathBuilding ---------------------------
(***************************************************************************)
(* A small PKI with the shapes path building has to survive: a root that   *)
(* was rolled over under the same name (R, R2), a cross certificate that   *)
(* closes a loop (X carries the root's name and is issued by I), an        *)
(* intermediate re-issued with CA:FALSE (N), two leaves and a block that   *)
(* does not parse (U).                                                     *)
(***************************************************************************)
EXTENDS PathBuilding

CONSTANTS L, M, I, N, R, R2, X, U, MaxBundle

MCCert == {L, M, I, N, R, R2, X, U}

MCSubject == [c \in MCCert |->
    CASE c \in {L, U} -> "leaf" [] c = M -> "other leaf"
      [] c \in {I, N} -> "int"  [] OTHER -> "root"]

MCIssuer == [c \in MCCert |-> IF c \in {L, M, X, U} THEN "int" ELSE "root"]

\* Keys play no part in path building.
MCAnyKey == [c \in MCCert |-> "k"]

\* Every order of the certificates of S, none left out and none repeated.
Orders(S) == {b \in [1..Cardinality(S) -> S] : NoRepeats(b)}

\* Every bundle of up to MaxBundle blocks, in every order and with
\* repetitions, and every order of some fuller ones: an ordinary chain with
\* a second leaf, a rollover beside a cross-signed loop, a CA:FALSE twin.
MCBundles ==
    UNION {[1..n -> MCCert] : n \in 0..MaxBundle}
        \cup UNION {Orders(S) : S \in {{L, M, I, R}, {L, I, N, X},
                                       {L, U, I, R2}, {L, I, R, R2, X}}}
=============================================================================
