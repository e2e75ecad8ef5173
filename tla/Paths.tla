------------------------------- MODULE Paths -------------------------------
(***************************************************************************)
(* The paths of a bundle, defined without an algorithm: what "every        *)
(* distinct leaf-to-highest-issuer path buildable from certs" means        *)
(* (chains.build_paths).                                                   *)
(***************************************************************************)
EXTENDS Certs

\* q goes from a leaf of b upwards, CA by CA, and never twice through the
\* same certificate.
IsClimb(b, q) ==
    /\ q # <<>>
    /\ \A i \in 1..Len(q)-1 : IsParent(q[i], q[i+1])
    /\ IsLeaf(b, q[1])
    /\ Certs(q) \subseteq Certs(b)
    /\ NoRepeats(q)

\* ... and nothing in b continues it.
IsPath(b, q) ==
    /\ IsClimb(b, q)
    /\ \A c \in Certs(b) : IsParent(Last(q), c) => c \in Certs(q)

Leaves(b) == {c \in Certs(b) : IsLeaf(b, c)}

Authorities(b) == {c \in Certs(b) : is_ca(c)}

\* A leaf with n CAs above it, linked or not.
Stacks(b, n) ==
    UNION {{<<c>> \o cas : cas \in [1..n -> Authorities(b)]} : c \in Leaves(b)}

\* A path repeats no certificate, so it is no longer than its bundle.
PathsOf(b) == {q \in UNION {Stacks(b, n) : n \in 0..Len(b)-1} : IsPath(b, q)}

\* The sequences that list S without repetition.
Listings(S) == {q \in [1..Cardinality(S) -> S] : NoRepeats(q)}
=============================================================================
