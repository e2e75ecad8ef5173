---------------------------- MODULE TrustedChain ----------------------------
(***************************************************************************)
(* invalidate.find_trusted_chain: which of the paths of a bundle is the    *)
(* chain that will be corrupted.  Candidates are tried in the order of     *)
(* build_paths; the first whose root is the pinned one and which OpenSSL   *)
(* verifies is taken, and there is no second choice afterwards.            *)
(*                                                                         *)
(* build_paths is used by its promise, as in Analysis.  The clock runs:    *)
(* every verify_chain reads it anew.                                       *)
(*                                                                         *)
(* "Slips" are ways the code could have been wrong; see PathBuilding.      *)
(***************************************************************************)
EXTENDS Paths, Verify

CONSTANTS
    Bundles,     \* the certificates collect_material may come back with
    Pins,        \* what the pin file may hold: a root, or one of the next two
    NoPin,       \* no pin file
    Unreadable,  \* a pin file without a digest
    Mortal       \* the certificates whose notAfter may be near

ASSUME TrustedChainAssumption ==
    /\ Bundles \subseteq Seq(Cert)
    /\ NoPin # Unreadable
    /\ {NoPin, Unreadable} \cap Cert = {}
    /\ Pins \subseteq Cert \cup {NoPin, Unreadable}
    /\ Mortal \subseteq Cert

VARIABLES
    certs,       \* the certificates read
    pin,         \* the pin file's content
    expired,     \* the certificates past their notAfter
    began,       \* `expired` as it was when the call began (history only)
    phase,       \* "build", "try", "found" or "refused"
    candidates,  \* the result of build_paths
    at,          \* the candidate looked at next
    chain        \* the result

vars == <<certs, pin, expired, began, phase, candidates, at, chain>>

-----------------------------------------------------------------------------

\* main: pinned_hash.  A file without a digest reads as None, like no file.
pinned_hash == IF pin = Unreadable THEN NoPin ELSE pin

candidate == candidates[at]

\* Slip: a pin that names any certificate of the candidate will do.
MatchesPinAnywhere(c) == pinned_hash = NoPin \/ pinned_hash \in Certs(c)

MatchesPin(c) ==
    /\ find_root(c) # {}
    /\ pinned_hash = NoPin \/ pinned_hash \in find_root(c)

\* What may lapse: certificates read and CAs of the machine.
Perishable == Mortal \cap (Certs(certs) \cup System)

Init ==
    /\ certs \in Bundles
    /\ pin \in Pins
    /\ expired \in SUBSET Perishable
    /\ began = expired
    /\ phase = "build"
    /\ candidates = <<>>
    /\ at = 1
    /\ chain = <<>>

Running == phase \in {"build", "try"}

\* A certificate reaches its notAfter.
Lapse ==
    /\ Running
    /\ \E c \in Perishable \ expired : expired' = expired \cup {c}
    /\ UNCHANGED <<certs, pin, began, phase, candidates, at, chain>>

BuildPaths ==
    /\ phase = "build"
    /\ candidates' \in Listings(PathsOf(certs))
    /\ phase' = IF candidates' = <<>> THEN "refused" ELSE "try"
    /\ UNCHANGED <<certs, pin, expired, began, at, chain>>

\* continue
PassOver ==
    /\ at' = at + 1
    /\ UNCHANGED <<certs, pin, expired, began, phase, candidates, chain>>

Trying == phase = "try" /\ at <= Len(candidates)

\* Slip: the first root that is not the pinned one ends the search.
RejectRootOnce ==
    /\ Trying
    /\ ~MatchesPin(candidate)
    /\ phase' = "refused"
    /\ UNCHANGED <<certs, pin, expired, began, candidates, at, chain>>

RejectRoot == Trying /\ ~MatchesPin(candidate) /\ PassOver

RejectChain ==
    /\ Trying
    /\ MatchesPin(candidate)
    /\ verify_chain(candidate, expired) # {{}}
    /\ PassOver

Accept ==
    /\ Trying
    /\ MatchesPin(candidate)
    /\ {} \in verify_chain(candidate, expired)
    /\ chain' = candidate
    /\ phase' = "found"
    /\ UNCHANGED <<certs, pin, expired, began, candidates, at>>

GiveUp ==
    /\ phase = "try"
    /\ at > Len(candidates)
    /\ phase' = "refused"
    /\ UNCHANGED <<certs, pin, expired, began, candidates, at, chain>>

Step == BuildPaths \/ RejectRoot \/ RejectChain \/ Accept \/ GiveUp

Next == Step \/ Lapse

Spec == Init /\ [][Next]_vars

-----------------------------------------------------------------------------
(* Properties *)

\* The chain handed on leads, by signatures of CAs none of which had lapsed
\* when the call began, to the very certificate the pin names - although the
\* pin is compared with find_root's answer, OpenSSL is offered the highest
\* certificate of the path and builds a chain of its own.  (Of a chain with
\* one self-signed CA, and that no CA of the machine helped to verify.)
FoundIsTrusted ==
    phase = "found" /\ pin \in Cert /\ SingleRoot(chain) /\ Unaided(chain) =>
        Vouches(chain, pin, began)

\* A sound path to the root asked for is never in vain, wherever it stands
\* among the candidates and whatever the others are like, unless the machine
\* knows another CA by the name of one of its issuers.
SoundPathFound ==
    phase = "refused" =>
        \A p \in PathsOf(certs) :
            Sound(p, expired) /\ Unaided(p) => pin \notin {NoPin, Unreadable, Last(p)}
=============================================================================
