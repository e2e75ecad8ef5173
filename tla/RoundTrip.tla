----------------------------- MODULE RoundTrip -----------------------------
(***************************************************************************)
(* The two halves of the toolkit against each other: the invalidator takes *)
(* a chain it has found valid, applies one scenario, and the validator     *)
(* analyses what was written.  "This mapping is the contract between the   *)
(* two halves of the toolkit" (tests/test_analysis.py:17).                 *)
(*                                                                         *)
(* Apart from root_hash_mismatch, which ships a pin, a pin can only come   *)
(* from a directory above the written chain and inside the target, and is  *)
(* then the pin of the original chain: invalid_chain/ stands in the        *)
(* working directory, which may be the chain's own.                        *)
(***************************************************************************)
EXTENDS Analysis, Scenarios

CONSTANTS
    Chains,    \* chains the invalidator starts from
    KeyRings,  \* the private keys it may have been given
    Random     \* the digest random_fingerprint made up

\* Of the certificates of c, openssl can re-issue any by the next one, and the
\* root by itself.  What it makes is new.
Corruptible(c) ==
    /\ Certs(c) \subseteq DOMAIN Mangled
    /\ \A i \in 1..Len(c)-1, lapsed \in BOOLEAN, ca \in BOOLEAN :
          <<c[i], c[i+1], lapsed, ca>> \in Reissuable
    /\ \A r \in find_root(c) : <<r, r, TRUE, TRUE>> \in Reissuable
    /\ \A x \in Reissuable : Reissued[x] \notin Certs(c)

\* find_trusted_chain hands over a path with a root that verifies.  A digest
\* drawn at random is that of no certificate.
ASSUME RoundTripAssumption ==
    /\ Chains \subseteq Seq(Cert)
    /\ \A c \in Chains :
          /\ IsPath(c, c) /\ find_root(c) # {} /\ {} \in verify_chain(c, {})
          /\ Corruptible(c)
    /\ Random \in Pins \ {NoPin, Unreadable}
    /\ \A c \in Chains : Random \notin Certs(c)

VARIABLES given, keys, choice, position, skipped

setting == <<given, keys, choice, position, skipped>>

\* The pin the validator finds beside, or above, the written chain.
PinsFound ==
    IF choice = "root_hash_mismatch" THEN {Random} ELSE {NoPin} \cup find_root(given)

RTInit ==
    /\ given \in Chains
    /\ keys \in KeyRings
    /\ choice \in SCENARIOS
    /\ position \in 0..Len(given)
    /\ skipped = FALSE
    /\ phase = "corrupt"
    /\ blocks = <<>> /\ pin = NoPin /\ expired = {} /\ began = {}
    /\ paths = <<>> /\ messages = {} /\ scan = 0 /\ late = FALSE /\ findings = <<>>

\* One turn of write_scenarios, and the validator is started on the result.
Corrupt ==
    /\ phase = "corrupt"
    /\ blocks' \in apply_scenario(choice, given, position, keys)
    /\ pin' \in PinsFound
    /\ expired' = Certs(blocks') \cap ShortLived
    /\ began' = expired'
    /\ phase' = "load"
    /\ UNCHANGED <<paths, messages, scan, late, findings, setting>>

\* [skip]
Skip ==
    /\ phase = "corrupt"
    /\ apply_scenario(choice, given, position, keys) = {}
    /\ skipped' = TRUE
    /\ phase' = "done"
    /\ UNCHANGED <<blocks, pin, expired, began, paths, messages, scan, late, findings,
                   given, keys, choice, position>>

RTNext == Corrupt \/ Skip \/ (Step /\ UNCHANGED setting)

RTSpec == RTInit /\ [][RTNext]_<<vars, setting>>

-----------------------------------------------------------------------------
(* Properties *)

\* tests/test_analysis.py: EXPECTED
Expected ==
    [expired_server        |-> "EXPIRED_LEAF",
     corrupted_server      |-> "CORRUPTED_CERTIFICATE",
     expired_intermediate  |-> "EXPIRED_INTERMEDIATE",
     non_ca_intermediate   |-> "NON_CA_INTERMEDIATE",
     missing_intermediate  |-> "MISSING_INTERMEDIATE",
     root_hash_mismatch    |-> "ROOT_HASH_MISMATCH",
     root_hash_not_checked |-> "ROOT_HASH_NOT_CHECKED",
     expired_root          |-> "EXPIRED_ROOT"]

Named == \E f \in Certs(findings) : f.classification = Expected[choice]

Accepted == \E f \in Certs(findings) : f.valid

Analysed == phase = "done" /\ ~skipped

\* The names on c are a common name and nothing else, so re-issuing keeps them.
PlainNames(c) == \A i \in 1..Len(c) : CommonName[Subject[c[i]]] = Subject[c[i]]

\* The absence of a pin is the one fault that the surroundings can mend.
FaultStands == choice = "root_hash_not_checked" => pin = NoPin

\* A fault in an intermediate can be mended by another certificate of its
\* name: of the chain or, where it has lapsed, of the machine.  Any other
\* stands whatever the names.
Unmended ==
    /\ FaultStands
    /\ choice \in POSITION_SCENARIOS => DistinctNames(given)
    /\ choice = "expired_intermediate" => Unaided(given)

\* Every scenario, at every intermediate, is classified as intended, where
\* names are kept and no CA of the machine helps the chain along.  (For the
\* root that has lapsed OpenSSL may find another one, if it has rolled over.)
ClassifiedAsIntended ==
    Analysed /\ Unmended /\ PlainNames(given) /\ Unaided(given)
             /\ (choice = "expired_root" => SingleRoot(given)) => Named

OnlyOneDefect ==
    \A f \in Certs(findings) : f.classification \in {Expected[choice], "CA_BUNDLE"}

\* Apart from the fault that was made, the validator sees no other, where no
\* two certificates share a name, names are kept and no CA of the machine
\* helps.  (A leaf that no longer parses leaves a bundle of CAs behind.)
NothingElseFound ==
    Analysed /\ FaultStands /\ DistinctNames(given) /\ PlainNames(given) /\ Unaided(given)
        => OnlyOneDefect

\* No corrupted chain is accepted, even where the original chain's pin is
\* found beside it, and whatever becomes of the names.  (The exception is the
\* intermediate that is made no CA: under a new name nothing refers to it any
\* more, and it is a sound leaf.)
NeverAccepted ==
    Analysed /\ Unmended /\ (choice = "non_ca_intermediate" => PlainNames(given))
        => ~Accepted
=============================================================================
