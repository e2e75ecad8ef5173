----------------------------- MODULE Scenarios -----------------------------
(***************************************************************************)
(* scenarios.apply_scenario: from a valid chain (leaf first) and one of    *)
(* the eight scenarios to the chain that is written.  Positions count from *)
(* 0, as in the code; 0 also stands for the position nobody gave.          *)
(*                                                                         *)
(* Re-issuing is openssl's work.  Reissued[<<c, s, lapsed, ca>>] is c,     *)
(* issued anew with its own key by s: past its notAfter at once when       *)
(* lapsed (days=0), a CA or not as ca says, and with nothing of the old    *)
(* subject but its common name.                                            *)
(*                                                                         *)
(* "Slips" are ways the code could have been wrong; see PathBuilding.      *)
(***************************************************************************)
EXTENDS Certs

CONSTANTS
    Reissued,     \* function from quadruples to Cert
    Mangled,      \* [Cert -> Unparsable], corrupt_cert
    CommonName    \* [Name -> Name], the name /CN=<common name of the old one>

Reissuable == DOMAIN Reissued

ASSUME ScenarioAssumption ==
    /\ \A x \in Reissuable :
          LET c == Reissued[x]
          IN  /\ c \in Cert \ Unparsable
              /\ Subject[c] = CommonName[Subject[x[1]]]
              /\ SubjectKey[c] = SubjectKey[x[1]]
              /\ Issuer[c] = Subject[x[2]]
              /\ SignerKey[c] = SubjectKey[x[2]]
              /\ c \in Authority <=> x[4]
    /\ \A c \in DOMAIN Mangled : Mangled[c] \in Unparsable

\* Certificates issued with days=0.
ShortLived == {Reissued[x] : x \in {y \in Reissuable : y[3]}}

SCENARIOS ==
    {"expired_server", "corrupted_server", "expired_intermediate",
     "non_ca_intermediate", "missing_intermediate", "root_hash_mismatch",
     "root_hash_not_checked", "expired_root"}

POSITION_SCENARIOS == {"expired_intermediate", "non_ca_intermediate", "missing_intermediate"}

\* An intermediate: neither the leaf nor the last certificate.
IsIntermediate(chain, position) == position > 0 /\ position < Len(chain) - 1

\* The chain with the certificate at `target` re-issued by the one at
\* `signer`, as a set: empty (SystemExit) when a private key is missing.
resign(chain, target, signer, keys, lapsed, ca) ==
    LET t == chain[target + 1]
        s == chain[signer + 1]
    IN  IF {SubjectKey[t], SubjectKey[s]} \subseteq keys
        THEN {[chain EXCEPT ![target + 1] = Reissued[<<t, s, lapsed, ca>>]]}
        ELSE {}

\* Slip: one letter, the re-issued intermediate is no CA.
expired_intermediate_nonca(chain, position, keys) ==
    IF IsIntermediate(chain, position)
    THEN resign(chain, position, position + 1, keys, TRUE, FALSE) ELSE {}

expired_intermediate(chain, position, keys) ==
    IF IsIntermediate(chain, position)
    THEN resign(chain, position, position + 1, keys, TRUE, TRUE) ELSE {}

non_ca_intermediate(chain, position, keys) ==
    IF IsIntermediate(chain, position)
    THEN resign(chain, position, position + 1, keys, FALSE, FALSE) ELSE {}

\* Slips: the positions count from 1; the link is dropped from a copy.
missing_intermediate_below(chain, position) ==
    IF IsIntermediate(chain, position)
    THEN {SubSeq(chain, 1, position - 1) \o SubSeq(chain, position + 1, Len(chain))}
    ELSE {}

missing_intermediate_kept(chain, position) ==
    IF IsIntermediate(chain, position) THEN {chain} ELSE {}

missing_intermediate(chain, position) ==
    IF IsIntermediate(chain, position)
    THEN {SubSeq(chain, 1, position) \o SubSeq(chain, position + 2, Len(chain))}
    ELSE {}

\* The body of the leaf is mangled, its framing kept: still one block.
corrupted_server(chain) == {[chain EXCEPT ![1] = Mangled[chain[1]]]}

\* The position of the root is the first the certificate stands at.
expired_root(chain, keys) ==
    UNION {resign(chain, index, index, keys, TRUE, TRUE) :
        index \in {i \in 0..Len(chain)-1 :
                    /\ chain[i+1] \in find_root(chain)
                    /\ \A j \in 1..i : chain[j] # chain[i+1]}}

\* The corrupted chain, as a set; empty when the scenario is skipped.
apply_scenario(choice, chain, position, keys) ==
    CASE choice = "expired_server" -> resign(chain, 0, 1, keys, TRUE, FALSE)
      [] choice = "corrupted_server" -> corrupted_server(chain)
      [] choice = "expired_intermediate" -> expired_intermediate(chain, position, keys)
      [] choice = "non_ca_intermediate" -> non_ca_intermediate(chain, position, keys)
      [] choice = "missing_intermediate" -> missing_intermediate(chain, position)
      [] choice = "root_hash_mismatch" -> {c \in {chain} : find_root(c) # {}}
      [] choice = "root_hash_not_checked" -> {chain}
      [] choice = "expired_root" -> expired_root(chain, keys)
=============================================================================
