------------------------------ MODULE Analysis ------------------------------
(***************************************************************************)
(* analysis.analyze_scenario: from the blocks of one scenario to its       *)
(* findings.  Structure is judged first, then, for a chain that verifies,  *)
(* the trust anchor; a failed verification is explained by looking at the  *)
(* certificates one by one before OpenSSL's messages are consulted.        *)
(*                                                                         *)
(* The clock runs while the call works: verify_chain and every is_expired  *)
(* read it anew, and a certificate may lapse between two readings.         *)
(*                                                                         *)
(* build_paths is used by its promise (PathBuilding!KeepsPromise): it      *)
(* lists the paths of the bundle, each once; the order is left open.       *)
(*                                                                         *)
(* "Slips" are ways the code could have been wrong; see PathBuilding.      *)
(***************************************************************************)
EXTENDS Paths, Verify

CONSTANTS
    Bundles,     \* the blocks a scenario may hold, in reading order
    Pins,        \* what find_pin_file and read_pin may come back with: the
                 \* root a pin names, or one of the next two
    NoPin,       \* no pin file
    Unreadable,  \* a pin file without a digest
    Mortal       \* the certificates whose notAfter may be near

ASSUME AnalysisAssumption ==
    /\ Bundles \subseteq Seq(Cert)
    /\ NoPin # Unreadable
    /\ {NoPin, Unreadable} \cap Cert = {}
    /\ Pins \subseteq Cert \cup {NoPin, Unreadable}
    /\ Mortal \subseteq Cert

VARIABLES
    blocks,    \* the PEM blocks of the scenario
    pin,       \* the pin file's content
    expired,   \* the certificates past their notAfter
    began,     \* `expired` as it was when the call began (history only)
    phase,     \* what the call does next
    paths,     \* the result of build_paths
    messages,  \* OpenSSL's answer about the current path
    scan,      \* the position is_expired looks at next
    late,      \* whether an intermediate was found expired
    findings   \* the result

vars == <<blocks, pin, expired, began, phase, paths, messages, scan, late,
          findings>>

-----------------------------------------------------------------------------

\* The blocks that parse, in reading order.
split_certs(pems) ==
    LET kept[i \in 0..Len(pems)] ==
            IF i = 0 THEN <<>>
            ELSE IF Parses(pems[i]) THEN Append(kept[i-1], pems[i]) ELSE kept[i-1]
    IN  kept[Len(pems)]

valid_certs == split_certs(blocks)

corrupted_count == Len(blocks) - Len(valid_certs)

\* findings.Finding.  Its severity and texts follow from the classification.
Finding(p, class, good) == [path |-> p, classification |-> class, valid |-> good]

\* A finding about the whole scenario.
General(class) == Finding(<<>>, class, FALSE)

\* One finding per path, in the order of the paths.
path == paths[Len(findings) + 1]

Report(class) ==
    findings' = Append(findings, Finding(path, class, class = "VALID"))

\* Slip: an issuer counts as unresolved although it is on the path.
find_non_ca_resolved(p) ==
    {c \in Certs(valid_certs) : Subject[c] \in IssuersOf(p) /\ ~is_ca(c)}

\* The certificates that would continue p were they CAs.
find_non_ca_intermediates(p) ==
    {c \in Certs(valid_certs) :
        Subject[c] \in IssuersOf(p) \ SubjectsOf(p) /\ ~is_ca(c)}

\* The messages each entry matches; the first entry that matches decides.
_OUTPUT_SIGNATURES ==
    << [needles |-> {"unable to load certificate"}, class |-> "CORRUPTED_CERTIFICATE"],
       [needles |-> {BadSignature}, class |-> "INVALID_SIGNATURE"],
       [needles |-> {InvalidCA}, class |-> "NON_CA_INTERMEDIATE"],
       [needles |-> {NoLocal, NoIssuer}, class |-> "MISSING_INTERMEDIATE"],
       [needles |-> {"self signed certificate"}, class |-> "SELF_SIGNED"],
       [needles |-> {"unable to verify the first certificate"}, class |-> "UNTRUSTED_ROOT"] >>

Matched == {i \in 1..Len(_OUTPUT_SIGNATURES) :
                _OUTPUT_SIGNATURES[i].needles \cap messages # {}}

\* The last stages of classify_failure.  The path reaches a self-signed CA
\* here, so its tests for a short or an open path (179-197) never apply.
Classified ==
    CASE find_non_ca_intermediates(path) # {} -> "NON_CA_INTERMEDIATE"
      [] find_non_ca_intermediates(path) = {} /\ Matched # {} ->
            _OUTPUT_SIGNATURES[CHOOSE i \in Matched : \A j \in Matched : i <= j].class
      [] OTHER -> "UNKNOWN_FAILURE"

-----------------------------------------------------------------------------

\* What may lapse: certificates of the scenario and CAs of the machine.
Perishable == Mortal \cap (Certs(blocks) \cup System)

Init ==
    /\ blocks \in Bundles
    /\ pin \in Pins
    /\ expired \in SUBSET Perishable
    /\ began = expired
    /\ phase = "load"
    /\ paths = <<>>
    /\ messages = {}
    /\ scan = 0
    /\ late = FALSE
    /\ findings = <<>>

\* A certificate reaches its notAfter.
Lapse ==
    /\ phase # "done"
    /\ \E c \in Perishable \ expired : expired' = expired \cup {c}
    /\ UNCHANGED <<blocks, pin, began, phase, paths, messages, scan, late, findings>>

-----------------------------------------------------------------------------
(* The whole scenario *)

Conclude(fs) ==
    /\ phase = "load"
    /\ findings' = fs
    /\ phase' = "done"
    /\ UNCHANGED <<blocks, pin, expired, began, paths, messages, scan, late>>

FindNothing == blocks = <<>> /\ Conclude(<<>>)

ReportAllCorrupted ==
    /\ blocks # <<>>
    /\ valid_certs = <<>>
    /\ Conclude(<<General("CORRUPTED_CERTIFICATE")>>)

ReportCaBundle ==
    /\ valid_certs # <<>>
    /\ \A c \in Certs(valid_certs) : is_ca(c)
    /\ LET bundle == Finding(<<>>, "CA_BUNDLE", corrupted_count = 0)
       IN  Conclude(IF corrupted_count = 0 THEN <<bundle>>
                    ELSE <<bundle, General("CORRUPTED_CERTIFICATE")>>)

HoldsEndEntity == \E c \in Certs(valid_certs) : ~is_ca(c)

ReportNoLeaf ==
    /\ HoldsEndEntity
    /\ PathsOf(valid_certs) = {}
    /\ Conclude(<<General(IF corrupted_count = 0 THEN "MISSING_INTERMEDIATE"
                          ELSE "CORRUPTED_CERTIFICATE")>>)

BuildPaths ==
    /\ phase = "load"
    /\ HoldsEndEntity
    /\ PathsOf(valid_certs) # {}
    /\ paths' \in Listings(PathsOf(valid_certs))
    /\ phase' = "path"
    /\ UNCHANGED <<blocks, pin, expired, began, messages, scan, late, findings>>

-----------------------------------------------------------------------------
(* check_structural_integrity *)

Pending == phase = "path" /\ Len(findings) < Len(paths)

\* _incomplete_finding
StopShort ==
    /\ Pending
    /\ chain_is_incomplete(path)
    /\ Report(IF find_non_ca_intermediates(path) # {} THEN "NON_CA_INTERMEDIATE"
              ELSE "MISSING_INTERMEDIATE")
    /\ UNCHANGED <<blocks, pin, expired, began, phase, paths, messages, scan, late>>

VerifyChain ==
    /\ Pending
    /\ ~chain_is_incomplete(path)
    /\ messages' \in verify_chain(path, expired)
    /\ phase' = IF messages' = {} THEN "anchor" ELSE "leaf"
    /\ UNCHANGED <<blocks, pin, expired, began, paths, scan, late, findings>>

-----------------------------------------------------------------------------
(* check_trust_anchor *)

\* Slip: a pin that names any certificate of the path will do.
AnchorVerdictAnywhere ==
    CASE pin = NoPin -> "ROOT_HASH_NOT_CHECKED"
      [] pin # NoPin /\ pin \in Certs(path) -> "VALID"
      [] OTHER -> "ROOT_HASH_MISMATCH"

AnchorVerdict ==
    CASE pin = NoPin -> "ROOT_HASH_NOT_CHECKED"
      [] pin # NoPin /\ pin \in find_root(path) -> "VALID"
      [] OTHER -> "ROOT_HASH_MISMATCH"

CheckAnchor ==
    /\ phase = "anchor"
    /\ Report(AnchorVerdict)
    /\ phase' = "path"
    /\ UNCHANGED <<blocks, pin, expired, began, paths, messages, scan, late>>

-----------------------------------------------------------------------------
(* classify_failure: one is_expired at a time *)

ReadLeaf ==
    /\ phase = "leaf"
    /\ IF path[1] \in expired
       THEN Report("EXPIRED_LEAF") /\ phase' = "path"
       ELSE phase' = "intermediates" /\ UNCHANGED findings
    /\ scan' = 2
    /\ late' = FALSE
    /\ UNCHANGED <<blocks, pin, expired, began, paths, messages>>

\* Slip: each reading overwrites the one before.
ReadIntermediateAnew ==
    /\ phase = "intermediates"
    /\ scan < Len(path)
    /\ late' = (path[scan] \in expired)
    /\ scan' = scan + 1
    /\ UNCHANGED <<blocks, pin, expired, began, phase, paths, messages, findings>>

ReadIntermediate ==
    /\ phase = "intermediates"
    /\ scan < Len(path)
    /\ late' = (late \/ path[scan] \in expired)
    /\ scan' = scan + 1
    /\ UNCHANGED <<blocks, pin, expired, began, phase, paths, messages, findings>>

EndIntermediates ==
    /\ phase = "intermediates"
    /\ scan = Len(path)
    /\ IF late
       THEN Report("EXPIRED_INTERMEDIATE") /\ phase' = "path"
       ELSE phase' = "root" /\ UNCHANGED findings
    /\ UNCHANGED <<blocks, pin, expired, began, paths, messages, scan, late>>

ReadRoot ==
    /\ phase = "root"
    /\ IF find_root(path) \cap expired # {}
       THEN Report("EXPIRED_ROOT") /\ phase' = "path"
       ELSE phase' = "messages" /\ UNCHANGED findings
    /\ UNCHANGED <<blocks, pin, expired, began, paths, messages, scan, late>>

ReadMessages ==
    /\ phase = "messages"
    /\ Report(Classified)
    /\ phase' = "path"
    /\ UNCHANGED <<blocks, pin, expired, began, paths, messages, scan, late>>

-----------------------------------------------------------------------------

\* Slip: corruption is added only where there is nothing else to say.
UnreportedIfSilent == corrupted_count > 0 /\ findings = <<>>

Unreported ==
    /\ corrupted_count > 0
    /\ \A i \in 1..Len(findings) : findings[i].classification # "CORRUPTED_CERTIFICATE"

Return ==
    /\ phase = "path"
    /\ Len(findings) = Len(paths)
    /\ findings' = IF Unreported THEN Append(findings, General("CORRUPTED_CERTIFICATE"))
                   ELSE findings
    /\ phase' = "done"
    /\ UNCHANGED <<blocks, pin, expired, began, paths, messages, scan, late>>

-----------------------------------------------------------------------------

Step ==
    \/ FindNothing \/ ReportAllCorrupted \/ ReportCaBundle \/ ReportNoLeaf
    \/ BuildPaths \/ StopShort \/ VerifyChain \/ CheckAnchor
    \/ ReadLeaf \/ ReadIntermediate \/ EndIntermediates \/ ReadRoot \/ ReadMessages
    \/ Return

Next == Step \/ Lapse

\* No certificate is bound to lapse while the call works.
Spec == Init /\ [][Next]_vars

-----------------------------------------------------------------------------
(* Properties *)

\* The findings about a path that the bundle holds up to a self-signed CA,
\* and those about a path that stops short of one.
Judged == {f \in Certs(findings) : f.path # <<>>}

Complete == {f \in Judged : ~chain_is_incomplete(f.path)}

\* VALID means that the signatures lead to the very certificate the pin names.
TrustedIfValid(f) == f.valid /\ SingleRoot(f.path) => Vouches(f.path, pin, began)

\* VALID is only said of a chain whose signatures lead to the very
\* certificate the pin names.  OpenSSL is handed the last certificate of the
\* path, the pin is compared with what find_root picks, and OpenSSL may use
\* other certificates than the path suggests; for a path with one self-signed
\* CA, and no CA of the machine to help it, the three agree all the same.
ValidMeansTrusted == \A f \in Judged : Unaided(f.path) => TrustedIfValid(f)

\* No false alarm: a sound path is VALID if the pin names its root, and
\* otherwise only the pin is complained about, whatever else the bundle holds
\* (rolled-over CAs, a CA:FALSE twin, blocks that do not parse), unless the
\* machine knows another CA by the name of one of its issuers.
SoundPathAccepted ==
    \A f \in Complete :
        Sound(f.path, expired) /\ Unaided(f.path) =>
            f.classification = CASE pin = NoPin -> "ROOT_HASH_NOT_CHECKED"
                                 [] pin = Last(f.path) -> "VALID"
                                 [] OTHER -> "ROOT_HASH_MISMATCH"

\* A certificate that had expired before the call never passes and is never
\* put down to another cause, whatever OpenSSL says about the chain and
\* whatever lapses while the call works; the lowest level is blamed first.
\* No two certificates of the path share a name, and no CA of the machine has
\* the name of one of its issuers.
ExpiryIsNamed ==
    \A f \in Complete :
        DistinctNames(f.path) /\ Unaided(f.path) =>
            LET n == Len(f.path)
                Blamed(i) == CASE i = 1 -> {"EXPIRED_LEAF"}
                               [] i \in 2..n-1 -> {"EXPIRED_LEAF", "EXPIRED_INTERMEDIATE"}
                               [] OTHER -> {"EXPIRED_LEAF", "EXPIRED_INTERMEDIATE", "EXPIRED_ROOT"}
            IN  \A i \in 1..n : f.path[i] \in began => f.classification \in Blamed(i)

\* A chain that stops short is put down to a CA:FALSE intermediate exactly
\* when the bundle holds certificates of the missing issuer's name and none
\* of them is a CA; otherwise the issuer really is not there, or the chain
\* runs in a circle.
GapIsExplained ==
    \A f \in Judged \ Complete :
        LET namesakes == {c \in Certs(valid_certs) : Subject[c] = Issuer[Last(f.path)]}
        IN  f.classification = "NON_CA_INTERMEDIATE"
                <=> namesakes # {} /\ \A c \in namesakes : ~is_ca(c)

\* Whichever way the call ends, it speaks of corruption when there is a block
\* that does not parse, and only then.
CorruptionNeverSilent ==
    phase = "done" =>
        (corrupted_count > 0 <=> \E f \in Certs(findings) :
                                    f.classification = "CORRUPTED_CERTIFICATE")

-----------------------------------------------------------------------------
(* What the repository says of the analysis and the code does not keep     *)

\* "whether the root the chain arrives at is the root that was actually
\* expected" (analysis.py:10): VALID for a pin the leaf's signatures do not
\* lead to.
AnchorIsArrivedRoot == \A f \in Judged : f.valid => Vouches(f.path, pin, began)

\* "so the system trust store cannot influence the result: a chain is judged
\* against the material supplied" (chains.py:181-182): VALID for a pinned root
\* the chain reaches only through a lapsed certificate, because OpenSSL took a
\* CA of the machine instead.
SuppliedMaterialOnly == \A f \in Judged : TrustedIfValid(f)
=============================================================================
