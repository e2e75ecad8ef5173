------------------------------- MODULE Verify -------------------------------
(***************************************************************************)
(* chains.verify_chain: what `openssl verify -x509_strict -CAfile <highest  *)
(* certificate> -untrusted <the ones between> <leaf>` answers.             *)
(*                                                                         *)
(* OpenSSL is external and is modelled by how it is used here: it gets the *)
(* certificates of the path but not their order, builds a chain of its own *)
(* from the leaf, prefers a trusted issuer to any other, does not          *)
(* backtrack, and judges the chain it built.  An answer is the set of      *)
(* messages printed; the chain verifies when there is none.                *)
(*                                                                         *)
(* Whom it trusts: the command says -CAfile, but neither -no-CApath nor    *)
(* -no-CAstore, so the CAs of the machine's default directory and store    *)
(* are looked up as well - by name, and only for a name the CAfile does    *)
(* not hold.                                                               *)
(***************************************************************************)
EXTENDS Certs

CONSTANTS
    Identified,      \* carry the key identifiers -x509_strict asks for
    Unfit,           \* CA certificates OpenSSL rejects in that role: no
                     \* keyCertSign, or a path length they do not allow
    System,          \* the CAs installed in OpenSSL's default directory and
                     \* store on the machine
    SelfSignedText   \* what this OpenSSL prints on meeting a self-signed
                     \* certificate that is not trusted: "self signed ..."
                     \* up to 1.1.1, "self-signed ..." from 3.0 on

ASSUME VerifyAssumption ==
    /\ IsFiniteSet(System) /\ System \subseteq Authority \ Unparsable
    /\ SelfSignedText \in {"self signed certificate", "self-signed certificate"}

NoIssuer    == "unable to get issuer certificate"
NoLocal     == "unable to get local issuer certificate"
BadSignature == "certificate signature failure"
InvalidCA   == "invalid ca certificate"
HasExpired  == "certificate has expired"
MissingKeyId == "missing authority key identifier"
TooLong     == "certificate chain too long"

-----------------------------------------------------------------------------
(* OpenSSL, external *)

\* p can be the issuer of c: the names agree, and so do the key identifiers
\* when both certificates carry them.
MayIssue(p, c) ==
    /\ Subject[p] = Issuer[c]
    /\ {p, c} \subseteq Identified => SubjectKey[p] = SignerKey[c]

SelfIssued(c) == MayIssue(c, c)

\* The trusted issuers of c: the anchor of the CAfile hides the CAs of the
\* machine that share its name.
Offered(c, anchor) ==
    {t \in IF Subject[anchor] = Issuer[c] THEN {anchor} ELSE System : MayIssue(t, c)}

\* OpenSSL stops looking among the untrusted certificates at c.
Ends(c, anchor) == SelfIssued(c) \/ Offered(c, anchor) # {}

\* The issuers of c among the certificates of us that s does not use yet.
Issuers(us, s, c) ==
    {i \in 1..Len(us) : us[i] \notin Certs(s) /\ MayIssue(us[i], c)}

\* The one OpenSSL takes: the first that has not expired; if all have, the
\* one that lasted longest, which the model leaves open.
Taken(us, s, c, expired) ==
    LET all  == Issuers(us, s, c)
        live == {i \in all : us[i] \notin expired}
    IN  IF live = {} THEN all ELSE {i \in live : \A j \in live : i <= j}

\* The chains OpenSSL may have built of untrusted certificates.
Built(leaf, untrusted, anchor, expired) ==
    LET Steps(s) ==
            /\ NoRepeats(s)
            /\ \A i \in 1..Len(s)-1 :
                  /\ ~Ends(s[i], anchor)
                  /\ \E j \in Taken(untrusted, SubSeq(s, 1, i), s[i], expired) :
                        s[i+1] = untrusted[j]
        Stops(s) == Ends(Last(s), anchor) \/ Issuers(untrusted, s, Last(s)) = {}
        Tries == UNION {{<<leaf>> \o rest : rest \in [1..n -> Certs(untrusted)]} :
                            n \in 0..Len(untrusted)}
    IN  {s \in Tries : Steps(s) /\ Stops(s)}

\* The trusted issuers of c OpenSSL may take: any that has not expired.
Preferred(c, anchor, expired) ==
    LET live == Offered(c, anchor) \ expired
    IN  IF live = {} THEN Offered(c, anchor) ELSE live

\* How the chain may go on above c, the last untrusted certificate: once a
\* trusted issuer is found only trusted ones are looked for, up to one that
\* issued itself or has no trusted issuer, or round a circle.
Climbs(c, anchor, expired) ==
    LET Trusted == System \cup {anchor}
        Steps(t) ==
            /\ t[1] \in Preferred(c, anchor, expired)
            /\ \A i \in 1..Len(t)-1 :
                  /\ ~SelfIssued(t[i])
                  /\ t[i+1] \in Preferred(t[i], anchor, expired)
            /\ \A i, j \in 1..Len(t)-1 : t[i] = t[j] => i = j
        Stops(t) == Ends(Last(t), anchor) => SelfIssued(Last(t)) \/ ~NoRepeats(t)
    IN  IF SelfIssued(c) \/ Offered(c, anchor) = {} THEN {<<>>}
        ELSE {t \in UNION {[1..n -> Trusted] : n \in 1..Cardinality(Trusted)+1} :
                Steps(t) /\ Stops(t)}

\* What a complete chain is told off for.
Faults(chain, expired) ==
    {m \in {HasExpired, InvalidCA, MissingKeyId, BadSignature} :
        \/ m = HasExpired /\ Certs(chain) \cap expired # {}
        \/ m = InvalidCA /\ \E i \in 2..Len(chain) : chain[i] \in Unfit
        \/ m = MissingKeyId /\ ~(Certs(chain) \subseteq Identified)
        \/ m = BadSignature /\ \E i \in 1..Len(chain)-1 :
                                    SubjectKey[chain[i+1]] # SignerKey[chain[i]]}

\* The messages about a chain of the untrusted certificates s and the trusted
\* ones t.
Judgement(s, t, expired) ==
    CASE t = <<>> /\ SelfIssued(Last(s)) -> {SelfSignedText}
      [] t = <<>> /\ ~SelfIssued(Last(s)) -> {NoLocal}
      [] t # <<>> /\ SelfIssued(Last(t)) -> Faults(s \o t, expired)
      [] t # <<>> /\ ~SelfIssued(Last(t)) ->
            IF NoRepeats(t) THEN {NoIssuer} ELSE {TooLong}

Judgements(leaf, untrusted, anchor, expired) ==
    UNION {{Judgement(s, t, expired) : t \in Climbs(Last(s), anchor, expired)} :
              s \in Built(leaf, untrusted, anchor, expired)}

-----------------------------------------------------------------------------

\* Slip: the highest intermediate is not handed over.
verify_chain_short(path, expired) ==
    Judgements(path[1], SubSeq(path, 2, Len(path) - 2), Last(path), expired)

\* The answers verify_chain may get for path while the certificates in
\* expired are past their notAfter.
verify_chain(path, expired) ==
    Judgements(path[1], SubSeq(path, 2, Len(path) - 1), Last(path), expired)

-----------------------------------------------------------------------------
(* What a chain should be, without OpenSSL or an order of search.  Only    *)
(* properties refer to these.                                              *)

DistinctNames(p) ==
    \A i, j \in 1..Len(p) : Subject[p[i]] = Subject[p[j]] => i = j

SingleRoot(p) ==
    \A i, j \in 1..Len(p) :
        /\ is_ca(p[i]) /\ is_self_signed(p[i])
        /\ is_ca(p[j]) /\ is_self_signed(p[j])
        => i = j

\* No CA of the machine takes part: none has the name of an issuer on p, that
\* of the highest certificate apart, which the CAfile hides.
Unaided(p) ==
    \A c \in Certs(p), t \in System :
        Subject[t] = Issuer[c] => Issuer[c] = Subject[Last(p)]

Signed(c, signer) == Subject[signer] = Issuer[c] /\ SubjectKey[signer] = SignerKey[c]

\* The certificates of p hold an unbroken chain of signatures from its first
\* up to root, which is self-signed, through CAs, and none of them is lapsed.
Vouches(p, root, lapsed) ==
    /\ root \in Cert /\ SignsItself(root)
    /\ \E q \in UNION {[1..n -> Certs(p) \ lapsed] : n \in 1..Len(p)} :
            /\ q[1] = p[1]
            /\ Last(q) = root
            /\ \A i \in 1..Len(q)-1 : Signed(q[i], q[i+1]) /\ is_ca(q[i+1])

\* A path with nothing wrong in it.
Sound(p, lapsed) ==
    /\ DistinctNames(p)
    /\ \A i \in 1..Len(p)-1 : Signed(p[i], p[i+1])
    /\ SignsItself(Last(p))
    /\ Certs(p) \subseteq Identified \ (Unfit \cup lapsed)
=============================================================================
