------------------------------- MODULE Certs -------------------------------
(***************************************************************************)
(* The certificates the toolkit reads, with the attributes its decisions   *)
(* depend on (src/cracy_certval/certs.py), and the questions chains.py     *)
(* asks of a path.                                                         *)
(*                                                                         *)
(* An element of Cert is a certificate up to its canonical fingerprint     *)
(* SHA256(DER): two PEM blocks that encode the same certificate are the    *)
(* same element, so the fingerprint of a certificate is the certificate.   *)
(* A block OpenSSL cannot parse is an element of Unparsable; every         *)
(* accessor of certs.py raises on it and is_ca answers False.              *)
(***************************************************************************)
EXTENDS Naturals, Sequences, FiniteSets

CONSTANTS
    Cert,        \* certificate blocks
    Name,        \* distinguished names
    Key,         \* key pairs
    Unparsable,  \* the blocks OpenSSL cannot parse
    Subject,     \* [Cert -> Name] the subject name
    Issuer,      \* [Cert -> Name] the issuer name
    Authority,   \* the certificates whose basic constraints say CA:TRUE
    SubjectKey,  \* [Cert -> Key] the certified key
    SignerKey    \* [Cert -> Key] the key that signed the certificate

ASSUME CertAssumption ==
    /\ Unparsable \subseteq Cert
    /\ Authority \subseteq Cert
    /\ Subject \in [Cert -> Name]
    /\ Issuer \in [Cert -> Name]
    /\ SubjectKey \in [Cert -> Key]
    /\ SignerKey \in [Cert -> Key]

-----------------------------------------------------------------------------
(* certs.py: the accessors *)

Parses(c) == c \notin Unparsable

is_ca(c) == Parses(c) /\ c \in Authority

\* The code's test compares names only: a CA re-signed with an older key of
\* the same name is "self-signed" too.
is_self_signed(c) == Parses(c) /\ Subject[c] = Issuer[c]

\* What a cryptographic check would call self-signed.
SignsItself(c) == Subject[c] = Issuer[c] /\ SubjectKey[c] = SignerKey[c]

-----------------------------------------------------------------------------
(* Sequences of certificates: bundles, in the order they were read, and    *)
(* paths, leaf first.                                                      *)

Certs(s) == {s[i] : i \in 1..Len(s)}

Last(s) == s[Len(s)]

NoRepeats(s) == \A i, j \in 1..Len(s) : s[i] = s[j] => i = j

SubjectsOf(s) == {Subject[c] : c \in {d \in Certs(s) : Parses(d)}}

IssuersOf(s) == {Issuer[c] : c \in {d \in Certs(s) : Parses(d)}}

\* A leaf is not a CA, and nothing in the bundle names it as its issuer.
IsLeaf(b, c) == Parses(c) /\ ~is_ca(c) /\ Subject[c] \notin IssuersOf(b)

\* p may follow c on a path: a CA that carries the name of c's issuer.
IsParent(c, p) == is_ca(p) /\ Subject[p] = Issuer[c]

-----------------------------------------------------------------------------
(* chains.py: the questions asked of a finished path *)

\* The certificate of path that satisfies P and comes first, as a set.
FirstWith(path, P(_)) ==
    {path[i] : i \in {k \in 1..Len(path) :
                        P(path[k]) /\ \A j \in 1..k-1 : ~P(path[j])}}

\* The trust anchor of path, as a set; empty for the code's None.  The first
\* self-signed CA; failing that, the first CA whose issuer is not on the path.
find_root(path) ==
    LET anchor(c)  == is_ca(c) /\ is_self_signed(c)
        highest(c) == is_ca(c) /\ Issuer[c] \notin SubjectsOf(path)
    IN  IF FirstWith(path, anchor) # {} THEN FirstWith(path, anchor)
        ELSE FirstWith(path, highest)

chain_is_incomplete(path) ==
    \/ Len(path) < 2
    \/ ~(is_ca(Last(path)) /\ is_self_signed(Last(path)))
=============================================================================
