-------------------------- MODULE Analysis_proofs --------------------------
(***************************************************************************)
(* Proofs about Analysis, for every PKI, bundle, pin, order of the paths,  *)
(* clock and choice OpenSSL makes: what VALID means, that nothing sound is *)
(* rejected, that lapsed certificates, gaps and corruption are named.      *)
(*                                                                         *)
(* The second half is about RoundTrip, for every chain the invalidator may *)
(* start from: what the analysis says of a chain with a fault in it.       *)
(***************************************************************************)
EXTENDS RoundTrip, Chains_proofs

-----------------------------------------------------------------------------
(* split_certs *)

\* What the recursive function in split_certs has kept at i, given the values
\* f before.
Kept(pems, f, i) ==
    IF i = 0 THEN <<>>
    ELSE IF Parses(pems[i]) THEN Append(f[i-1], pems[i]) ELSE f[i-1]

\* The equation has a solution on every beginning of pems.
LEMMA KeptExists ==
  ASSUME NEW pems \in Seq(Cert), NEW n \in 0..Len(pems)
  PROVE  \E f : f = [i \in 0..n |-> Kept(pems, f, i)]
<1> DEFINE Bad == {k \in 0..Len(pems) : ~\E f : f = [i \in 0..k |-> Kept(pems, f, i)]}
<1>1. SUFFICES ASSUME Bad # {} PROVE FALSE
  OBVIOUS
<1>2. PICK k \in Bad : \A j \in Bad : k <= j
  <2>1. Bad \in SUBSET Nat
    OBVIOUS
  <2> HIDE DEF Bad
  <2> QED
    BY <1>1, <2>1, Least
<1>3. k \in Nat
  OBVIOUS
<1>4. k # 0
  <2> DEFINE f == [i \in 0..0 |-> <<>>]
  <2>1. f = [i \in 0..0 |-> Kept(pems, f, i)]
    BY DEF Kept
  <2> QED
    BY <2>1
<1>5. k - 1 \in 0..Len(pems) /\ k - 1 \notin Bad
  BY <1>2, <1>4
<1>6. PICK g : g = [i \in 0..k-1 |-> Kept(pems, g, i)]
  BY <1>5
<1> DEFINE f == [i \in 0..k |-> IF i = k THEN Kept(pems, g, k) ELSE g[i]]
<1>7. \A i \in 0..k : f[i] = Kept(pems, f, i)
  <2> TAKE i \in 0..k
  <2>1. CASE i = k
    BY <2>1, <1>3, <1>4 DEF Kept
  <2>2. CASE i # k
    <3>1. i \in 0..k-1
      BY <2>2, <1>3
    <3>2. f[i] = g[i] /\ (i # 0 => f[i-1] = g[i-1])
      BY <2>2, <1>3, <3>1
    <3>3. g[i] = Kept(pems, g, i)
      BY <1>6, <3>1
    <3> QED
      BY <3>2, <3>3, <3>1 DEF Kept
  <2> QED
    BY <2>1, <2>2
<1>8. f = [i \in 0..k |-> Kept(pems, f, i)]
  <2>0. f = [i \in 0..k |-> f[i]]
    OBVIOUS
  <2> HIDE DEF f
  <2> QED
    BY <1>7, <2>0
<1> QED
  BY <1>8, <1>2

\* split_certs keeps exactly the blocks that parse; it returns fewer blocks
\* than it was given exactly if there is one that does not.
LEMMA SplitFacts ==
  ASSUME NEW pems \in Seq(Cert)
  PROVE  /\ split_certs(pems) \in Seq(Cert)
         /\ Len(split_certs(pems)) <= Len(pems)
         /\ Certs(split_certs(pems)) = {c \in Certs(pems) : Parses(c)}
         /\ Len(split_certs(pems)) = Len(pems) <=> \A c \in Certs(pems) : Parses(c)
<1> DEFINE n == Len(pems)
           kept == CHOOSE f : f = [i \in 0..n |-> Kept(pems, f, i)]
           Upto(k) == {pems[i] : i \in 1..k}
           Right(k) ==
              /\ kept[k] \in Seq(Cert)
              /\ Len(kept[k]) <= k
              /\ Certs(kept[k]) = {c \in Upto(k) : Parses(c)}
              /\ Len(kept[k]) = k <=> \A c \in Upto(k) : Parses(c)
           Wrong == {k \in 0..n : ~Right(k)}
<1>0. n \in Nat /\ n \in 0..n
  BY LenProperties
<1>1. kept = [i \in 0..n |-> Kept(pems, kept, i)]
  BY <1>0, KeptExists
<1>2. split_certs(pems) = kept[n]
  BY DEF split_certs, Kept
<1> HIDE DEF kept
<1>3. kept[0] = <<>>
  BY <1>0, <1>1 DEF Kept
<1>4. \A k \in 1..n : kept[k] = IF Parses(pems[k]) THEN Append(kept[k-1], pems[k]) ELSE kept[k-1]
  <2> TAKE k \in 1..n
  <2>1. k \in 0..n /\ k # 0
    BY <1>0
  <2>2. kept[k] = Kept(pems, kept, k)
    BY <1>1, <2>1
  <2> QED
    BY <2>1, <2>2 DEF Kept
<1>5. Right(0)
  <2>1. Certs(<<>>) = {} /\ Upto(0) = {} /\ Len(<<>>) = 0
    BY DEF Certs
  <2> QED
    BY <1>3, <2>1
<1>6. ASSUME NEW k \in 1..n, Right(k-1)
      PROVE  Right(k)
  <2>0. k \in Nat /\ k - 1 \in Nat /\ pems[k] \in Cert
    BY <1>0, ElementOfSeq
  <2>1. Upto(k) = Upto(k-1) \cup {pems[k]}
    <3>1. 1..k = (1..k-1) \cup {k}
      BY <2>0
    <3> QED
      BY <3>1
  <2> DEFINE s == kept[k-1]
  <2>2. /\ s \in Seq(Cert) /\ Len(s) \in Nat /\ Len(s) <= k - 1
        /\ Certs(s) = {c \in Upto(k-1) : Parses(c)}
        /\ Len(s) = k - 1 <=> \A c \in Upto(k-1) : Parses(c)
    BY <1>6, LenProperties
  <2> HIDE DEF s, Upto
  <2>3. CASE Parses(pems[k])
    <3>1. kept[k] = Append(s, pems[k])
      BY <1>4, <2>3 DEF s
    <3>2. /\ kept[k] \in Seq(Cert) /\ Len(kept[k]) = Len(s) + 1
          /\ Certs(kept[k]) = Certs(s) \cup {pems[k]}
      BY <3>1, <2>0, <2>2, CertsOfAppend, AppendProperties
    <3>3. Len(kept[k]) <= k /\ (Len(kept[k]) = k <=> Len(s) = k - 1)
      BY <3>2, <2>0, <2>2
    <3>4. Certs(kept[k]) = {c \in Upto(k) : Parses(c)}
      BY <3>2, <2>1, <2>2, <2>3
    <3>5. Len(kept[k]) = k <=> \A c \in Upto(k) : Parses(c)
      BY <3>3, <2>1, <2>2, <2>3
    <3> QED
      BY <3>2, <3>3, <3>4, <3>5
  <2>4. CASE ~Parses(pems[k])
    <3>1. kept[k] = s
      BY <1>4, <2>4 DEF s
    <3>2. Len(kept[k]) <= k /\ Len(kept[k]) # k
      BY <3>1, <2>0, <2>2
    <3>3. Certs(kept[k]) = {c \in Upto(k) : Parses(c)}
      BY <3>1, <2>1, <2>2, <2>4
    <3>4. pems[k] \in Upto(k)
      BY <2>1
    <3> QED
      BY <3>1, <3>2, <3>3, <3>4, <2>2, <2>4
  <2> QED
    BY <2>3, <2>4
<1>7. Wrong = {}
  <2> SUFFICES ASSUME Wrong # {} PROVE FALSE
    OBVIOUS
  <2>1. PICK k \in Wrong : \A j \in Wrong : k <= j
    <3>1. Wrong \in SUBSET Nat
      BY <1>0
    <3> HIDE DEF Wrong
    <3> QED
      BY <3>1, Least
  <2>2. k \in 0..n /\ ~Right(k)
    OBVIOUS
  <2> HIDE DEF Right
  <2>3. k # 0
    BY <1>5, <2>2
  <2>4. k \in 1..n /\ k - 1 \in 0..n /\ ~(k <= k - 1)
    BY <1>0, <2>2, <2>3
  <2>5. Right(k-1)
    BY <2>1, <2>4
  <2> QED
    BY <1>6, <2>2, <2>4, <2>5
<1>8. Right(n)
  <2> HIDE DEF Right
  <2> QED
    BY <1>0, <1>7
<1>9. Upto(n) = Certs(pems)
  BY DEF Certs
<1> QED
  <2> HIDE DEF Upto
  <2> QED
    BY <1>2, <1>8, <1>9

-----------------------------------------------------------------------------
(* The inductive invariant *)

Inside == {"anchor", "leaf", "intermediates", "root", "messages"}

Classification ==
    {"VALID", "CA_BUNDLE", "ROOT_HASH_NOT_CHECKED", "ROOT_HASH_MISMATCH",
     "EXPIRED_LEAF", "EXPIRED_INTERMEDIATE", "EXPIRED_ROOT",
     "CORRUPTED_CERTIFICATE", "INVALID_SIGNATURE", "NON_CA_INTERMEDIATE",
     "MISSING_INTERMEDIATE", "SELF_SIGNED", "UNTRUSTED_ROOT", "UNKNOWN_FAILURE"}

FindingRecord == [path : Seq(Cert), classification : Classification, valid : BOOLEAN]

TypeInv ==
    /\ blocks \in Seq(Cert)
    /\ pin \in Cert \cup {NoPin, Unreadable}
    /\ began \subseteq expired
    /\ phase \in {"load", "path", "done"} \cup Inside
    /\ paths \in Seq(PathsOf(valid_certs))
    /\ scan \in Nat
    /\ late \in BOOLEAN
    /\ findings \in Seq(FindingRecord)

\* No CA of the machine interferes with what the path deserves.
Clean(p, lapsed) == Sound(p, lapsed) /\ Unaided(p)

Plain(p) == DistinctNames(p) /\ Unaided(p)

\* What a sound path that ends in `root` should be called.
Deserved(root) == CASE pin = NoPin -> "ROOT_HASH_NOT_CHECKED"
                    [] pin = root -> "VALID"
                    [] OTHER -> "ROOT_HASH_MISMATCH"

\* `class` names the lowest level of p that had lapsed when the call began.
NamesExpiry(p, class) ==
    /\ p[1] \in began => class = "EXPIRED_LEAF"
    /\ \A i \in 2..Len(p)-1 :
          p[i] \in began => class \in {"EXPIRED_LEAF", "EXPIRED_INTERMEDIATE"}
    /\ Last(p) \in began =>
          class \in {"EXPIRED_LEAF", "EXPIRED_INTERMEDIATE", "EXPIRED_ROOT"}

\* The certificates that carry the name p looks for.
Namesakes(p) == {c \in Certs(valid_certs) : Subject[c] = Issuer[Last(p)]}

\* What the properties ask of a finding about a path.
JudgedWell(f) ==
    /\ f.path \in PathsOf(valid_certs)
    /\ f.valid /\ SingleRoot(f.path) /\ Unaided(f.path) => Vouches(f.path, pin, began)
    /\ ~chain_is_incomplete(f.path) /\ Clean(f.path, expired) =>
          f.classification = Deserved(Last(f.path))
    /\ ~chain_is_incomplete(f.path) /\ Plain(f.path) =>
          NamesExpiry(f.path, f.classification)
    /\ chain_is_incomplete(f.path) =>
          (f.classification = "NON_CA_INTERMEDIATE" <=>
              Namesakes(f.path) # {} /\ \A c \in Namesakes(f.path) : ~is_ca(c))

JudgedInv == \A f \in Certs(findings) : f.path = <<>> \/ JudgedWell(f)

\* A path OpenSSL has accepted ...
AcceptedInv ==
    phase = "anchor" =>
        /\ Unaided(path) => Vouches(path, Last(path), began)
        /\ Plain(path) => Certs(path) \cap began = {}

\* ... and one it has rejected, of which the readings so far are remembered.
RejectedInv ==
    phase \in Inside \ {"anchor"} =>
        /\ ~Clean(path, expired)
        /\ messages \subseteq Known

ReadingsInv ==
    /\ phase \in {"intermediates", "root", "messages"} => path[1] \notin began
    /\ phase = "intermediates" =>
          /\ scan \in 2..Len(path)
          /\ \A k \in 2..scan-1 : path[k] \in began => late
    /\ phase \in {"root", "messages"} => \A k \in 2..Len(path)-1 : path[k] \notin began
    /\ phase = "messages" => (Plain(path) => Last(path) \notin began)

\* The path in hand is one of the list and reaches a self-signed CA.
CurrentInv ==
    phase \in Inside => Len(findings) < Len(paths) /\ ~chain_is_incomplete(path)

\* Corruption is added at the very end.
SilentInv ==
    phase # "done" =>
        \A f \in Certs(findings) : f.classification # "CORRUPTED_CERTIFICATE"

IInv ==
    /\ TypeInv
    /\ JudgedInv
    /\ CurrentInv
    /\ AcceptedInv
    /\ RejectedInv
    /\ ReadingsInv
    /\ SilentInv
    /\ CorruptionNeverSilent

-----------------------------------------------------------------------------
(* Lemmas on the path in hand *)

LEMMA ValidCertsFacts ==
  ASSUME blocks \in Seq(Cert)
  PROVE  /\ valid_certs \in Seq(Cert)
         /\ corrupted_count \in Nat
         /\ \A c \in Certs(valid_certs) : Parses(c)
<1>1. /\ valid_certs \in Seq(Cert)
      /\ Len(valid_certs) <= Len(blocks)
      /\ \A c \in Certs(valid_certs) : Parses(c)
  BY SplitFacts DEF valid_certs
<1>2. Len(valid_certs) \in Nat /\ Len(blocks) \in Nat
  BY <1>1, LenProperties
<1> QED
  BY <1>1, <1>2 DEF corrupted_count

LEMMA PathOfFacts ==
  ASSUME blocks \in Seq(Cert), NEW p \in PathsOf(valid_certs)
  PROVE  /\ valid_certs \in Seq(Cert) /\ p \in Seq(Cert)
         /\ IsPath(valid_certs, p) /\ IsClimb(valid_certs, p)
         /\ Len(p) \in Nat /\ Len(p) >= 1 /\ p # <<>>
  BY ValidCertsFacts, PathsOfIsPath, ClimbFacts DEF IsPath, IsClimb

LEMMA PathInHand ==
  ASSUME TypeInv, Len(findings) < Len(paths)
  PROVE  path \in PathsOf(valid_certs)
<1>1. Len(findings) \in Nat /\ Len(paths) \in Nat /\ paths \in Seq(PathsOf(valid_certs))
  BY LenProperties DEF TypeInv
<1>2. Len(findings) + 1 \in 1..Len(paths)
  BY <1>1
<1> QED
  BY <1>1, <1>2, ElementOfSeq DEF path

LEMMA CompleteFacts ==
  ASSUME blocks \in Seq(Cert), NEW p \in PathsOf(valid_certs), ~chain_is_incomplete(p)
  PROVE  Len(p) >= 2 /\ is_ca(Last(p)) /\ is_self_signed(Last(p))
<1>1. Len(p) \in Nat
  BY PathOfFacts
<1>2. ~(Len(p) < 2)
  BY DEF chain_is_incomplete
<1> QED
  BY <1>1, <1>2 DEF chain_is_incomplete

\* find_non_ca_intermediates finds something exactly when certificates carry
\* the name the path looks for and none of them is a CA: no other issuer of
\* the path is unresolved, and a CA of that name would have continued it.
LEMMA GapFacts ==
  ASSUME blocks \in Seq(Cert), NEW p \in PathsOf(valid_certs)
  PROVE  find_non_ca_intermediates(p) # {} <=>
             Namesakes(p) # {} /\ \A c \in Namesakes(p) : ~is_ca(c)
<1> DEFINE n == Len(p)
           top == Last(p)
<1>0. /\ valid_certs \in Seq(Cert) /\ p \in Seq(Cert)
      /\ IsPath(valid_certs, p) /\ IsClimb(valid_certs, p)
      /\ n \in Nat /\ n >= 1 /\ n \in 1..n /\ top = p[n]
  BY PathOfFacts DEF Last
<1>1. /\ \A i \in 1..n : p[i] \in Certs(p) /\ p[i] \in Certs(valid_certs) /\ Parses(p[i])
      /\ \A i \in 2..n : is_ca(p[i])
      /\ \A c \in Certs(valid_certs) : Parses(c) => Issuer[c] # Subject[p[1]]
      /\ \A i \in 1..n-1 : Subject[p[i+1]] = Issuer[p[i]]
  BY <1>0, ClimbFacts DEF Certs
<1>2. \A c \in Certs(valid_certs) : is_ca(c) /\ Subject[c] = Issuer[top] => c \in Certs(p)
  BY <1>0 DEF IsPath, IsParent
<1>3. Issuer[top] \in IssuersOf(p)
  BY <1>0, <1>1 DEF IssuersOf
<1>4. \A x \in IssuersOf(p) : x = Issuer[top] \/ x \in SubjectsOf(p)
  <2> TAKE x \in IssuersOf(p)
  <2>1. PICK i \in 1..n : x = Issuer[p[i]]
    BY DEF IssuersOf, Certs
  <2>2. CASE i = n
    BY <2>1, <2>2, <1>0
  <2>3. CASE i # n
    <3>1. i \in 1..n-1 /\ i + 1 \in 1..n
      BY <2>3, <1>0
    <3>2. x = Subject[p[i+1]]
      BY <3>1, <2>1, <1>1
    <3> QED
      BY <3>1, <3>2, <1>1 DEF SubjectsOf
  <2> QED
    BY <2>2, <2>3
<1>5. ASSUME NEW c \in find_non_ca_intermediates(p)
      PROVE  Namesakes(p) # {} /\ \A d \in Namesakes(p) : ~is_ca(d)
  <2>1. c \in Certs(valid_certs) /\ Subject[c] \in IssuersOf(p) /\ Subject[c] \notin SubjectsOf(p)
    BY DEF find_non_ca_intermediates
  <2>2. Subject[c] = Issuer[top] /\ Issuer[top] \notin SubjectsOf(p)
    BY <2>1, <1>4
  <2>3. ASSUME NEW d \in Namesakes(p), is_ca(d)
        PROVE  FALSE
    <3>1. d \in Certs(valid_certs) /\ Subject[d] = Issuer[top]
      BY DEF Namesakes
    <3>2. d \in Certs(p) /\ Parses(d)
      BY <3>1, <2>3, <1>2 DEF is_ca
    <3> QED
      BY <3>1, <3>2, <2>2 DEF SubjectsOf
  <2> QED
    BY <2>1, <2>2, <2>3 DEF Namesakes
<1>6. ASSUME NEW c \in Namesakes(p), \A d \in Namesakes(p) : ~is_ca(d)
      PROVE  c \in find_non_ca_intermediates(p)
  <2>1. c \in Certs(valid_certs) /\ Subject[c] = Issuer[top] /\ ~is_ca(c)
    BY <1>6 DEF Namesakes
  <2>2. \A i \in 1..n : Subject[p[i]] # Issuer[top]
    <3> SUFFICES ASSUME NEW i \in 1..n, Subject[p[i]] = Issuer[top]
                 PROVE  FALSE
      OBVIOUS
    <3>1. CASE i = 1
      BY <3>1, <1>0, <1>1
    <3>2. CASE i # 1
      <4>1. i \in 2..n
        BY <3>2, <1>0
      <4>2. is_ca(p[i]) /\ p[i] \in Namesakes(p)
        BY <4>1, <1>1 DEF Namesakes
      <4> QED
        BY <4>2, <1>6
    <3> QED
      BY <3>1, <3>2
  <2>3. Issuer[top] \notin SubjectsOf(p)
    BY <2>2 DEF SubjectsOf, Certs
  <2> QED
    BY <2>1, <2>3, <1>3 DEF find_non_ca_intermediates
<1> QED
  BY <1>5, <1>6

\* A finding that is only older than the latest lapse is no worse.
LEMMA JudgedAges ==
  ASSUME expired \subseteq expired', UNCHANGED <<blocks, pin, began>>,
         NEW f, JudgedWell(f)
  PROVE  JudgedWell(f)'
<1>1. valid_certs' = valid_certs
  BY DEF valid_certs
<1>2. Clean(f.path, expired') => Clean(f.path, expired)
  BY DEF Clean, Sound
<1> QED
  BY <1>1, <1>2 DEF JudgedWell, Deserved, NamesExpiry, Namesakes

\* Adding a finding about the path in hand.
LEMMA ReportHolds ==
  ASSUME IInv, phase \in Inside \cup {"path"}, Len(findings) < Len(paths),
         NEW class \in Classification, class # "CORRUPTED_CERTIFICATE", Report(class),
         JudgedWell(Finding(path, class, class = "VALID")),
         phase' = "path", scan' \in Nat, late' \in BOOLEAN,
         UNCHANGED <<blocks, pin, expired, began, paths, messages>>
  PROVE  IInv'
<1> DEFINE f == Finding(path, class, class = "VALID")
<1>1. path \in PathsOf(valid_certs) /\ path \in Seq(Cert)
  BY PathInHand, PathOfFacts DEF IInv, TypeInv
<1>2. f \in FindingRecord
  BY <1>1 DEF Finding, FindingRecord
<1>3. findings \in Seq(FindingRecord) /\ findings' = Append(findings, f)
  BY DEF Report, IInv, TypeInv
<1>4. Certs(findings') = Certs(findings) \cup {f}
  BY <1>2, <1>3, CertsOfAppend
<1>5. findings' \in Seq(FindingRecord)
  BY <1>2, <1>3, AppendProperties
<1>6. valid_certs' = valid_certs
  BY DEF valid_certs
<1>7. TypeInv'
  BY <1>5, <1>6 DEF IInv, TypeInv
<1>8. JudgedInv'
  <2>1. \A g \in Certs(findings) : g.path = <<>> \/ JudgedWell(g)
    BY DEF IInv, JudgedInv
  <2>2. \A g : JudgedWell(g) => JudgedWell(g)'
    BY JudgedAges
  <2> QED
    BY <2>1, <2>2, <1>4 DEF JudgedInv
<1>9. SilentInv'
  <2>1. f.classification # "CORRUPTED_CERTIFICATE"
    BY DEF Finding
  <2>2. \A g \in Certs(findings) : g.classification # "CORRUPTED_CERTIFICATE"
    BY DEF IInv, SilentInv, Inside
  <2> QED
    BY <2>1, <2>2, <1>4 DEF SilentInv
<1>10. CurrentInv' /\ AcceptedInv' /\ RejectedInv' /\ ReadingsInv' /\ CorruptionNeverSilent'
  BY DEF CurrentInv, AcceptedInv, RejectedInv, ReadingsInv, CorruptionNeverSilent, Inside
<1> QED
  BY <1>7, <1>8, <1>9, <1>10 DEF IInv

-----------------------------------------------------------------------------
(* The invariant holds initially, and is preserved *)

LEMMA NoFindings == Certs(<<>>) = {}
  BY DEF Certs

\* A call that has not begun.
Fresh ==
    /\ blocks \in Seq(Cert) /\ pin \in Cert \cup {NoPin, Unreadable}
    /\ began = expired /\ phase = "load"
    /\ paths = <<>> /\ messages = {} /\ scan = 0 /\ late = FALSE /\ findings = <<>>

LEMMA FreshHolds == Fresh => IInv
<1> SUFFICES ASSUME Fresh PROVE IInv
  OBVIOUS
<1>1. TypeInv
  <2>1. <<>> \in Seq(PathsOf(valid_certs)) /\ <<>> \in Seq(FindingRecord)
    OBVIOUS
  <2> QED
    BY <2>1 DEF Fresh, TypeInv
<1> QED
  BY <1>1, NoFindings
     DEF Fresh, IInv, JudgedInv, CurrentInv, AcceptedInv, RejectedInv, ReadingsInv,
         SilentInv, CorruptionNeverSilent, Inside

LEMMA InitHolds == Init => IInv
  BY FreshHolds, AnalysisAssumption DEF Init, Fresh

LEMMA LapseHolds == IInv /\ Lapse => IInv'
<1> SUFFICES ASSUME IInv, Lapse PROVE IInv'
  OBVIOUS
<1>1. /\ expired \subseteq expired'
      /\ UNCHANGED <<blocks, pin, began, phase, paths, messages, scan, late, findings>>
  BY DEF Lapse
<1>2. valid_certs' = valid_certs /\ path' = path
  BY <1>1 DEF valid_certs, path
<1>3. TypeInv'
  BY <1>1, <1>2 DEF IInv, TypeInv
<1>4. JudgedInv'
  BY <1>1, JudgedAges DEF IInv, JudgedInv
<1>5. RejectedInv'
  BY <1>1, <1>2 DEF IInv, RejectedInv, Clean, Sound
<1>6. CurrentInv' /\ AcceptedInv' /\ ReadingsInv' /\ SilentInv'
  BY <1>1, <1>2 DEF IInv, CurrentInv, AcceptedInv, ReadingsInv, SilentInv
<1>7. CorruptionNeverSilent'
  BY <1>1, <1>2 DEF IInv, CorruptionNeverSilent, corrupted_count
<1> QED
  BY <1>3, <1>4, <1>5, <1>6, <1>7 DEF IInv

\* A call that ends with findings about the whole scenario, which speak of
\* corruption exactly when there is any.
LEMMA ConcludeHolds ==
  ASSUME IInv, NEW fs \in Seq(FindingRecord), Conclude(fs),
         \A f \in Certs(fs) : f.path = <<>>,
         corrupted_count > 0 <=>
             \E f \in Certs(fs) : f.classification = "CORRUPTED_CERTIFICATE"
  PROVE  IInv'
<1>1. /\ findings' = fs /\ phase' = "done"
      /\ UNCHANGED <<blocks, pin, expired, began, paths, messages, scan, late>>
  BY DEF Conclude
<1>2. valid_certs' = valid_certs
  BY <1>1 DEF valid_certs
<1>3. TypeInv'
  BY <1>1, <1>2 DEF IInv, TypeInv
<1>4. JudgedInv'
  BY <1>1 DEF JudgedInv
<1>5. CorruptionNeverSilent'
  BY <1>1, <1>2 DEF CorruptionNeverSilent, corrupted_count
<1>6. CurrentInv' /\ AcceptedInv' /\ RejectedInv' /\ ReadingsInv' /\ SilentInv'
  BY <1>1 DEF CurrentInv, AcceptedInv, RejectedInv, ReadingsInv, SilentInv, Inside
<1> QED
  BY <1>3, <1>4, <1>5, <1>6 DEF IInv

LEMMA SingleFinding ==
  ASSUME NEW f \in FindingRecord
  PROVE  <<f>> \in Seq(FindingRecord) /\ Certs(<<f>>) = {f}
  BY DEF Certs

LEMMA GeneralFacts ==
  ASSUME NEW class \in Classification
  PROVE  /\ General(class) \in FindingRecord
         /\ General(class).path = <<>>
         /\ General(class).classification = class
  BY DEF General, Finding, FindingRecord

LEMMA FindNothingHolds == IInv /\ FindNothing => IInv'
<1> SUFFICES ASSUME IInv, FindNothing PROVE IInv'
  OBVIOUS
<1>1. blocks = <<>> /\ Conclude(<<>>)
  BY DEF FindNothing
<1>2. corrupted_count = 0
  <2>1. blocks \in Seq(Cert) /\ Len(blocks) = 0
    BY <1>1 DEF IInv, TypeInv
  <2>2. Len(valid_certs) <= 0 /\ Len(valid_certs) \in Nat
    BY <2>1, SplitFacts, LenProperties DEF valid_certs
  <2> QED
    BY <2>1, <2>2 DEF corrupted_count
<1>3. <<>> \in Seq(FindingRecord)
  OBVIOUS
<1>4. \A f \in Certs(<<>>) : FALSE
  BY NoFindings
<1>5. ~(corrupted_count > 0)
  BY <1>2
<1> QED
  BY <1>1, <1>2, <1>3, <1>4, <1>5, ConcludeHolds

LEMMA ReportAllCorruptedHolds == IInv /\ ReportAllCorrupted => IInv'
<1> SUFFICES ASSUME IInv, ReportAllCorrupted PROVE IInv'
  OBVIOUS
<1> DEFINE f == General("CORRUPTED_CERTIFICATE")
<1>1. blocks # <<>> /\ valid_certs = <<>> /\ Conclude(<<f>>)
  BY DEF ReportAllCorrupted
<1>2. corrupted_count > 0
  <2>1. Len(blocks) \in Nat /\ Len(blocks) # 0
    BY <1>1, LenProperties, EmptySeq DEF IInv, TypeInv
  <2>2. Len(valid_certs) = 0
    BY <1>1
  <2> QED
    BY <2>1, <2>2 DEF corrupted_count
<1>3. f \in FindingRecord /\ f.path = <<>> /\ f.classification = "CORRUPTED_CERTIFICATE"
  BY GeneralFacts DEF Classification
<1>4. <<f>> \in Seq(FindingRecord) /\ Certs(<<f>>) = {f}
  BY <1>3, SingleFinding
<1> HIDE DEF f
<1> QED
  BY <1>1, <1>2, <1>3, <1>4, ConcludeHolds

LEMMA ReportCaBundleHolds == IInv /\ ReportCaBundle => IInv'
<1> SUFFICES ASSUME IInv, ReportCaBundle PROVE IInv'
  OBVIOUS
<1> DEFINE f == Finding(<<>>, "CA_BUNDLE", corrupted_count = 0)
           g == General("CORRUPTED_CERTIFICATE")
<1>1. Conclude(IF corrupted_count = 0 THEN <<f>> ELSE <<f, g>>)
  BY DEF ReportCaBundle
<1>2. corrupted_count \in Nat
  BY ValidCertsFacts DEF IInv, TypeInv
<1>3. /\ f \in FindingRecord /\ f.path = <<>> /\ f.classification = "CA_BUNDLE"
      /\ g \in FindingRecord /\ g.path = <<>> /\ g.classification = "CORRUPTED_CERTIFICATE"
  BY GeneralFacts DEF Classification, Finding, FindingRecord
<1> HIDE DEF f, g
<1>4. <<f>> \in Seq(FindingRecord) /\ Certs(<<f>>) = {f}
  BY <1>3, SingleFinding
<1>5. <<f, g>> \in Seq(FindingRecord) /\ Certs(<<f, g>>) = {f, g}
  BY <1>3 DEF Certs
<1>6. CASE corrupted_count = 0
  <2>1. Conclude(<<f>>) /\ ~(corrupted_count > 0)
    BY <1>1, <1>6
  <2>2. \A h \in Certs(<<f>>) : h.path = <<>> /\ h.classification # "CORRUPTED_CERTIFICATE"
    BY <1>3, <1>4
  <2> QED
    BY <1>4, <2>1, <2>2, ConcludeHolds
<1>7. CASE corrupted_count # 0
  <2>1. Conclude(<<f, g>>) /\ corrupted_count > 0
    BY <1>1, <1>2, <1>7
  <2>2. \A h \in Certs(<<f, g>>) : h.path = <<>>
    BY <1>3, <1>5
  <2>3. g \in Certs(<<f, g>>)
    BY <1>5
  <2> QED
    BY <1>3, <1>5, <2>1, <2>2, <2>3, ConcludeHolds
<1> QED
  BY <1>6, <1>7

LEMMA ReportNoLeafHolds == IInv /\ ReportNoLeaf => IInv'
<1> SUFFICES ASSUME IInv, ReportNoLeaf PROVE IInv'
  OBVIOUS
<1> DEFINE class == IF corrupted_count = 0 THEN "MISSING_INTERMEDIATE"
                    ELSE "CORRUPTED_CERTIFICATE"
           f == General(class)
<1>1. Conclude(<<f>>)
  BY DEF ReportNoLeaf
<1>2. corrupted_count \in Nat
  BY ValidCertsFacts DEF IInv, TypeInv
<1>3. f \in FindingRecord /\ f.path = <<>> /\ f.classification = class
  BY GeneralFacts DEF Classification
<1> HIDE DEF f
<1>4. <<f>> \in Seq(FindingRecord) /\ Certs(<<f>>) = {f}
  BY <1>3, SingleFinding
<1>5. class = "CORRUPTED_CERTIFICATE" <=> corrupted_count > 0
  BY <1>2
<1> HIDE DEF class
<1> QED
  BY <1>1, <1>3, <1>4, <1>5, ConcludeHolds

LEMMA BuildPathsHolds == IInv /\ BuildPaths => IInv'
<1> SUFFICES ASSUME IInv, BuildPaths PROVE IInv'
  OBVIOUS
<1>1. /\ paths' \in Listings(PathsOf(valid_certs)) /\ phase = "load" /\ phase' = "path"
      /\ UNCHANGED <<blocks, pin, expired, began, messages, scan, late, findings>>
  BY DEF BuildPaths
<1>2. paths' \in Seq(PathsOf(valid_certs))
  BY <1>1, ValidCertsFacts, PathsAreFinite, ListingFacts DEF IInv, TypeInv
<1>3. valid_certs' = valid_certs
  BY <1>1 DEF valid_certs
<1>4. TypeInv'
  BY <1>1, <1>2, <1>3 DEF IInv, TypeInv
<1>5. JudgedInv'
  BY <1>1, JudgedAges DEF IInv, JudgedInv
<1>6. CurrentInv' /\ AcceptedInv' /\ RejectedInv' /\ ReadingsInv' /\ CorruptionNeverSilent'
  BY <1>1 DEF CurrentInv, AcceptedInv, RejectedInv, ReadingsInv, CorruptionNeverSilent, Inside
<1>7. SilentInv'
  BY <1>1 DEF IInv, SilentInv
<1> QED
  BY <1>4, <1>5, <1>6, <1>7 DEF IInv

LEMMA StopShortHolds == IInv /\ StopShort => IInv'
<1> SUFFICES ASSUME IInv, StopShort PROVE IInv'
  OBVIOUS
<1> DEFINE class == IF find_non_ca_intermediates(path) # {} THEN "NON_CA_INTERMEDIATE"
                    ELSE "MISSING_INTERMEDIATE"
           f == Finding(path, class, class = "VALID")
<1>1. /\ phase = "path" /\ phase' = "path" /\ Len(findings) < Len(paths)
      /\ chain_is_incomplete(path)
      /\ Report(class)
      /\ UNCHANGED <<blocks, pin, expired, began, paths, messages, scan, late>>
  BY DEF StopShort, Pending
<1>2. path \in PathsOf(valid_certs) /\ blocks \in Seq(Cert)
  BY <1>1, PathInHand DEF IInv, TypeInv
<1>3. class = "NON_CA_INTERMEDIATE" <=>
          Namesakes(path) # {} /\ \A c \in Namesakes(path) : ~is_ca(c)
  BY <1>2, GapFacts
<1>4. class \in Classification /\ class # "VALID" /\ class # "CORRUPTED_CERTIFICATE"
  <2>1. class = "NON_CA_INTERMEDIATE" \/ class = "MISSING_INTERMEDIATE"
    OBVIOUS
  <2> HIDE DEF class
  <2> QED
    BY <2>1 DEF Classification
<1>5. f.path = path /\ f.classification = class /\ f.valid = FALSE
  BY <1>4 DEF Finding
<1> HIDE DEF class
<1>6. JudgedWell(f)
  <2> HIDE DEF f
  <2> QED
    BY <1>1, <1>2, <1>3, <1>5 DEF JudgedWell
<1>7. scan' \in Nat /\ late' \in BOOLEAN
  BY <1>1 DEF IInv, TypeInv
<1> QED
  BY <1>1, <1>4, <1>6, <1>7, ReportHolds

LEMMA VerifyChainHolds == IInv /\ VerifyChain => IInv'
<1> SUFFICES ASSUME IInv, VerifyChain PROVE IInv'
  OBVIOUS
<1>1. /\ phase = "path" /\ Len(findings) < Len(paths) /\ ~chain_is_incomplete(path)
      /\ messages' \in verify_chain(path, expired)
      /\ phase' = IF messages' = {} THEN "anchor" ELSE "leaf"
      /\ UNCHANGED <<blocks, pin, expired, began, paths, scan, late, findings>>
  BY DEF VerifyChain, Pending
<1>2. path \in PathsOf(valid_certs) /\ blocks \in Seq(Cert) /\ began \subseteq expired
  BY <1>1, PathInHand DEF IInv, TypeInv
<1>3. /\ valid_certs \in Seq(Cert) /\ path \in Seq(Cert) /\ IsClimb(valid_certs, path)
      /\ Len(path) >= 2
  BY <1>1, <1>2, PathOfFacts, CompleteFacts
<1>4. valid_certs' = valid_certs /\ path' = path
  BY <1>1 DEF valid_certs, path
<1>5. TypeInv'
  BY <1>1, <1>4 DEF IInv, TypeInv, Inside
<1>6. JudgedInv'
  BY <1>1, JudgedAges DEF IInv, JudgedInv
<1>7. CurrentInv'
  BY <1>1, <1>4 DEF CurrentInv
<1>8. AcceptedInv'
  <2> SUFFICES ASSUME messages' = {}
               PROVE  /\ Unaided(path) => Vouches(path, Last(path), began)
                      /\ Plain(path) => Certs(path) \cap began = {}
    BY <1>1, <1>4 DEF AcceptedInv
  <2>1. Unaided(path) => Vouches(path, Last(path), began)
    BY <1>1, <1>2, <1>3, NoComplaintVouches, VouchesMonotone
  <2>2. Plain(path) => Certs(path) \cap expired = {}
    BY <1>1, <1>3, LapsedIsRejected DEF Plain
  <2> QED
    BY <2>1, <2>2, <1>2
<1>9. RejectedInv'
  <2> SUFFICES ASSUME messages' # {}
               PROVE  ~Clean(path, expired) /\ messages' \subseteq Known
    BY <1>1, <1>4 DEF RejectedInv
  <2> QED
    BY <1>1, <1>3, SoundVerifies, MessagesAreKnown DEF Clean
<1>10. ReadingsInv' /\ CorruptionNeverSilent'
  BY <1>1 DEF ReadingsInv, CorruptionNeverSilent
<1>11. SilentInv'
  BY <1>1 DEF IInv, SilentInv
<1> QED
  BY <1>5, <1>6, <1>7, <1>8, <1>9, <1>10, <1>11 DEF IInv

LEMMA CheckAnchorHolds == IInv /\ CheckAnchor => IInv'
<1> SUFFICES ASSUME IInv, CheckAnchor PROVE IInv'
  OBVIOUS
<1> DEFINE class == AnchorVerdict
           f == Finding(path, class, class = "VALID")
           top == Last(path)
<1>1. /\ phase = "anchor" /\ phase' = "path" /\ Report(class)
      /\ UNCHANGED <<blocks, pin, expired, began, paths, messages, scan, late>>
  BY DEF CheckAnchor
<1>2. Len(findings) < Len(paths) /\ ~chain_is_incomplete(path)
  BY <1>1 DEF IInv, CurrentInv, Inside
<1>3. path \in PathsOf(valid_certs) /\ blocks \in Seq(Cert)
  BY <1>2, PathInHand DEF IInv, TypeInv
<1>4. /\ valid_certs \in Seq(Cert) /\ path \in Seq(Cert) /\ IsClimb(valid_certs, path)
      /\ Len(path) >= 2 /\ Len(path) >= 1 /\ is_ca(top) /\ is_self_signed(top)
  BY <1>2, <1>3, PathOfFacts, CompleteFacts
<1>5. SingleRoot(path) => find_root(path) = {top}
  BY <1>4, RootIsLast
<1>6. DistinctNames(path) => SingleRoot(path)
  BY <1>4, DistinctIsSingle
<1>7. top \in Cert /\ top # NoPin
  <2>1. Len(path) \in 1..Len(path)
    BY <1>4, LenProperties
  <2>2. top \in Cert
    BY <2>1, <1>4, ElementOfSeq DEF Last
  <2> QED
    BY <2>2, AnalysisAssumption
<1>8. /\ class \in {"ROOT_HASH_NOT_CHECKED", "VALID", "ROOT_HASH_MISMATCH"}
      /\ class = "VALID" => pin \in find_root(path)
      /\ SingleRoot(path) => class = Deserved(top)
  <2>1. CASE pin = NoPin
    BY <2>1 DEF AnchorVerdict, Deserved
  <2>2. CASE pin # NoPin /\ pin \in find_root(path)
    <3>1. class = "VALID"
      BY <2>2 DEF AnchorVerdict
    <3>2. pin = top => Deserved(top) = "VALID"
      BY <2>2 DEF Deserved
    <3> QED
      BY <2>2, <3>1, <3>2, <1>5
  <2>3. CASE pin # NoPin /\ pin \notin find_root(path)
    <3>1. class = "ROOT_HASH_MISMATCH"
      BY <2>3 DEF AnchorVerdict
    <3>2. pin # top => Deserved(top) = "ROOT_HASH_MISMATCH"
      BY <2>3 DEF Deserved
    <3> QED
      BY <2>3, <3>1, <3>2, <1>5
  <2> QED
    BY <2>1, <2>2, <2>3
<1> HIDE DEF class
<1>9. f.path = path /\ f.classification = class /\ (f.valid <=> class = "VALID")
  BY DEF Finding
<1>10. JudgedWell(f)
  <2>1. f.valid /\ SingleRoot(path) /\ Unaided(path) => Vouches(path, pin, began)
    <3> SUFFICES ASSUME class = "VALID", SingleRoot(path), Unaided(path)
                 PROVE  Vouches(path, pin, began)
      BY <1>9
    <3>1. pin = top
      BY <1>5, <1>8
    <3> QED
      BY <3>1, <1>1 DEF IInv, AcceptedInv
  <2>2. Clean(path, expired) => class = Deserved(top)
    BY <1>6, <1>8 DEF Sound, Clean
  <2>3. Plain(path) => NamesExpiry(path, class)
    <3> SUFFICES ASSUME Plain(path)
                 PROVE  NamesExpiry(path, class)
      OBVIOUS
    <3>1. Certs(path) \cap began = {}
      BY <1>1 DEF IInv, AcceptedInv
    <3>2. Len(path) \in Nat
      BY <1>4, LenProperties
    <3>3. \A i \in 1..Len(path) : path[i] \notin began
      BY <3>1 DEF Certs
    <3>4. 1 \in 1..Len(path) /\ Len(path) \in 1..Len(path) /\ \A i \in 2..Len(path)-1 : i \in 1..Len(path)
      BY <3>2, <1>4
    <3> QED
      BY <3>3, <3>4 DEF NamesExpiry, Last
  <2> HIDE DEF f
  <2> QED
    BY <1>2, <1>3, <1>9, <2>1, <2>2, <2>3 DEF JudgedWell
<1>11. class \in Classification /\ class # "CORRUPTED_CERTIFICATE"
  BY <1>8 DEF Classification
<1>12. scan' \in Nat /\ late' \in BOOLEAN /\ phase \in Inside \cup {"path"}
  BY <1>1 DEF IInv, TypeInv, Inside
<1> QED
  BY <1>1, <1>2, <1>10, <1>11, <1>12, ReportHolds

\* What is said of a rejected path is judged well if it names the lowest
\* lapsed level: there was something wrong with the path.
LEMMA RejectedJudged ==
  ASSUME IInv, phase \in Inside \ {"anchor"}, NEW class, class # "VALID",
         Plain(path) => NamesExpiry(path, class)
  PROVE  /\ Len(findings) < Len(paths)
         /\ path \in PathsOf(valid_certs) /\ blocks \in Seq(Cert)
         /\ JudgedWell(Finding(path, class, class = "VALID"))
<1> DEFINE f == Finding(path, class, class = "VALID")
<1>1. Len(findings) < Len(paths) /\ ~chain_is_incomplete(path)
  BY DEF IInv, CurrentInv
<1>2. path \in PathsOf(valid_certs) /\ blocks \in Seq(Cert)
  BY <1>1, PathInHand DEF IInv, TypeInv
<1>3. ~Clean(path, expired)
  BY DEF IInv, RejectedInv
<1>4. f.path = path /\ f.classification = class /\ f.valid = FALSE
  BY DEF Finding
<1>5. JudgedWell(f)
  <2> HIDE DEF f
  <2> QED
    BY <1>1, <1>2, <1>3, <1>4 DEF JudgedWell
<1> QED
  BY <1>1, <1>2, <1>5

\* Going on to the next reading of the path in hand.
LEMMA ReadOnHolds ==
  ASSUME IInv, phase \in Inside \ {"anchor"}, phase' \in Inside \ {"anchor"},
         scan' \in Nat, late' \in BOOLEAN, ReadingsInv',
         UNCHANGED <<blocks, pin, expired, began, paths, messages, findings>>
  PROVE  IInv'
<1>1. valid_certs' = valid_certs /\ path' = path
  BY DEF valid_certs, path
<1>2. TypeInv'
  BY <1>1 DEF IInv, TypeInv
<1>3. JudgedInv'
  BY JudgedAges DEF IInv, JudgedInv
<1>4. CurrentInv' /\ AcceptedInv' /\ RejectedInv'
  BY <1>1 DEF IInv, CurrentInv, AcceptedInv, RejectedInv
<1>5. SilentInv' /\ CorruptionNeverSilent'
  BY DEF IInv, SilentInv, CorruptionNeverSilent, Inside
<1> QED
  BY <1>2, <1>3, <1>4, <1>5 DEF IInv

LEMMA ReadLeafHolds == IInv /\ ReadLeaf => IInv'
<1> SUFFICES ASSUME IInv, ReadLeaf PROVE IInv'
  OBVIOUS
<1>1. /\ phase = "leaf" /\ scan' = 2 /\ late' = FALSE
      /\ UNCHANGED <<blocks, pin, expired, began, paths, messages>>
  BY DEF ReadLeaf
<1>2. phase \in Inside \ {"anchor"} /\ phase \in Inside \cup {"path"}
  BY <1>1 DEF Inside
<1>3. CASE path[1] \in expired
  <2>1. Report("EXPIRED_LEAF") /\ phase' = "path"
    BY <1>3 DEF ReadLeaf
  <2>2. NamesExpiry(path, "EXPIRED_LEAF")
    BY DEF NamesExpiry
  <2> QED
    BY <1>1, <1>2, <2>1, <2>2, RejectedJudged, ReportHolds DEF Classification
<1>4. CASE path[1] \notin expired
  <2>1. phase' = "intermediates" /\ UNCHANGED findings
    BY <1>4 DEF ReadLeaf
  <2>2. path' = path /\ began \subseteq expired
    BY <1>1, <2>1 DEF path, IInv, TypeInv
  <2>3. Len(path) \in Nat /\ Len(path) >= 2
    <3>1. Len(findings) < Len(paths) /\ ~chain_is_incomplete(path)
      BY <1>2 DEF IInv, CurrentInv
    <3> QED
      BY <3>1, PathInHand, PathOfFacts, CompleteFacts DEF IInv, TypeInv
  <2>4. ReadingsInv'
    BY <1>1, <1>4, <2>1, <2>2, <2>3 DEF ReadingsInv
  <2> QED
    BY <1>1, <1>2, <2>1, <2>4, ReadOnHolds DEF Inside
<1> QED
  BY <1>3, <1>4

LEMMA ReadIntermediateHolds == IInv /\ ReadIntermediate => IInv'
<1> SUFFICES ASSUME IInv, ReadIntermediate PROVE IInv'
  OBVIOUS
<1>1. /\ phase = "intermediates" /\ phase' = "intermediates" /\ scan < Len(path)
      /\ late' = (late \/ path[scan] \in expired) /\ scan' = scan + 1
      /\ UNCHANGED <<blocks, pin, expired, began, paths, messages, findings>>
  BY DEF ReadIntermediate
<1>2. phase \in Inside \ {"anchor"} /\ phase' \in Inside \ {"anchor"}
  BY <1>1 DEF Inside
<1>3. path' = path /\ began \subseteq expired
  BY <1>1 DEF path, IInv, TypeInv
<1>4. /\ path[1] \notin began /\ scan \in 2..Len(path)
      /\ \A k \in 2..scan-1 : path[k] \in began => late
  BY <1>1 DEF IInv, ReadingsInv
<1>5. Len(path) \in Nat
  <2>1. Len(findings) < Len(paths)
    BY <1>2 DEF IInv, CurrentInv
  <2> QED
    BY <2>1, PathInHand, PathOfFacts DEF IInv, TypeInv
<1>6. scan' \in 2..Len(path) /\ scan' \in Nat /\ 2..scan'-1 = (2..scan-1) \cup {scan}
  BY <1>1, <1>4, <1>5
<1>7. \A k \in 2..scan'-1 : path[k] \in began => late'
  BY <1>1, <1>3, <1>4, <1>6
<1>8. ReadingsInv'
  BY <1>1, <1>3, <1>4, <1>6, <1>7 DEF ReadingsInv
<1>9. late' \in BOOLEAN
  BY <1>1
<1> QED
  BY <1>1, <1>2, <1>6, <1>8, <1>9, ReadOnHolds

LEMMA EndIntermediatesHolds == IInv /\ EndIntermediates => IInv'
<1> SUFFICES ASSUME IInv, EndIntermediates PROVE IInv'
  OBVIOUS
<1>1. /\ phase = "intermediates" /\ scan = Len(path)
      /\ UNCHANGED <<blocks, pin, expired, began, paths, messages, scan, late>>
  BY DEF EndIntermediates
<1>2. phase \in Inside \ {"anchor"} /\ phase \in Inside \cup {"path"}
  BY <1>1 DEF Inside
<1>3. /\ path[1] \notin began
      /\ \A k \in 2..Len(path)-1 : path[k] \in began => late
  BY <1>1 DEF IInv, ReadingsInv
<1>4. scan' \in Nat /\ late' \in BOOLEAN
  BY <1>1 DEF IInv, TypeInv
<1>5. CASE late
  <2>1. Report("EXPIRED_INTERMEDIATE") /\ phase' = "path"
    BY <1>5 DEF EndIntermediates
  <2>2. NamesExpiry(path, "EXPIRED_INTERMEDIATE")
    BY <1>3 DEF NamesExpiry
  <2> QED
    BY <1>1, <1>2, <1>4, <2>1, <2>2, RejectedJudged, ReportHolds DEF Classification
<1>6. CASE ~late
  <2>1. phase' = "root" /\ UNCHANGED findings
    BY <1>6 DEF EndIntermediates
  <2>2. path' = path
    BY <1>1, <2>1 DEF path
  <2>3. ReadingsInv'
    BY <1>1, <1>3, <1>6, <2>1, <2>2 DEF ReadingsInv
  <2> QED
    BY <1>1, <1>2, <1>4, <2>1, <2>3, ReadOnHolds DEF Inside
<1> QED
  BY <1>5, <1>6

LEMMA ReadRootHolds == IInv /\ ReadRoot => IInv'
<1> SUFFICES ASSUME IInv, ReadRoot PROVE IInv'
  OBVIOUS
<1>1. /\ phase = "root"
      /\ UNCHANGED <<blocks, pin, expired, began, paths, messages, scan, late>>
  BY DEF ReadRoot
<1>2. phase \in Inside \ {"anchor"} /\ phase \in Inside \cup {"path"}
  BY <1>1 DEF Inside
<1>3. /\ path[1] \notin began
      /\ \A k \in 2..Len(path)-1 : path[k] \notin began
  BY <1>1 DEF IInv, ReadingsInv
<1>4. scan' \in Nat /\ late' \in BOOLEAN
  BY <1>1 DEF IInv, TypeInv
<1>5. CASE find_root(path) \cap expired # {}
  <2>1. Report("EXPIRED_ROOT") /\ phase' = "path"
    BY <1>5 DEF ReadRoot
  <2>2. NamesExpiry(path, "EXPIRED_ROOT")
    BY <1>3 DEF NamesExpiry
  <2> QED
    BY <1>1, <1>2, <1>4, <2>1, <2>2, RejectedJudged, ReportHolds DEF Classification
<1>6. CASE find_root(path) \cap expired = {}
  <2>1. phase' = "messages" /\ UNCHANGED findings
    BY <1>6 DEF ReadRoot
  <2>2. path' = path /\ began \subseteq expired
    BY <1>1, <2>1 DEF path, IInv, TypeInv
  <2>3. Plain(path) => find_root(path) = {Last(path)}
    <3>1. Len(findings) < Len(paths) /\ ~chain_is_incomplete(path) /\ blocks \in Seq(Cert)
      BY <1>2 DEF IInv, CurrentInv, TypeInv
    <3>2. path \in PathsOf(valid_certs)
      BY <3>1, PathInHand DEF IInv
    <3>3. /\ valid_certs \in Seq(Cert) /\ path \in Seq(Cert) /\ IsClimb(valid_certs, path)
          /\ Len(path) >= 1 /\ is_ca(Last(path)) /\ is_self_signed(Last(path))
      BY <3>1, <3>2, PathOfFacts, CompleteFacts
    <3> QED
      BY <3>3, DistinctIsSingle, RootIsLast DEF Plain
  <2>4. Plain(path) => Last(path) \notin began
    BY <1>6, <2>2, <2>3
  <2>5. ReadingsInv'
    BY <1>1, <1>3, <2>1, <2>2, <2>4 DEF ReadingsInv
  <2> QED
    BY <1>1, <1>2, <1>4, <2>1, <2>5, ReadOnHolds DEF Inside
<1> QED
  BY <1>5, <1>6

\* OpenSSL's messages never make a rejected path VALID, nor CORRUPTED.
LEMMA ClassifiedFacts ==
  ASSUME messages \subseteq Known
  PROVE  /\ Classified \in Classification
         /\ Classified # "VALID" /\ Classified # "CORRUPTED_CERTIFICATE"
<1> DEFINE First == CHOOSE i \in Matched : \A j \in Matched : i <= j
<1>1. 1..Len(_OUTPUT_SIGNATURES) = 1..6
  BY DEF _OUTPUT_SIGNATURES
<1>2. 1 \notin Matched
  <2>1. _OUTPUT_SIGNATURES[1].needles = {"unable to load certificate"}
    BY DEF _OUTPUT_SIGNATURES
  <2>2. "unable to load certificate" \notin Known
    BY VerifyAssumption DEF Known, NoIssuer, NoLocal, BadSignature, InvalidCA, HasExpired,
                            MissingKeyId, TooLong
  <2> QED
    BY <2>1, <2>2 DEF Matched
<1>3. Matched \subseteq 2..6
  BY <1>1, <1>2 DEF Matched
<1>4. ASSUME NEW i \in 2..6
      PROVE  _OUTPUT_SIGNATURES[i].class \in
                {"INVALID_SIGNATURE", "NON_CA_INTERMEDIATE", "MISSING_INTERMEDIATE",
                 "SELF_SIGNED", "UNTRUSTED_ROOT"}
  <2>1. i = 2 \/ i = 3 \/ i = 4 \/ i = 5 \/ i = 6
    OBVIOUS
  <2>2. /\ _OUTPUT_SIGNATURES[2].class = "INVALID_SIGNATURE"
        /\ _OUTPUT_SIGNATURES[3].class = "NON_CA_INTERMEDIATE"
        /\ _OUTPUT_SIGNATURES[4].class = "MISSING_INTERMEDIATE"
        /\ _OUTPUT_SIGNATURES[5].class = "SELF_SIGNED"
        /\ _OUTPUT_SIGNATURES[6].class = "UNTRUSTED_ROOT"
    BY DEF _OUTPUT_SIGNATURES
  <2> QED
    BY <2>1, <2>2
<1>5. Matched # {} => First \in 2..6
  <2> SUFFICES ASSUME Matched # {} PROVE First \in Matched
    BY <1>3
  <2>1. \E i \in Matched : \A j \in Matched : i <= j
    BY <1>3, Least
  <2> QED
    BY <2>1
<1>6. \/ Classified = "NON_CA_INTERMEDIATE"
      \/ Matched # {} /\ Classified = _OUTPUT_SIGNATURES[First].class
      \/ Classified = "UNKNOWN_FAILURE"
  BY DEF Classified
<1> HIDE DEF First
<1>7. Classified \in {"INVALID_SIGNATURE", "NON_CA_INTERMEDIATE", "MISSING_INTERMEDIATE",
                      "SELF_SIGNED", "UNTRUSTED_ROOT", "UNKNOWN_FAILURE"}
  BY <1>4, <1>5, <1>6
<1> QED
  BY <1>7 DEF Classification

LEMMA ReadMessagesHolds == IInv /\ ReadMessages => IInv'
<1> SUFFICES ASSUME IInv, ReadMessages PROVE IInv'
  OBVIOUS
<1>1. /\ phase = "messages" /\ phase' = "path" /\ Report(Classified)
      /\ UNCHANGED <<blocks, pin, expired, began, paths, messages, scan, late>>
  BY DEF ReadMessages
<1>2. phase \in Inside \ {"anchor"} /\ phase \in Inside \cup {"path"}
  BY <1>1 DEF Inside
<1>3. /\ Classified \in Classification /\ Classified # "VALID"
      /\ Classified # "CORRUPTED_CERTIFICATE"
  BY <1>2, ClassifiedFacts DEF IInv, RejectedInv
<1>4. Plain(path) => NamesExpiry(path, Classified)
  BY <1>1 DEF IInv, ReadingsInv, NamesExpiry
<1>5. scan' \in Nat /\ late' \in BOOLEAN
  BY <1>1 DEF IInv, TypeInv
<1> QED
  BY <1>1, <1>2, <1>3, <1>4, <1>5, RejectedJudged, ReportHolds

LEMMA ReturnHolds == IInv /\ Return => IInv'
<1> SUFFICES ASSUME IInv, Return PROVE IInv'
  OBVIOUS
<1> DEFINE g == General("CORRUPTED_CERTIFICATE")
<1>1. /\ phase = "path" /\ phase' = "done"
      /\ findings' = IF Unreported THEN Append(findings, g) ELSE findings
      /\ UNCHANGED <<blocks, pin, expired, began, paths, messages, scan, late>>
  BY DEF Return
<1>2. valid_certs' = valid_certs /\ corrupted_count' = corrupted_count
  BY <1>1 DEF valid_certs, corrupted_count
<1>3. \A f \in Certs(findings) : f.classification # "CORRUPTED_CERTIFICATE"
  BY <1>1 DEF IInv, SilentInv
<1>4. Unreported <=> corrupted_count > 0
  BY <1>3 DEF Unreported, Certs
<1>5. g \in FindingRecord /\ g.path = <<>> /\ g.classification = "CORRUPTED_CERTIFICATE"
  BY GeneralFacts DEF Classification
<1> HIDE DEF g
<1>6. findings \in Seq(FindingRecord)
  BY DEF IInv, TypeInv
<1>7. /\ findings' \in Seq(FindingRecord)
      /\ Certs(findings') = IF Unreported THEN Certs(findings) \cup {g} ELSE Certs(findings)
  <2>1. CASE Unreported
    BY <2>1, <1>1, <1>5, <1>6, AppendProperties, CertsOfAppend
  <2>2. CASE ~Unreported
    BY <2>2, <1>1, <1>6
  <2> QED
    BY <2>1, <2>2
<1>8. TypeInv'
  BY <1>1, <1>2, <1>7 DEF IInv, TypeInv
<1>9. JudgedInv'
  <2>1. \A h : JudgedWell(h) => JudgedWell(h)'
    BY <1>1, JudgedAges
  <2> QED
    BY <2>1, <1>5, <1>7 DEF IInv, JudgedInv
<1>10. CorruptionNeverSilent'
  BY <1>2, <1>3, <1>4, <1>5, <1>7 DEF CorruptionNeverSilent
<1>11. CurrentInv' /\ AcceptedInv' /\ RejectedInv' /\ ReadingsInv' /\ SilentInv'
  BY <1>1 DEF CurrentInv, AcceptedInv, RejectedInv, ReadingsInv, SilentInv, Inside
<1> QED
  BY <1>8, <1>9, <1>10, <1>11 DEF IInv

LEMMA StutterHolds == IInv /\ UNCHANGED vars => IInv'
<1> SUFFICES ASSUME IInv, UNCHANGED vars PROVE IInv'
  OBVIOUS
<1>1. UNCHANGED <<blocks, pin, expired, began, phase, paths, messages, scan, late, findings>>
  BY DEF vars
<1>2. valid_certs' = valid_certs /\ path' = path /\ corrupted_count' = corrupted_count
  BY <1>1 DEF valid_certs, path, corrupted_count
<1>3. JudgedInv'
  BY <1>1, JudgedAges DEF IInv, JudgedInv
<1> QED
  BY <1>1, <1>2, <1>3
     DEF IInv, TypeInv, CurrentInv, AcceptedInv, RejectedInv, ReadingsInv, SilentInv,
         CorruptionNeverSilent

LEMMA Inductive == IInv /\ [Next]_vars => IInv'
  BY FindNothingHolds, ReportAllCorruptedHolds, ReportCaBundleHolds, ReportNoLeafHolds,
     BuildPathsHolds, StopShortHolds, VerifyChainHolds, CheckAnchorHolds, ReadLeafHolds,
     ReadIntermediateHolds, EndIntermediatesHolds, ReadRootHolds, ReadMessagesHolds,
     ReturnHolds, LapseHolds, StutterHolds DEF Next, Step

-----------------------------------------------------------------------------
(* The theorems *)

LEMMA Invariance == Spec => []IInv
  BY InitHolds, Inductive, PTL DEF Spec

LEMMA JudgedFacts ==
  ASSUME IInv, NEW f \in Judged
  PROVE  JudgedWell(f) /\ Len(f.path) \in Nat
<1>1. JudgedWell(f)
  BY DEF IInv, JudgedInv, Judged
<1>2. Len(f.path) \in Nat
  BY <1>1, PathOfFacts DEF JudgedWell, IInv, TypeInv
<1> QED
  BY <1>1, <1>2

\* VALID is only said of a path whose certificates hold an unbroken chain of
\* signatures, by CAs that had not lapsed, up to the certificate the pin names
\* (for a path with one self-signed CA that no CA of the machine helps).
THEOREM ValidIsTrusted == Spec => []ValidMeansTrusted
<1>1. IInv => ValidMeansTrusted
  BY JudgedFacts DEF ValidMeansTrusted, TrustedIfValid, JudgedWell
<1> QED
  BY <1>1, Invariance, PTL

\* A sound path is VALID, or faulted for the pin only, where the machine knows
\* no CA by the name of one of its issuers.
THEOREM NoFalseAlarm == Spec => []SoundPathAccepted
<1>1. ASSUME IInv, NEW f \in Complete, Clean(f.path, expired)
      PROVE  f.classification = CASE pin = NoPin -> "ROOT_HASH_NOT_CHECKED"
                                  [] pin = Last(f.path) -> "VALID"
                                  [] OTHER -> "ROOT_HASH_MISMATCH"
  <2>1. f \in Judged /\ ~chain_is_incomplete(f.path)
    BY DEF Complete
  <2> QED
    BY <1>1, <2>1, JudgedFacts DEF JudgedWell, Deserved
<1>2. IInv => SoundPathAccepted
  BY <1>1 DEF SoundPathAccepted, Clean
<1> QED
  BY <1>2, Invariance, PTL

\* On a path with distinct names, and no CA of the machine to take part, a
\* certificate that had lapsed when the call began is named, the lowest level
\* first.
THEOREM LapseIsNamed == Spec => []ExpiryIsNamed
<1>1. ASSUME IInv, NEW f \in Complete, Plain(f.path)
      PROVE  LET n == Len(f.path)
                 Blamed(i) == CASE i = 1 -> {"EXPIRED_LEAF"}
                                [] i \in 2..n-1 -> {"EXPIRED_LEAF", "EXPIRED_INTERMEDIATE"}
                                [] OTHER -> {"EXPIRED_LEAF", "EXPIRED_INTERMEDIATE", "EXPIRED_ROOT"}
             IN  \A i \in 1..n : f.path[i] \in began => f.classification \in Blamed(i)
  <2> DEFINE n == Len(f.path)
  <2>1. f \in Judged /\ ~chain_is_incomplete(f.path)
    BY DEF Complete
  <2>2. NamesExpiry(f.path, f.classification) /\ n \in Nat
    BY <1>1, <2>1, JudgedFacts DEF JudgedWell
  <2>3. ASSUME NEW i \in 1..n, f.path[i] \in began
        PROVE  /\ i = 1 => f.classification \in {"EXPIRED_LEAF"}
               /\ i \in 2..n-1 => f.classification \in {"EXPIRED_LEAF", "EXPIRED_INTERMEDIATE"}
               /\ i # 1 /\ i \notin 2..n-1 =>
                     f.classification \in {"EXPIRED_LEAF", "EXPIRED_INTERMEDIATE", "EXPIRED_ROOT"}
    <3>1. i # 1 /\ i \notin 2..n-1 => i = n
      BY <2>2
    <3> QED
      BY <2>2, <2>3, <3>1 DEF NamesExpiry, Last
  <2> QED
    BY <2>3
<1>2. IInv => ExpiryIsNamed
  BY <1>1 DEF ExpiryIsNamed, Plain
<1> QED
  BY <1>2, Invariance, PTL

\* A path that stops short is put down to a CA:FALSE intermediate exactly when
\* the bundle holds certificates of the missing issuer's name, none a CA.
THEOREM GapsAreExplained == Spec => []GapIsExplained
<1>1. ASSUME IInv, NEW f \in Judged \ Complete
      PROVE  f.classification = "NON_CA_INTERMEDIATE" <=>
                 Namesakes(f.path) # {} /\ \A c \in Namesakes(f.path) : ~is_ca(c)
  BY <1>1, JudgedFacts DEF JudgedWell, Complete
<1>2. IInv => GapIsExplained
  BY <1>1 DEF GapIsExplained, Namesakes
<1> QED
  BY <1>2, Invariance, PTL

\* However the call ends, it speaks of corruption exactly when there is some.
THEOREM CorruptionIsReported == Spec => []CorruptionNeverSilent
<1>1. IInv => CorruptionNeverSilent
  BY DEF IInv
<1> QED
  BY <1>1, Invariance, PTL

-----------------------------------------------------------------------------
(* The analysis while nothing lapses                                       *)
(*                                                                         *)
(* RoundTrip starts the analysis on what the invalidator has just written, *)
(* and nothing lapses on the way.  Then the classification of a path       *)
(* follows from the path, OpenSSL's answer and the pin, and the findings   *)
(* are those of the paths.                                                 *)

AnchorOf(p) == CASE pin = NoPin -> "ROOT_HASH_NOT_CHECKED"
                 [] pin # NoPin /\ pin \in find_root(p) -> "VALID"
                 [] OTHER -> "ROOT_HASH_MISMATCH"

HasLate(p, n) == \E k \in 2..n-1 : p[k] \in expired

\* What a path is called that OpenSSL rejects.
Blames(p, class) ==
    \/ p[1] \in expired /\ class = "EXPIRED_LEAF"
    \/ p[1] \notin expired /\ HasLate(p, Len(p)) /\ class = "EXPIRED_INTERMEDIATE"
    \/ /\ p[1] \notin expired /\ ~HasLate(p, Len(p))
       /\ \/ find_root(p) \cap expired # {} /\ class = "EXPIRED_ROOT"
          \/ find_root(p) \cap expired = {} /\ class \in Classification \ {"VALID"}

\* What path p may be called.
Verdict(p, class) ==
    \/ /\ chain_is_incomplete(p)
       /\ class = IF find_non_ca_intermediates(p) # {} THEN "NON_CA_INTERMEDIATE"
                  ELSE "MISSING_INTERMEDIATE"
    \/ /\ ~chain_is_incomplete(p)
       /\ \E m \in verify_chain(p, expired) :
             \/ m = {} /\ class = AnchorOf(p)
             \/ m # {} /\ Blames(p, class)

\* f is the finding about p.
Explains(f, p) ==
    /\ f.path = p
    /\ f.valid <=> f.classification = "VALID"
    /\ Verdict(p, f.classification)

\* One finding per path, in the order of the paths.
ProgressInv ==
    phase \in {"path"} \cup Inside =>
        /\ HoldsEndEntity
        /\ Certs(paths) = PathsOf(valid_certs)
        /\ Len(findings) <= Len(paths)
        /\ \A i \in 1..Len(findings) : Explains(findings[i], paths[i])

\* What the stages passed so far have established of the path in hand.
PassedInv ==
    /\ phase \in Inside => messages \in verify_chain(path, expired)
    /\ phase = "anchor" => messages = {}
    /\ phase \in Inside \ {"anchor"} => messages # {}
    /\ phase \in {"intermediates", "root", "messages"} => path[1] \notin expired
    /\ phase = "intermediates" => (late <=> HasLate(path, scan))
    /\ phase \in {"root", "messages"} => ~HasLate(path, Len(path))
    /\ phase = "messages" => find_root(path) \cap expired = {}

BundleFindings ==
    {Finding(<<>>, "CA_BUNDLE", corrupted_count = 0)} \cup
    {g \in {General("CORRUPTED_CERTIFICATE")} : corrupted_count # 0}

\* What is returned, for a bundle with a path, for one without, and for one of
\* CAs alone.
OutcomeInv ==
    phase = "done" =>
        /\ PathsOf(valid_certs) # {} /\ HoldsEndEntity =>
              /\ \A p \in PathsOf(valid_certs) : \E f \in Certs(findings) : Explains(f, p)
              /\ \A f \in Certs(findings) :
                    \/ \E p \in PathsOf(valid_certs) : Explains(f, p)
                    \/ f = General("CORRUPTED_CERTIFICATE") /\ corrupted_count # 0
        /\ PathsOf(valid_certs) = {} /\ HoldsEndEntity => \A f \in Certs(findings) : ~f.valid
        /\ valid_certs # <<>> /\ ~HoldsEndEntity => Certs(findings) = BundleFindings

OInv ==
    /\ phase = "load" => findings = <<>>
    /\ ProgressInv
    /\ PassedInv
    /\ OutcomeInv

\* What is said of a finding depends on the bundle, the pin and the clock.
LEMMA SameGround ==
  ASSUME UNCHANGED <<blocks, pin, expired>>
  PROVE  /\ valid_certs' = valid_certs /\ corrupted_count' = corrupted_count
         /\ (HoldsEndEntity' <=> HoldsEndEntity)
         /\ \A f, p : Explains(f, p)' <=> Explains(f, p)
         /\ BundleFindings' = BundleFindings
<1>1. valid_certs' = valid_certs
  BY DEF valid_certs
<1>2. corrupted_count' = corrupted_count
  BY <1>1 DEF corrupted_count
<1>3. HoldsEndEntity' <=> HoldsEndEntity
  BY <1>1 DEF HoldsEndEntity
<1>4. \A p : AnchorOf(p)' = AnchorOf(p)
  BY DEF AnchorOf
<1>5. \A p, n : HasLate(p, n)' <=> HasLate(p, n)
  BY DEF HasLate
<1>6. \A p, class : Blames(p, class)' <=> Blames(p, class)
  BY <1>5 DEF Blames
<1>7. \A p : find_non_ca_intermediates(p)' = find_non_ca_intermediates(p)
  BY <1>1 DEF find_non_ca_intermediates
<1>8. \A p, class : Verdict(p, class)' <=> Verdict(p, class)
  BY <1>4, <1>6, <1>7 DEF Verdict
<1>9. \A f, p : Explains(f, p)' <=> Explains(f, p)
  BY <1>8 DEF Explains
<1>10. BundleFindings' = BundleFindings
  BY <1>2 DEF BundleFindings
<1> QED
  BY <1>1, <1>2, <1>3, <1>9, <1>10

\* The path in hand is called what it may be called.
LEMMA Explained ==
  ASSUME IInv, IInv', OInv, phase \in {"path"} \cup Inside, phase' = "path",
         Len(findings) < Len(paths), NEW class, Report(class), Verdict(path, class),
         UNCHANGED <<blocks, pin, expired, paths>>
  PROVE  OInv'
<1> DEFINE f == Finding(path, class, class = "VALID")
           n == Len(findings)
<1>1. /\ valid_certs' = valid_certs /\ (HoldsEndEntity' <=> HoldsEndEntity)
      /\ \A g, p : Explains(g, p)' <=> Explains(g, p)
  BY SameGround
<1>2. findings' = Append(findings, f) /\ path = paths[n + 1]
  BY DEF Report, path
<1>3. Explains(f, path)
  BY DEF Explains, Finding
<1> HIDE DEF f
<1>4. findings \in Seq(FindingRecord \cup {f}) /\ f \in FindingRecord \cup {f}
  <2>1. findings \in Seq(FindingRecord)
    BY DEF IInv, TypeInv
  <2> QED
    BY <2>1
<1>5. /\ n \in Nat /\ Len(findings') = n + 1 /\ findings'[n + 1] = f
      /\ \A i \in 1..n : findings'[i] = findings[i]
  BY <1>2, <1>4
<1>6. Len(paths) \in Nat
  BY LenProperties DEF IInv, TypeInv
<1>7. ASSUME NEW i \in 1..Len(findings') PROVE Explains(findings'[i], paths[i])
  <2>1. CASE i = n + 1
    BY <1>2, <1>3, <1>5, <2>1
  <2>2. CASE i # n + 1
    <3>1. i \in 1..n
      BY <1>5, <2>2
    <3> QED
      BY <1>5, <3>1 DEF OInv, ProgressInv
  <2> QED
    BY <2>1, <2>2
<1>8. ProgressInv'
  <2>1. HoldsEndEntity /\ Certs(paths) = PathsOf(valid_certs)
    BY DEF OInv, ProgressInv
  <2>2. Certs(paths') = PathsOf(valid_certs') /\ HoldsEndEntity'
    BY <1>1, <2>1
  <2>3. Len(findings') <= Len(paths')
    BY <1>5, <1>6
  <2>4. \A i \in 1..Len(findings') : Explains(findings[i], paths[i])'
    BY <1>1, <1>7
  <2> QED
    BY <2>2, <2>3, <2>4 DEF ProgressInv
<1>9. PassedInv' /\ OutcomeInv' /\ phase' # "load"
  BY DEF PassedInv, OutcomeInv, Inside
<1> QED
  BY <1>8, <1>9 DEF OInv

\* A step on the path in hand that adds no finding.
LEMMA ReadOn ==
  ASSUME OInv, phase \in {"path"} \cup Inside, phase' \in Inside, PassedInv',
         UNCHANGED <<blocks, pin, expired, paths, findings>>
  PROVE  OInv'
<1>1. /\ valid_certs' = valid_certs /\ (HoldsEndEntity' <=> HoldsEndEntity)
      /\ \A g, p : Explains(g, p)' <=> Explains(g, p)
  BY SameGround
<1>2. ProgressInv'
  BY <1>1 DEF OInv, ProgressInv
<1>3. OutcomeInv' /\ phase' # "load"
  BY DEF OutcomeInv, Inside
<1> QED
  BY <1>2, <1>3 DEF OInv

\* An answer about the whole bundle, where there is no path to judge.
LEMMA ConcludedOutcome ==
  ASSUME NEW fs, Conclude(fs),
         \/ PathsOf(valid_certs) = {} /\ \A f \in Certs(fs) : ~f.valid
         \/ ~HoldsEndEntity,
         valid_certs # <<>> /\ ~HoldsEndEntity => Certs(fs) = BundleFindings
  PROVE  OInv'
<1>1. findings' = fs /\ phase' = "done" /\ UNCHANGED <<blocks, pin, expired>>
  BY DEF Conclude
<1>2. /\ valid_certs' = valid_certs /\ (HoldsEndEntity' <=> HoldsEndEntity)
      /\ BundleFindings' = BundleFindings
  BY <1>1, SameGround
<1>3. ~(PathsOf(valid_certs) # {} /\ HoldsEndEntity)'
  BY <1>2
<1>4. (valid_certs # <<>> /\ ~HoldsEndEntity => Certs(findings) = BundleFindings)'
  BY <1>1, <1>2
<1>5. (PathsOf(valid_certs) = {} /\ HoldsEndEntity => \A f \in Certs(findings) : ~f.valid)'
  BY <1>1, <1>2
<1>6. OutcomeInv'
  BY <1>3, <1>4, <1>5 DEF OutcomeInv
<1> QED
  BY <1>1, <1>6 DEF OInv, ProgressInv, PassedInv, Inside

\* The whole bundle.
LEMMA BundleOutcome ==
  ASSUME IInv, FindNothing \/ ReportAllCorrupted \/ ReportCaBundle \/ ReportNoLeaf
  PROVE  OInv'
<1>1. ASSUME NEW fs, Conclude(fs), valid_certs = <<>> PROVE OInv'
  <2>1. ~HoldsEndEntity
    BY <1>1, NoFindings DEF HoldsEndEntity
  <2> QED
    BY <1>1, <2>1, ConcludedOutcome
<1>2. CASE FindNothing
  <2>1. blocks \in Seq(Cert) /\ Len(blocks) = 0
    BY <1>2 DEF FindNothing, IInv, TypeInv
  <2>2. Len(valid_certs) <= 0 /\ valid_certs \in Seq(Cert)
    BY <2>1, SplitFacts DEF valid_certs
  <2>3. valid_certs = <<>>
    BY <2>2, LenProperties, EmptySeq
  <2> QED
    BY <1>1, <1>2, <2>3 DEF FindNothing
<1>3. CASE ReportAllCorrupted
  BY <1>1, <1>3 DEF ReportAllCorrupted
<1>4. CASE ReportCaBundle
  <2> DEFINE f == Finding(<<>>, "CA_BUNDLE", corrupted_count = 0)
             g == General("CORRUPTED_CERTIFICATE")
             fs == IF corrupted_count = 0 THEN <<f>> ELSE <<f, g>>
  <2>1. Conclude(fs) /\ ~HoldsEndEntity
    BY <1>4 DEF ReportCaBundle, HoldsEndEntity
  <2>2. Certs(fs) = BundleFindings
    <3> HIDE DEF f, g
    <3>1. Certs(<<f>>) = {f} /\ Certs(<<f, g>>) = {f, g}
      BY DEF Certs
    <3>2. BundleFindings = {f} \cup {h \in {g} : corrupted_count # 0}
      BY DEF BundleFindings, f, g
    <3> QED
      BY <3>1, <3>2
  <2> HIDE DEF fs
  <2> QED
    BY <2>1, <2>2, ConcludedOutcome
<1>5. CASE ReportNoLeaf
  <2> DEFINE g == General(IF corrupted_count = 0 THEN "MISSING_INTERMEDIATE"
                          ELSE "CORRUPTED_CERTIFICATE")
  <2>1. Conclude(<<g>>) /\ PathsOf(valid_certs) = {} /\ HoldsEndEntity
    BY <1>5 DEF ReportNoLeaf
  <2>2. ~g.valid
    BY DEF General, Finding
  <2> HIDE DEF g
  <2>3. \A f \in Certs(<<g>>) : ~f.valid
    BY <2>2 DEF Certs
  <2> QED
    BY <2>1, <2>3, ConcludedOutcome
<1> QED
  BY <1>2, <1>3, <1>4, <1>5

LEMMA PathsListed == IInv /\ OInv /\ BuildPaths => OInv'
<1> SUFFICES ASSUME IInv, OInv, BuildPaths PROVE OInv'
  OBVIOUS
<1>1. /\ findings' = <<>> /\ phase' = "path" /\ HoldsEndEntity
      /\ paths' \in Listings(PathsOf(valid_certs))
      /\ UNCHANGED <<blocks, pin, expired>>
  BY DEF BuildPaths, OInv
<1>2. valid_certs' = valid_certs /\ (HoldsEndEntity' <=> HoldsEndEntity)
  BY <1>1, SameGround
<1>3. valid_certs \in Seq(Cert)
  BY ValidCertsFacts DEF IInv, TypeInv
<1>4. paths' \in Seq(PathsOf(valid_certs)) /\ Certs(paths') = PathsOf(valid_certs)
  BY <1>1, <1>3, PathsAreFinite, ListingFacts
<1>5. Len(findings') = 0 /\ Len(paths') \in Nat
  <2>1. Len(findings') = 0
    BY <1>1
  <2> QED
    BY <1>4, <2>1, LenProperties
<1>6. ProgressInv'
  BY <1>1, <1>2, <1>4, <1>5 DEF ProgressInv
<1> QED
  BY <1>1, <1>6 DEF OInv, PassedInv, OutcomeInv, Inside

\* The stages a path goes through.
LEMMA StageOutcome ==
  ASSUME IInv, IInv', OInv,
         \/ StopShort \/ VerifyChain \/ CheckAnchor \/ ReadLeaf
         \/ ReadIntermediate \/ EndIntermediates \/ ReadRoot \/ ReadMessages
  PROVE  OInv'
<1>1. CASE StopShort
  <2> DEFINE class == IF find_non_ca_intermediates(path) # {} THEN "NON_CA_INTERMEDIATE"
                      ELSE "MISSING_INTERMEDIATE"
  <2>1. Verdict(path, class) /\ Report(class) /\ phase' = "path"
    BY <1>1 DEF StopShort, Verdict, Pending
  <2> HIDE DEF class
  <2> QED
    BY <1>1, <2>1, Explained DEF StopShort, Pending
<1>2. CASE VerifyChain
  <2>1. /\ phase = "path" /\ messages' \in verify_chain(path, expired)
        /\ phase' = IF messages' = {} THEN "anchor" ELSE "leaf"
        /\ UNCHANGED <<blocks, pin, expired, paths, findings>>
    BY <1>2 DEF VerifyChain, Pending
  <2>2. path' = path
    BY <2>1 DEF path
  <2>3. PassedInv'
    BY <2>1, <2>2 DEF PassedInv, Inside
  <2> QED
    BY <2>1, <2>3, ReadOn DEF Inside
<1> DEFINE Rejected == phase \in Inside \ {"anchor"}
<1>3. ASSUME phase \in Inside
      PROVE  /\ Len(findings) < Len(paths) /\ ~chain_is_incomplete(path)
             /\ messages \in verify_chain(path, expired)
             /\ phase \in {"path"} \cup Inside
  BY <1>3 DEF IInv, CurrentInv, OInv, PassedInv
<1>4. ASSUME Rejected, NEW class, Blames(path, class), Report(class), phase' = "path",
             UNCHANGED <<blocks, pin, expired, paths>>
      PROVE  OInv'
  <2>1. messages # {}
    BY <1>4 DEF OInv, PassedInv
  <2>2. Verdict(path, class)
    BY <1>3, <1>4, <2>1 DEF Verdict
  <2> QED
    BY <1>3, <1>4, <2>2, Explained
<1>5. CASE CheckAnchor
  <2>1. /\ phase = "anchor" /\ Report(AnchorVerdict) /\ phase' = "path"
        /\ UNCHANGED <<blocks, pin, expired, paths>>
    BY <1>5 DEF CheckAnchor
  <2>2. phase \in Inside /\ messages = {}
    BY <2>1 DEF Inside, OInv, PassedInv
  <2>3. AnchorVerdict = AnchorOf(path)
    BY DEF AnchorVerdict, AnchorOf
  <2>4. Verdict(path, AnchorVerdict)
    BY <1>3, <2>2, <2>3 DEF Verdict
  <2> QED
    BY <1>3, <2>1, <2>2, <2>4, Explained
<1>6. CASE ReadLeaf
  <2>1. /\ phase = "leaf" /\ scan' = 2 /\ late' = FALSE
        /\ UNCHANGED <<blocks, pin, expired, paths, messages>>
    BY <1>6 DEF ReadLeaf
  <2>2. CASE path[1] \in expired
    <3>1. Report("EXPIRED_LEAF") /\ phase' = "path" /\ Blames(path, "EXPIRED_LEAF")
      BY <1>6, <2>2 DEF ReadLeaf, Blames
    <3> QED
      BY <1>4, <2>1, <3>1 DEF Inside
  <2>3. CASE path[1] \notin expired
    <3>1. phase' = "intermediates" /\ UNCHANGED findings
      BY <1>6, <2>3 DEF ReadLeaf
    <3>2. path' = path
      BY <2>1, <3>1 DEF path
    <3>3. ~HasLate(path, 2)'
      BY DEF HasLate
    <3>4. messages \in verify_chain(path, expired) /\ messages # {}
      BY <1>3, <2>1 DEF Inside, OInv, PassedInv
    <3>5. PassedInv'
      BY <2>1, <2>3, <3>1, <3>2, <3>3, <3>4 DEF PassedInv, Inside
    <3> QED
      BY <2>1, <3>1, <3>5, ReadOn DEF Inside
  <2> QED
    BY <2>2, <2>3
<1>7. CASE ReadIntermediate
  <2>1. /\ phase = "intermediates" /\ phase' = phase /\ scan' = scan + 1
        /\ late' = (late \/ path[scan] \in expired)
        /\ UNCHANGED <<blocks, pin, expired, paths, messages, findings>>
    BY <1>7 DEF ReadIntermediate
  <2>2. path' = path /\ scan \in Nat /\ scan >= 2
    BY <2>1 DEF path, IInv, ReadingsInv
  <2>3. HasLate(path, scan)' <=> HasLate(path, scan) \/ path[scan] \in expired
    <3>1. 2..scan'-1 = 2..scan-1 \cup {scan}
      BY <2>1, <2>2
    <3> QED
      BY <2>1, <2>2, <3>1 DEF HasLate
  <2>4. /\ messages \in verify_chain(path, expired) /\ messages # {}
        /\ path[1] \notin expired /\ (late <=> HasLate(path, scan))
    BY <1>3, <2>1 DEF Inside, OInv, PassedInv
  <2>5. PassedInv'
    BY <2>1, <2>2, <2>3, <2>4 DEF PassedInv, Inside
  <2> QED
    BY <2>1, <2>5, ReadOn DEF Inside
<1>8. CASE EndIntermediates
  <2>1. /\ phase = "intermediates" /\ scan = Len(path)
        /\ UNCHANGED <<blocks, pin, expired, paths, messages>>
    BY <1>8 DEF EndIntermediates
  <2>2. /\ messages \in verify_chain(path, expired) /\ messages # {}
        /\ path[1] \notin expired /\ (late <=> HasLate(path, Len(path)))
    BY <1>3, <2>1 DEF Inside, OInv, PassedInv
  <2>3. CASE late
    <3>1. /\ Report("EXPIRED_INTERMEDIATE") /\ phase' = "path"
          /\ Blames(path, "EXPIRED_INTERMEDIATE")
      BY <1>8, <2>2, <2>3 DEF EndIntermediates, Blames
    <3> QED
      BY <1>4, <2>1, <3>1 DEF Inside
  <2>4. CASE ~late
    <3>1. phase' = "root" /\ UNCHANGED findings
      BY <1>8, <2>4 DEF EndIntermediates
    <3>2. path' = path
      BY <2>1, <3>1 DEF path
    <3>3. ~HasLate(path, Len(path))'
      BY <2>1, <2>2, <2>4, <3>2 DEF HasLate
    <3>4. PassedInv'
      BY <2>1, <2>2, <3>1, <3>2, <3>3 DEF PassedInv, Inside
    <3> QED
      BY <2>1, <3>1, <3>4, ReadOn DEF Inside
  <2> QED
    BY <2>3, <2>4
<1>9. CASE ReadRoot
  <2>1. phase = "root" /\ UNCHANGED <<blocks, pin, expired, paths, messages>>
    BY <1>9 DEF ReadRoot
  <2>2. /\ messages \in verify_chain(path, expired) /\ messages # {}
        /\ path[1] \notin expired /\ ~HasLate(path, Len(path))
    BY <1>3, <2>1 DEF Inside, OInv, PassedInv
  <2>3. CASE find_root(path) \cap expired # {}
    <3>1. Report("EXPIRED_ROOT") /\ phase' = "path" /\ Blames(path, "EXPIRED_ROOT")
      BY <1>9, <2>2, <2>3 DEF ReadRoot, Blames
    <3> QED
      BY <1>4, <2>1, <3>1 DEF Inside
  <2>4. CASE find_root(path) \cap expired = {}
    <3>1. phase' = "messages" /\ UNCHANGED findings
      BY <1>9, <2>4 DEF ReadRoot
    <3>2. path' = path
      BY <2>1, <3>1 DEF path
    <3>3. ~HasLate(path, Len(path))'
      BY <2>1, <2>2, <3>2 DEF HasLate
    <3>4. PassedInv'
      BY <2>1, <2>2, <2>4, <3>1, <3>2, <3>3 DEF PassedInv, Inside
    <3> QED
      BY <2>1, <3>1, <3>4, ReadOn DEF Inside
  <2> QED
    BY <2>3, <2>4
<1>10. CASE ReadMessages
  <2>1. /\ phase = "messages" /\ Report(Classified) /\ phase' = "path"
        /\ UNCHANGED <<blocks, pin, expired, paths>>
    BY <1>10 DEF ReadMessages
  <2>2. /\ path[1] \notin expired /\ ~HasLate(path, Len(path))
        /\ find_root(path) \cap expired = {}
    BY <2>1 DEF OInv, PassedInv
  <2>3. Classified \in Classification \ {"VALID"}
    BY <2>1, ClassifiedFacts DEF IInv, RejectedInv, Inside
  <2>4. Blames(path, Classified)
    BY <2>2, <2>3 DEF Blames
  <2> QED
    BY <1>4, <2>1, <2>4 DEF Inside
<1> QED
  BY <1>1, <1>2, <1>5, <1>6, <1>7, <1>8, <1>9, <1>10

LEMMA ReturnOutcome == IInv /\ OInv /\ Return => OInv'
<1> SUFFICES ASSUME IInv, OInv, Return PROVE OInv'
  OBVIOUS
<1> DEFINE g == General("CORRUPTED_CERTIFICATE")
<1>1. /\ phase = "path" /\ phase' = "done" /\ Len(findings) = Len(paths)
      /\ UNCHANGED <<blocks, pin, expired, paths>>
  BY DEF Return
<1>2. /\ valid_certs' = valid_certs /\ corrupted_count' = corrupted_count
      /\ (HoldsEndEntity' <=> HoldsEndEntity)
      /\ \A f, p : Explains(f, p)' <=> Explains(f, p)
  BY <1>1, SameGround
<1>3. /\ HoldsEndEntity /\ Certs(paths) = PathsOf(valid_certs)
      /\ \A i \in 1..Len(paths) : Explains(findings[i], paths[i])
  BY <1>1 DEF OInv, ProgressInv
<1>4. /\ \A p \in Certs(paths) : \E f \in Certs(findings) : Explains(f, p)
      /\ \A f \in Certs(findings) : \E p \in Certs(paths) : Explains(f, p)
  BY <1>1, <1>3 DEF Certs
<1>5. /\ Certs(findings) \subseteq Certs(findings')
      /\ \A f \in Certs(findings') : f \in Certs(findings) \/ (f = g /\ corrupted_count # 0)
  <2>1. CASE Unreported
    <3>1. findings' = Append(findings, g) /\ corrupted_count # 0
      BY <2>1 DEF Return, Unreported
    <3>2. g \in FindingRecord /\ findings \in Seq(FindingRecord)
      BY GeneralFacts DEF IInv, TypeInv, General, Finding, FindingRecord, Classification
    <3> HIDE DEF g
    <3>3. Certs(findings') = Certs(findings) \cup {g}
      BY <3>1, <3>2, CertsOfAppend
    <3> QED
      BY <3>1, <3>3
  <2>2. CASE ~Unreported
    BY <2>2 DEF Return
  <2> QED
    BY <2>1, <2>2
<1> HIDE DEF g
<1>6. \A p \in PathsOf(valid_certs) : \E f \in Certs(findings') : Explains(f, p)
  BY <1>3, <1>4, <1>5
<1>7. \A f \in Certs(findings') :
         (\E p \in PathsOf(valid_certs) : Explains(f, p)) \/ (f = g /\ corrupted_count # 0)
  BY <1>3, <1>4, <1>5
<1>8. PathsOf(valid_certs) = {} => \A f \in Certs(findings') : ~f.valid
  <2>1. ~g.valid
    BY DEF g, General, Finding
  <2> QED
    BY <1>7, <2>1
<1>9. OutcomeInv'
  BY <1>1, <1>2, <1>3, <1>6, <1>7, <1>8 DEF OutcomeInv, g
<1> QED
  BY <1>1, <1>9 DEF OInv, ProgressInv, PassedInv, Inside

LEMMA OutcomeHolds == IInv /\ IInv' /\ OInv /\ Step => OInv'
  BY BundleOutcome, PathsListed, StageOutcome, ReturnOutcome DEF Step

-----------------------------------------------------------------------------
(* Chains                                                                  *)

\* A chain that is its own path ...
ClimbShape(c) ==
    /\ c \in Seq(Cert) /\ Len(c) >= 2
    /\ \A i \in 1..Len(c) :
          /\ Parses(c[i])
          /\ is_ca(c[i]) <=> i # 1
          /\ Issuer[c[i]] # Subject[c[1]]
    /\ \A i \in 1..Len(c)-1 : Subject[c[i+1]] = Issuer[c[i]]
    /\ NoRepeats(c)

\* ... up to a self-signed CA.
ChainShape(c) == ClimbShape(c) /\ is_self_signed(Last(c))

LEMMA ShapeFacts ==
  ASSUME NEW c, ClimbShape(c)
  PROVE  /\ c \in Seq(Cert) /\ Len(c) \in Nat /\ 1 \in 1..Len(c) /\ Len(c) \in 1..Len(c)
         /\ \A i \in 1..Len(c) : c[i] \in Cert /\ c[i] \in Certs(c)
         /\ Len(c) # 1 /\ c # <<>>
<1>1. c \in Seq(Cert) /\ Len(c) >= 2
  BY DEF ClimbShape
<1>2. Len(c) \in Nat /\ c # <<>>
  BY <1>1, LenProperties, EmptySeq
<1>3. \A i \in 1..Len(c) : c[i] \in Cert
  BY <1>1, ElementOfSeq
<1> QED
  BY <1>1, <1>2, <1>3 DEF Certs

\* The chains the invalidator starts from.
LEMMA GivenClimbs ==
  ASSUME NEW c \in Chains
  PROVE  ClimbShape(c) /\ IsPath(c, c)
<1>1. c \in Seq(Cert) /\ IsPath(c, c) /\ IsClimb(c, c) /\ find_root(c) # {}
  BY RoundTripAssumption DEF IsPath
<1>2. /\ Len(c) \in Nat /\ Len(c) >= 1
      /\ \A i \in 1..Len(c) : c[i] \in Cert /\ c[i] \in Certs(c) /\ Parses(c[i])
      /\ \A i \in 2..Len(c) : is_ca(c[i])
      /\ ~is_ca(c[1])
      /\ \A d \in Certs(c) : Parses(d) => Issuer[d] # Subject[c[1]]
      /\ \A i \in 1..Len(c)-1 : Subject[c[i+1]] = Issuer[c[i]]
      /\ NoRepeats(c)
  BY <1>1, ClimbFacts
<1>3. Len(c) >= 2
  <2>1. PICK i \in 1..Len(c) : is_ca(c[i])
    BY <1>1, RootIsCA
  <2>2. i # 1
    BY <1>2, <2>1
  <2> QED
    BY <1>2, <2>2
<1>4. \A i \in 1..Len(c) : is_ca(c[i]) <=> i # 1
  BY <1>2
<1> QED
  BY <1>1, <1>2, <1>3, <1>4 DEF ClimbShape

\* Where no CA of the machine helps they go up to a self-signed CA.
LEMMA GivenShape ==
  ASSUME NEW c \in Chains, Unaided(c)
  PROVE  ChainShape(c)
<1>1. ClimbShape(c) /\ IsPath(c, c) /\ {} \in verify_chain(c, {})
  BY GivenClimbs, RoundTripAssumption
<1>2. /\ c \in Seq(Cert) /\ Len(c) >= 2 /\ IsClimb(c, c)
      /\ Len(c) \in 1..Len(c) /\ \A i \in 1..Len(c) : Parses(c[i])
  BY <1>1, ShapeFacts DEF ClimbShape, IsPath
<1>3. SignsItself(Last(c)) /\ Last(c) = c[Len(c)]
  BY <1>1, <1>2, NoComplaintVouches DEF Vouches, Last
<1> QED
  BY <1>1, <1>2, <1>3 DEF ChainShape, SignsItself, is_self_signed

\* In a bundle that holds what w holds, w is a path, and every path starts
\* where w does.
LEMMA WholePath ==
  ASSUME NEW v \in Seq(Cert), NEW w, ChainShape(w), Certs(v) = Certs(w)
  PROVE  /\ w \in PathsOf(v) /\ IsPath(v, w) /\ ~chain_is_incomplete(w)
         /\ ~is_ca(w[1]) /\ w[1] \in Certs(v)
         /\ \A x \in Certs(v) : IsLeaf(v, x) => x = w[1]
<1>1. /\ w \in Seq(Cert) /\ Len(w) \in Nat /\ Len(w) >= 2
      /\ \A i \in 1..Len(w) : w[i] \in Cert /\ w[i] \in Certs(w) /\ Parses(w[i])
      /\ 1 \in 1..Len(w) /\ Len(w) \in 1..Len(w) /\ w # <<>>
  BY ShapeFacts DEF ChainShape, ClimbShape
<1>2. \A i \in 1..Len(w)-1 : i+1 \in 1..Len(w) /\ i + 1 # 1
  BY <1>1
<1>3. \A i \in 1..Len(w)-1 : IsParent(w[i], w[i+1])
  BY <1>2 DEF ChainShape, ClimbShape, IsParent
<1>4. ~is_ca(w[1]) /\ \A x \in Certs(w) : is_ca(x) \/ x = w[1]
  BY <1>1 DEF ChainShape, ClimbShape, Certs
<1>5. Subject[w[1]] \notin IssuersOf(v)
  BY DEF IssuersOf, Certs, ChainShape, ClimbShape
<1>6. IsLeaf(v, w[1])
  BY <1>1, <1>4, <1>5 DEF IsLeaf
<1>7. IsPath(v, w)
  <2>1. \A c \in Certs(v) : IsParent(Last(w), c) => c \in Certs(w)
    OBVIOUS
  <2>2. NoRepeats(w) /\ Certs(w) \subseteq Certs(v)
    BY DEF ChainShape, ClimbShape
  <2> QED
    BY <1>1, <1>3, <1>6, <2>1, <2>2 DEF IsPath, IsClimb
<1>8. w \in PathsOf(v)
  BY <1>1, <1>7, PathsOfIsPath
<1>9. ~chain_is_incomplete(w)
  <2>1. is_ca(Last(w)) /\ is_self_signed(Last(w))
    BY <1>1 DEF ChainShape, ClimbShape, Last
  <2> QED
    BY <1>1, <2>1 DEF chain_is_incomplete
<1> QED
  BY <1>1, <1>4, <1>7, <1>8, <1>9 DEF IsLeaf

\* Where a path starts.
LEMMA StartsAtLeaf ==
  ASSUME NEW v \in Seq(Cert), NEW w, \A x \in Certs(v) : IsLeaf(v, x) => x = w[1],
         NEW p \in PathsOf(v)
  PROVE  p[1] = w[1]
<1>1. p \in Seq(Cert) /\ IsClimb(v, p)
  BY PathsOfIsPath DEF IsPath
<1>2. IsLeaf(v, p[1])
  BY <1>1 DEF IsClimb
<1>3. 1 \in 1..Len(p) /\ p[1] \in Certs(v)
  BY <1>1, ClimbFacts
<1> QED
  BY <1>2, <1>3

\* Where the CAs of a bundle have distinct names, a path from its only leaf is
\* the only one.
LEMMA OnePath ==
  ASSUME NEW v \in Seq(Cert), NEW w \in Seq(Cert), IsPath(v, w),
         \A x \in Certs(v) : IsLeaf(v, x) => x = w[1],
         \A x, y \in Certs(v) : is_ca(x) /\ is_ca(y) /\ Subject[x] = Subject[y] => x = y
  PROVE  PathsOf(v) = {w}
<1>1. ASSUME NEW q \in Seq(Cert), IsPath(v, q)
      PROVE  /\ Len(q) \in Nat /\ Len(q) >= 1 /\ NoRepeats(q)
             /\ \A i \in 1..Len(q) : q[i] \in Certs(v)
             /\ \A i \in 1..Len(q)-1 : IsParent(q[i], q[i+1])
             /\ \A c \in Certs(v) : IsParent(q[Len(q)], c) =>
                    \E i \in 1..Len(q) : q[i] = c
             /\ q[1] = w[1]
  <2>1. IsClimb(v, q)
    BY <1>1 DEF IsPath
  <2>2. Len(q) \in Nat /\ Len(q) >= 1 /\ \A i \in 1..Len(q) : q[i] \in Certs(v)
    BY <2>1, ClimbFacts
  <2>3. \A c \in Certs(v) : IsParent(q[Len(q)], c) => \E i \in 1..Len(q) : q[i] = c
    BY <1>1 DEF IsPath, Last, Certs
  <2>4. q[1] = w[1]
    BY <1>1, PathsOfIsPath, StartsAtLeaf
  <2> QED
    BY <2>1, <2>2, <2>3, <2>4 DEF IsClimb
\* Two paths of which one goes at least as far as the other.
<1>2. ASSUME NEW p \in Seq(Cert), IsPath(v, p), NEW q \in Seq(Cert), IsPath(v, q),
             Len(p) <= Len(q)
      PROVE  p = q
  <2> DEFINE D == {i \in 1..Len(p) : p[i] # q[i]}
  <2>0. /\ Len(p) \in Nat /\ Len(p) >= 1 /\ Len(q) \in Nat
        /\ Len(p) \in 1..Len(p) /\ 1..Len(p) \subseteq 1..Len(q)
    <3>1. Len(p) \in Nat /\ Len(p) >= 1 /\ Len(q) \in Nat
      BY <1>1, <1>2
    <3> QED
      BY <1>2, <3>1
  <2>1. D = {}
    <3> SUFFICES ASSUME D # {} PROVE FALSE
      OBVIOUS
    <3>0. D \in SUBSET Nat
      BY <2>0
    <3>1. PICK m \in D : \A k \in D : m <= k
      <4> HIDE DEF D
      <4> QED
        BY <3>0, Least
    <3>2. m \in 1..Len(p) /\ p[m] # q[m]
      OBVIOUS
    <3>3. m # 1
      BY <1>1, <1>2, <3>2
    <3>4. m - 1 \in 1..Len(p)-1 /\ m - 1 \in 1..Len(q)-1 /\ m-1 \in 1..Len(p)
          /\ (m - 1) + 1 = m /\ m-1 < m /\ m \in 1..Len(q)
      BY <1>2, <2>0, <3>2, <3>3
    <3>5. p[m-1] = q[m-1]
      BY <3>1, <3>4
    <3>6. IsParent(p[m-1], p[m]) /\ IsParent(q[m-1], q[m])
      BY <1>1, <1>2, <3>4
    <3>7. p[m] \in Certs(v) /\ q[m] \in Certs(v)
      BY <1>1, <1>2, <3>2, <3>4
    <3> QED
      BY <3>2, <3>5, <3>6, <3>7 DEF IsParent
  <2>2. \A i \in 1..Len(p) : p[i] = q[i]
    BY <2>1
  <2>3. Len(p) = Len(q)
    <3> SUFFICES ASSUME Len(p) < Len(q) PROVE FALSE
      BY <1>2, <2>0
    <3> DEFINE n == Len(p)
    <3>1. n \in 1..Len(q)-1 /\ n + 1 \in 1..Len(q) /\ n + 1 \notin 1..n
      BY <2>0
    <3>2. IsParent(q[n], q[n+1]) /\ q[n+1] \in Certs(v)
      BY <1>1, <1>2, <3>1
    <3>3. p[n] = q[n]
      BY <2>0, <2>2
    <3>4. PICK i \in 1..n : p[i] = q[n+1]
      BY <1>1, <1>2, <3>2, <3>3
    <3>5. q[i] = q[n+1] /\ i \in 1..Len(q)
      BY <2>0, <2>2, <3>4
    <3>6. NoRepeats(q)
      BY <1>1, <1>2
    <3> QED
      BY <3>1, <3>4, <3>5, <3>6 DEF NoRepeats
  <2> QED
    BY <2>2, <2>3, SeqEqual
<1>3. ASSUME NEW p \in PathsOf(v) PROVE p = w
  <2>1. p \in Seq(Cert) /\ IsPath(v, p)
    BY PathsOfIsPath
  <2>2. Len(p) \in Nat /\ Len(w) \in Nat
    BY <2>1, LenProperties
  <2>3. Len(p) <= Len(w) \/ Len(w) <= Len(p)
    BY <2>2
  <2> QED
    BY <1>2, <2>1, <2>3
<1> QED
  BY <1>3, PathsOfIsPath

Put(c, k, d) == [c EXCEPT ![k] = d]

\* One certificate of a sequence without repetitions replaced.
LEMMA Replaced ==
  ASSUME NEW c \in Seq(Cert), NoRepeats(c), NEW k \in 1..Len(c), NEW d \in Cert,
         NEW w, w = Put(c, k, d)
  PROVE  /\ w \in Seq(Cert) /\ Len(w) = Len(c) /\ w[k] = d
         /\ \A i \in 1..Len(c) : i # k => w[i] = c[i]
         /\ Certs(w) = (Certs(c) \ {c[k]}) \cup {d}
<1> DEFINE n == Len(c)
<1>1. /\ w \in Seq(Cert) /\ Len(w) = n /\ w[k] = d
      /\ \A i \in 1..n : i # k => w[i] = c[i]
  BY ExceptSeq DEF Put
<1>2. ASSUME NEW x \in Certs(w) PROVE x \in (Certs(c) \ {c[k]}) \cup {d}
  <2>1. PICK i \in 1..n : x = w[i]
    BY <1>1, <1>2 DEF Certs
  <2>2. CASE i # k
    <3>1. x = c[i] /\ c[i] # c[k] /\ c[i] \in Certs(c)
      BY <1>1, <2>1, <2>2 DEF NoRepeats, Certs
    <3> QED
      BY <3>1
  <2> QED
    BY <1>1, <2>1, <2>2
<1>3. ASSUME NEW x \in Certs(c) \ {c[k]} PROVE x \in Certs(w)
  <2>1. PICK i \in 1..n : x = c[i]
    BY DEF Certs
  <2>2. i # k /\ x = w[i]
    BY <1>1, <2>1
  <2> QED
    BY <1>1, <2>2 DEF Certs
<1>4. d \in Certs(w)
  BY <1>1 DEF Certs
<1>5. Certs(w) = (Certs(c) \ {c[k]}) \cup {d}
  BY <1>2, <1>3, <1>4
<1> QED
  BY <1>1, <1>5

\* The certificate at k replaced by another one of its name and issuer.
LEMMA Reshaped ==
  ASSUME NEW c, ChainShape(c), NEW k \in 1..Len(c), NEW d \in Cert, d \notin Certs(c),
         Parses(d), Subject[d] = Subject[c[k]], Issuer[d] = Issuer[c[k]],
         is_ca(d) <=> k # 1, NEW w, w = Put(c, k, d)
  PROVE  /\ ChainShape(w)
         /\ DistinctNames(c) => DistinctNames(w)
         /\ SingleRoot(c) => SingleRoot(w)
         /\ Unaided(c) => Unaided(w)
<1> DEFINE n == Len(c)
<1>1. /\ c \in Seq(Cert) /\ n \in Nat /\ n >= 2 /\ 1 \in 1..n /\ n \in 1..n
      /\ \A i \in 1..n : c[i] \in Cert /\ c[i] \in Certs(c)
      /\ NoRepeats(c)
  BY ShapeFacts DEF ChainShape, ClimbShape
<1>2. /\ w \in Seq(Cert) /\ Len(w) = n /\ w[k] = d
      /\ \A i \in 1..n : i # k => w[i] = c[i]
      /\ Certs(w) = (Certs(c) \ {c[k]}) \cup {d}
  <2>1. c \in Seq(Cert) /\ NoRepeats(c)
    BY <1>1
  <2>2. w \in Seq(Cert) /\ Len(w) = n /\ w[k] = d /\ Certs(w) = (Certs(c) \ {c[k]}) \cup {d}
    BY <2>1, Replaced
  <2>3. ASSUME NEW i \in 1..n, i # k PROVE w[i] = c[i]
    BY <2>1, <2>3, ExceptSeq DEF Put
  <2> QED
    BY <2>2, <2>3
<1>3. \A i \in 1..n : /\ Parses(w[i]) /\ Subject[w[i]] = Subject[c[i]]
                      /\ Issuer[w[i]] = Issuer[c[i]]
                      /\ (is_ca(w[i]) <=> is_ca(c[i]))
  <2> TAKE i \in 1..n
  <2>1. CASE i = k
    BY <1>2, <2>1 DEF ChainShape, ClimbShape
  <2>2. CASE i # k
    BY <1>2, <2>2 DEF ChainShape, ClimbShape
  <2> QED
    BY <2>1, <2>2
<1>4. ASSUME NEW i \in 1..n, NEW j \in 1..n, w[i] = w[j] PROVE i = j
  <2>1. c[i] \in Certs(c) /\ c[j] \in Certs(c)
    BY <1>1
  <2>2. CASE i = k /\ j # k
    BY <1>2, <1>4, <2>1, <2>2
  <2>3. CASE i # k /\ j = k
    BY <1>2, <1>4, <2>1, <2>3
  <2>4. CASE i # k /\ j # k
    BY <1>2, <1>4, <2>4 DEF ChainShape, ClimbShape, NoRepeats
  <2> QED
    BY <2>2, <2>3, <2>4
<1>5. NoRepeats(w)
  BY <1>2, <1>4 DEF NoRepeats
<1>6. \A i \in 1..n : is_self_signed(w[i]) <=> is_self_signed(c[i])
  BY <1>3 DEF is_self_signed, ChainShape, ClimbShape
<1>7. ChainShape(w)
  <2>1. \A i \in 1..n : /\ Parses(w[i])
                        /\ is_ca(w[i]) <=> i # 1
                        /\ Issuer[w[i]] # Subject[w[1]]
    BY <1>1, <1>3 DEF ChainShape, ClimbShape
  <2>2. \A i \in 1..n-1 : Subject[w[i+1]] = Issuer[w[i]]
    <3> TAKE i \in 1..n-1
    <3>1. i \in 1..n /\ i + 1 \in 1..n
      BY <1>1
    <3> QED
      BY <1>3, <3>1 DEF ChainShape, ClimbShape
  <2>3. is_self_signed(Last(w))
    BY <1>1, <1>2, <1>6 DEF ChainShape, ClimbShape, Last
  <2> QED
    BY <1>1, <1>2, <1>5, <2>1, <2>2, <2>3 DEF ChainShape, ClimbShape
<1>8. DistinctNames(c) => DistinctNames(w)
  BY <1>2, <1>3 DEF DistinctNames
<1>9. SingleRoot(c) => SingleRoot(w)
  BY <1>2, <1>3, <1>6 DEF SingleRoot
<1>10. Unaided(c) => Unaided(w)
  <2>1. \A x \in Certs(w) : \E y \in Certs(c) : Issuer[x] = Issuer[y]
    BY <1>1, <1>2
  <2>2. Subject[Last(w)] = Subject[Last(c)]
    BY <1>1, <1>2, <1>3 DEF Last
  <2> QED
    BY <2>1, <2>2 DEF Unaided
<1> QED
  BY <1>7, <1>8, <1>9, <1>10

\* Names that differ along a chain belong to one certificate each.
LEMMA NamesOfChain ==
  ASSUME NEW c, DistinctNames(c), NEW x \in Certs(c), NEW y \in Certs(c),
         Subject[x] = Subject[y]
  PROVE  x = y
<1>1. PICK i \in 1..Len(c), j \in 1..Len(c) : x = c[i] /\ y = c[j]
  BY DEF Certs
<1> QED
  BY <1>1 DEF DistinctNames

\* Where the chain written is a whole one and its names differ, it is the only
\* path.
LEMMA WholeOnly ==
  ASSUME NEW v \in Seq(Cert), NEW w, ChainShape(w), DistinctNames(w), Certs(v) = Certs(w)
  PROVE  PathsOf(v) = {w}
<1>1. w \in Seq(Cert) /\ IsPath(v, w) /\ \A x \in Certs(v) : IsLeaf(v, x) => x = w[1]
  BY WholePath, ShapeFacts DEF ChainShape
<1>2. \A x, y \in Certs(v) : is_ca(x) /\ is_ca(y) /\ Subject[x] = Subject[y] => x = y
  BY NamesOfChain
<1> QED
  BY <1>1, <1>2, OnePath

\* What find_root picks is one certificate of the path, a CA; of a chain, one
\* that is self-signed.
LEMMA RootOfPath ==
  ASSUME NEW p \in Seq(Cert)
  PROVE  /\ \A r \in find_root(p) : \E i \in 1..Len(p) : p[i] = r
         /\ \A r, s \in find_root(p) : r = s
<1> DEFINE Anchor(x) == is_ca(x) /\ is_self_signed(x)
           Highest(x) == is_ca(x) /\ Issuer[x] \notin SubjectsOf(p)
           Firsts == {k \in 1..Len(p) : Anchor(p[k]) /\ \A j \in 1..k-1 : ~Anchor(p[j])}
           Tops == {k \in 1..Len(p) : Highest(p[k]) /\ \A j \in 1..k-1 : ~Highest(p[j])}
<1>1. \/ find_root(p) = {p[i] : i \in Firsts}
      \/ find_root(p) = {p[i] : i \in Tops}
  BY DEF find_root, FirstWith
<1>2. Len(p) \in Nat
  BY LenProperties
<1>3. \A i, j \in Firsts : i = j
  <2> SUFFICES ASSUME NEW i \in Firsts, NEW j \in Firsts, i < j PROVE FALSE
    BY <1>2
  <2>1. i \in 1..j-1 /\ Anchor(p[i])
    BY <1>2
  <2> HIDE DEF Anchor
  <2> QED
    BY <2>1
<1>4. \A i, j \in Tops : i = j
  <2> SUFFICES ASSUME NEW i \in Tops, NEW j \in Tops, i < j PROVE FALSE
    BY <1>2
  <2>1. i \in 1..j-1 /\ Highest(p[i])
    BY <1>2
  <2> HIDE DEF Highest
  <2> QED
    BY <2>1
<1>5. Firsts \subseteq 1..Len(p) /\ Tops \subseteq 1..Len(p)
  OBVIOUS
<1> HIDE DEF Firsts, Tops
<1>6. CASE find_root(p) = {p[i] : i \in Firsts}
  BY <1>3, <1>5, <1>6
<1>7. CASE find_root(p) = {p[i] : i \in Tops}
  BY <1>4, <1>5, <1>7
<1> QED
  BY <1>1, <1>6, <1>7

LEMMA CAIsRoot ==
  ASSUME NEW p, NEW r \in find_root(p)
  PROVE  is_ca(r)
  BY DEF find_root, FirstWith

LEMMA RootOfChain ==
  ASSUME NEW c, ChainShape(c)
  PROVE  /\ find_root(c) # {}
         /\ \A r \in find_root(c) : is_ca(r) /\ is_self_signed(r)
<1> DEFINE Anchor(x) == is_ca(x) /\ is_self_signed(x)
           Ks == {k \in 1..Len(c) : Anchor(c[k])}
           Firsts == {k \in 1..Len(c) : Anchor(c[k]) /\ \A j \in 1..k-1 : ~Anchor(c[j])}
<1>1. Len(c) \in Nat /\ Len(c) \in 1..Len(c) /\ Anchor(c[Len(c)])
  BY ShapeFacts DEF ChainShape, ClimbShape, Last
<1>2. Ks # {} /\ Ks \in SUBSET Nat
  BY <1>1
<1>3. PICK m \in Ks : \A k \in Ks : m <= k
  <2> HIDE DEF Ks
  <2> QED
    BY <1>2, Least
<1>4. m \in Firsts
  <2> HIDE DEF Anchor
  <2>1. m \in 1..Len(c) /\ Anchor(c[m])
    OBVIOUS
  <2>2. ASSUME NEW j \in 1..m-1 PROVE ~Anchor(c[j])
    <3>1. j \in 1..Len(c) /\ j < m
      BY <1>1, <2>1
    <3> QED
      BY <1>3, <3>1
  <2> QED
    BY <2>1, <2>2
<1>5. find_root(c) = {c[i] : i \in Firsts}
  <2>1. {c[i] : i \in Firsts} # {}
    <3> HIDE DEF Firsts
    <3> QED
      BY <1>4
  <2> QED
    BY <2>1 DEF find_root, FirstWith
<1> QED
  BY <1>4, <1>5

\* The beginning of a sequence.
LEMMA Beginning ==
  ASSUME NEW S, NEW s \in Seq(S), NEW n \in 1..Len(s)
  PROVE  /\ SubSeq(s, 1, n) \in Seq(S) /\ Len(SubSeq(s, 1, n)) = n
         /\ \A k \in 1..n : SubSeq(s, 1, n)[k] = s[k]
<1>1. n \in Nat /\ n >= 1 /\ Len(s) \in Nat /\ \A k \in 1..n : k \in 1..Len(s)
  BY LenProperties
<1>2. \A k \in 1..n : s[k] \in S
  BY <1>1, ElementOfSeq
<1>3. /\ SubSeq(s, 1, n) \in Seq(S) /\ Len(SubSeq(s, 1, n)) = n - 1 + 1
      /\ \A k \in 1..n-1+1 : SubSeq(s, 1, n)[k] = s[1+k-1]
  BY <1>1, <1>2, SubSeqProperties
<1>4. n - 1 + 1 = n /\ \A k \in 1..n : 1 + k - 1 = k
  BY <1>1
<1> QED
  BY <1>3, <1>4

\* One certificate of a sequence without repetitions left out.
LEMMA Removed ==
  ASSUME NEW c \in Seq(Cert), NoRepeats(c), NEW k \in 2..Len(c)-1
  PROVE  LET w == SubSeq(c, 1, k-1) \o SubSeq(c, k+1, Len(c))
         IN  w \in Seq(Cert) /\ Certs(w) = Certs(c) \ {c[k]}
<1> DEFINE n == Len(c)
           s == SubSeq(c, 1, k-1)
           t == SubSeq(c, k+1, n)
           w == s \o t
<1>1. n \in Nat /\ k \in 1..n /\ k - 1 \in 1..n /\ \A i \in 1..n : c[i] \in Cert
  BY LenProperties, ElementOfSeq
<1>2. s \in Seq(Cert) /\ Len(s) = k-1 /\ \A i \in 1..k-1 : s[i] = c[i]
  BY <1>1, Beginning
<1>3. t \in Seq(Cert) /\ Len(t) = n - k /\ \A i \in 1..n-k : t[i] = c[k+i]
  <2>1. k + 1 \in Int /\ n \in Int /\ k + 1 <= n /\ \A i \in k+1..n : c[i] \in Cert
    BY <1>1
  <2>2. /\ t \in Seq(Cert) /\ Len(t) = n - (k+1) + 1
        /\ \A i \in 1..n-(k+1)+1 : t[i] = c[k+1+i-1]
    BY <2>1, SubSeqProperties
  <2>3. n - (k+1) + 1 = n - k /\ \A i \in 1..n-k : k+1+i-1 = k+i
    BY <1>1
  <2> QED
    BY <2>2, <2>3
<1> HIDE DEF s, t
<1>4. /\ w \in Seq(Cert) /\ Len(w) = n - 1
      /\ \A i \in 1..k-1 : w[i] = c[i]
      /\ \A i \in k..n-1 : w[i] = c[i+1]
  <2>1. /\ w \in Seq(Cert) /\ Len(w) = Len(s) + Len(t)
        /\ \A i \in 1..Len(s)+Len(t) :
              w[i] = IF i <= Len(s) THEN s[i] ELSE t[i - Len(s)]
    BY <1>2, <1>3, ConcatProperties
  <2>2. Len(w) = n - 1 /\ Len(s) + Len(t) = n - 1
    BY <1>1, <1>2, <1>3, <2>1
  <2>3. ASSUME NEW i \in 1..k-1 PROVE w[i] = c[i]
    <3>1. i \in 1..Len(s)+Len(t) /\ i <= Len(s)
      BY <1>1, <1>2, <2>2
    <3> QED
      BY <1>2, <2>1, <3>1
  <2>4. ASSUME NEW i \in k..n-1 PROVE w[i] = c[i+1]
    <3>1. /\ i \in 1..Len(s)+Len(t) /\ ~(i <= Len(s))
          /\ i - Len(s) \in 1..n-k /\ k + (i - Len(s)) = i + 1
      BY <1>1, <1>2, <2>2
    <3>2. w[i] = t[i - Len(s)]
      BY <2>1, <3>1
    <3> QED
      BY <1>3, <3>1, <3>2
  <2> QED
    BY <2>1, <2>2, <2>3, <2>4
<1> HIDE DEF w
<1>5. ASSUME NEW x \in Certs(w) PROVE x \in Certs(c) \ {c[k]}
  <2>1. PICK i \in 1..n-1 : x = w[i]
    BY <1>4, <1>5 DEF Certs
  <2>2. \E j \in 1..n : j # k /\ x = c[j]
    <3>1. CASE i \in 1..k-1
      <4>1. i \in 1..n /\ i # k
        BY <1>1, <3>1
      <4> QED
        BY <1>4, <2>1, <3>1, <4>1
    <3>2. CASE i \in k..n-1
      <4>1. i + 1 \in 1..n /\ i + 1 # k
        BY <1>1, <3>2
      <4> QED
        BY <1>4, <2>1, <3>2, <4>1
    <3> QED
      BY <1>1, <3>1, <3>2
  <2> QED
    BY <1>1, <2>2 DEF NoRepeats, Certs
<1>6. ASSUME NEW x \in Certs(c) \ {c[k]} PROVE x \in Certs(w)
  <2>1. PICK i \in 1..n : x = c[i] /\ i # k
    BY DEF Certs
  <2>2. \E j \in 1..n-1 : x = w[j]
    <3>1. CASE i < k
      <4>1. i \in 1..k-1 /\ i \in 1..n-1
        BY <1>1, <3>1
      <4> QED
        BY <1>4, <2>1, <4>1
    <3>2. CASE i > k
      <4>1. i - 1 \in k..n-1 /\ i - 1 \in 1..n-1 /\ (i - 1) + 1 = i
        BY <1>1, <3>2
      <4> QED
        BY <1>4, <2>1, <4>1
    <3> QED
      BY <1>1, <2>1, <3>1, <3>2
  <2> QED
    BY <1>4, <2>2 DEF Certs
<1>7. Certs(w) = Certs(c) \ {c[k]}
  BY <1>5, <1>6
<1> QED
  BY <1>4, <1>7 DEF w, s, t

\* Where the intermediate at k is gone, or is no CA any more, the only path is
\* the chain below it.
LEMMA CutOff ==
  ASSUME NEW c, ClimbShape(c), DistinctNames(c), NEW k \in 2..Len(c)-1,
         NEW v \in Seq(Cert), NEW D, Certs(v) = (Certs(c) \ {c[k]}) \cup D,
         \A d \in D : /\ Parses(d) /\ ~is_ca(d)
                      /\ Subject[d] = Subject[c[k]] /\ Issuer[d] = Issuer[c[k]]
  PROVE  LET q == SubSeq(c, 1, k-1)
         IN  /\ PathsOf(v) = {q} /\ chain_is_incomplete(q)
             /\ c[1] \in Certs(v) /\ ~is_ca(c[1])
             /\ \A x \in Certs(v) : Subject[x] = Issuer[Last(q)] <=> x \in D
<1> DEFINE q == SubSeq(c, 1, k-1)
           n == Len(c)
           m == k - 1
<1>1. /\ c \in Seq(Cert) /\ n \in Nat
      /\ \A i \in 1..n : /\ c[i] \in Cert /\ c[i] \in Certs(c) /\ Parses(c[i])
                         /\ (is_ca(c[i]) <=> i # 1) /\ Issuer[c[i]] # Subject[c[1]]
      /\ \A i \in 1..n-1 : Subject[c[i+1]] = Issuer[c[i]]
  BY ShapeFacts DEF ClimbShape
<1>2. /\ k \in 1..n /\ m \in 1..n /\ m \in 1..n-1 /\ m + 1 = k /\ m \in Nat /\ m >= 1
      /\ 1 \in 1..n /\ \A i \in 1..m : i \in 1..n /\ i # k
      /\ \A i \in 1..m-1 : i \in 1..m /\ i + 1 \in 1..m /\ i \in 1..n-1 /\ i + 1 # 1
  BY <1>1
<1>3. q \in Seq(Cert) /\ Len(q) = m /\ \A i \in 1..m : q[i] = c[i]
  BY <1>1, <1>2, Beginning
<1> HIDE DEF q, m
<1>4. Subject[c[k]] = Issuer[c[m]]
  BY <1>1, <1>2
<1>5. \A i \in 1..n : i # k => c[i] \in Certs(v)
  BY <1>1, <1>2 DEF ClimbShape, NoRepeats
<1>6. /\ Last(q) = c[m] /\ q[1] = c[1] /\ q # <<>>
      /\ 1 \in 1..m /\ m \in 1..m
  <2>1. 1 \in 1..m /\ m \in 1..m
    BY <1>2
  <2>2. q # <<>>
    BY <1>2, <1>3, EmptySeq
  <2> QED
    BY <1>3, <2>1, <2>2 DEF Last
<1>7. \A x \in Certs(v) : x \in D \/ \E i \in 1..n : x = c[i] /\ i # k
  BY DEF Certs
<1>8. \A x \in Certs(v) : Subject[x] = Issuer[Last(q)] <=> x \in D
  <2>1. \A i \in 1..n : Subject[c[i]] = Subject[c[k]] => i = k
    BY <1>2 DEF DistinctNames
  <2> QED
    BY <1>4, <1>6, <1>7, <2>1
<1>9. c[1] \in Certs(v) /\ ~is_ca(c[1]) /\ Parses(c[1]) /\ c[m] \in Certs(v) /\ Parses(c[m])
  BY <1>1, <1>2, <1>5
<1>10. IsLeaf(v, c[1])
  <2>1. \A x \in Certs(v) : Issuer[x] # Subject[c[1]]
    BY <1>1, <1>2, <1>7
  <2> QED
    BY <1>9, <2>1 DEF IsLeaf, IssuersOf
<1>11. IsPath(v, q)
  <2>1. \A i \in 1..Len(q)-1 : IsParent(q[i], q[i+1])
    <3> TAKE i \in 1..Len(q)-1
    <3>1. i \in 1..m /\ i + 1 \in 1..m /\ i \in 1..n-1 /\ i + 1 # 1
      BY <1>2, <1>3
    <3>2. q[i] = c[i] /\ q[i+1] = c[i+1] /\ i + 1 \in 1..n
      BY <1>2, <1>3, <3>1
    <3> QED
      BY <1>1, <3>1, <3>2 DEF IsParent
  <2>a. \A i \in 1..Len(q) : i \in 1..n /\ q[i] = c[i] /\ q[i] \in Certs(v)
    BY <1>2, <1>3, <1>5
  <2>2. Certs(q) \subseteq Certs(v)
    BY <2>a DEF Certs
  <2>3. NoRepeats(q)
    <3>1. NoRepeats(c)
      BY DEF ClimbShape
    <3> QED
      BY <2>a, <3>1 DEF NoRepeats
  <2>4. \A x \in Certs(v) : IsParent(Last(q), x) => x \in D
    BY <1>8 DEF IsParent
  <2>5. \A x \in Certs(v) : ~IsParent(Last(q), x)
    BY <2>4 DEF IsParent
  <2> QED
    BY <1>6, <1>10, <2>1, <2>2, <2>3, <2>5 DEF IsPath, IsClimb
<1>12. ASSUME NEW x \in Certs(v), IsLeaf(v, x) PROVE x = q[1]
  <2>1. ~is_ca(x) /\ Subject[x] \notin IssuersOf(v)
    BY <1>12 DEF IsLeaf
  <2>2. Issuer[c[m]] \in IssuersOf(v)
    BY <1>9 DEF IssuersOf
  <2>3. x \notin D
    BY <1>4, <2>1, <2>2
  <2> QED
    BY <1>1, <1>6, <1>7, <2>1, <2>3
<1>13. \A x, y \in Certs(v) : is_ca(x) /\ is_ca(y) /\ Subject[x] = Subject[y] => x = y
  BY NamesOfChain
<1>14. PathsOf(v) = {q}
  BY <1>3, <1>11, <1>12, <1>13, OnePath
<1>15. chain_is_incomplete(q)
  <2>1. c[m] # c[k] /\ Subject[c[m]] # Subject[c[k]]
    BY <1>2 DEF DistinctNames
  <2>2. ~is_self_signed(Last(q))
    BY <1>4, <1>6, <2>1 DEF is_self_signed
  <2> QED
    BY <2>2 DEF chain_is_incomplete
<1> QED
  BY <1>8, <1>9, <1>14, <1>15 DEF q

-----------------------------------------------------------------------------
(* The invariant of the round trip *)

\* The invalidator has written a chain, and the validator runs on it.
WrittenInv ==
    /\ blocks \in apply_scenario(choice, given, position, keys)
    /\ pin \in PinsFound
    /\ expired = Certs(blocks) \cap ShortLived

RTInv ==
    /\ given \in Chains
    /\ choice \in SCENARIOS
    /\ position \in Nat
    /\ phase = "corrupt" =>
          /\ ~skipped
          /\ paths = <<>> /\ messages = {} /\ scan = 0 /\ late = FALSE /\ findings = <<>>
    /\ skipped => phase = "done"
    /\ phase # "corrupt" /\ ~skipped => WrittenInv /\ IInv /\ OInv

-----------------------------------------------------------------------------
(* The scenarios                                                           *)

\* No path of a chain with a fault in it is VALID ...
Spurned == HoldsEndEntity /\ \A p \in PathsOf(valid_certs) : ~Verdict(p, "VALID")

\* ... and one is called what the fault is expected to be called.
Fate ==
    /\ HoldsEndEntity /\ PathsOf(valid_certs) # {} /\ corrupted_count = 0
    /\ (choice = "expired_root" => SingleRoot(given)) =>
          \E p \in PathsOf(valid_certs) :
             /\ \A class \in Classification : Verdict(p, class) => class = Expected[choice]
             /\ DistinctNames(given) => PathsOf(valid_certs) = {p}

LEMMA ValidVerdict ==
  ASSUME blocks \in Seq(Cert), NEW p \in PathsOf(valid_certs), Verdict(p, "VALID")
  PROVE  /\ ~chain_is_incomplete(p) /\ {} \in verify_chain(p, expired)
         /\ pin # NoPin /\ pin \in find_root(p)
<1>1. ~chain_is_incomplete(p)
  BY DEF Verdict
<1>2. ~Blames(p, "VALID")
  BY DEF Blames
<1>3. {} \in verify_chain(p, expired) /\ AnchorOf(p) = "VALID"
  BY <1>1, <1>2 DEF Verdict
<1>4. pin # NoPin /\ pin \in find_root(p)
  BY <1>3 DEF AnchorOf
<1> QED
  BY <1>1, <1>3, <1>4

\* What the analysis sees of a whole chain.
LEMMA WholeSeen ==
  ASSUME ChainShape(blocks)
  PROVE  /\ blocks \in Seq(Cert) /\ valid_certs \in Seq(Cert)
         /\ Certs(valid_certs) = Certs(blocks)
         /\ corrupted_count = 0 /\ HoldsEndEntity
         /\ blocks \in PathsOf(valid_certs) /\ ~chain_is_incomplete(blocks)
         /\ IsClimb(valid_certs, blocks)
         /\ \A p \in PathsOf(valid_certs) :
               p \in Seq(Cert) /\ p[1] = blocks[1] /\ \A i \in 1..Len(p) : p[i] \in Certs(blocks)
         /\ DistinctNames(blocks) => PathsOf(valid_certs) = {blocks}
<1>1. blocks \in Seq(Cert) /\ Len(blocks) \in Nat /\ \A c \in Certs(blocks) : Parses(c)
  BY ShapeFacts DEF ChainShape, ClimbShape, Certs
<1>2. /\ valid_certs \in Seq(Cert) /\ Certs(valid_certs) = Certs(blocks)
      /\ Len(valid_certs) = Len(blocks)
  BY <1>1, SplitFacts DEF valid_certs
<1>3. corrupted_count = 0
  BY <1>1, <1>2 DEF corrupted_count
<1>4. /\ blocks \in PathsOf(valid_certs) /\ IsClimb(valid_certs, blocks)
      /\ ~chain_is_incomplete(blocks) /\ HoldsEndEntity
      /\ \A x \in Certs(valid_certs) : IsLeaf(valid_certs, x) => x = blocks[1]
  BY <1>2, WholePath DEF IsPath, HoldsEndEntity
<1>5. ASSUME NEW p \in PathsOf(valid_certs)
      PROVE  p \in Seq(Cert) /\ p[1] = blocks[1] /\ \A i \in 1..Len(p) : p[i] \in Certs(blocks)
  BY <1>2, <1>4, StartsAtLeaf, PathsOfIsPath, ClimbFacts DEF IsPath
<1> QED
  BY <1>1, <1>2, <1>3, <1>4, <1>5, WholeOnly

LEMMA WholeFate ==
  ASSUME ChainShape(blocks), DistinctNames(given) => DistinctNames(blocks),
         (choice = "expired_root" => SingleRoot(given)) =>
             \A class \in Classification : Verdict(blocks, class) => class = Expected[choice]
  PROVE  Fate
  BY WholeSeen DEF Fate

\* One certificate of the chain has lapsed, and OpenSSL has noticed.
LEMMA LapsedVerdict ==
  ASSUME ChainShape(blocks), NEW k \in 1..Len(blocks), expired = {blocks[k]},
         {} \notin verify_chain(blocks, expired), NEW class, Verdict(blocks, class)
  PROVE  /\ k = 1 => class = "EXPIRED_LEAF"
         /\ k \in 2..Len(blocks)-1 => class = "EXPIRED_INTERMEDIATE"
         /\ k = Len(blocks) /\ SingleRoot(blocks) => class = "EXPIRED_ROOT"
<1> DEFINE n == Len(blocks)
<1>1. n \in Nat /\ n >= 2 /\ 1 \in 1..n /\ n \in 1..n /\ blocks \in Seq(Cert)
  BY ShapeFacts DEF ChainShape, ClimbShape
<1>2. Blames(blocks, class)
  <2>1. ~chain_is_incomplete(blocks)
    BY WholeSeen
  <2> QED
    BY <2>1 DEF Verdict
<1>3. \A i \in 1..n : blocks[i] \in expired <=> i = k
  BY DEF ChainShape, ClimbShape, NoRepeats
<1>4. blocks[1] \in expired <=> k = 1
  BY <1>1, <1>3
<1>5. HasLate(blocks, n) <=> k \in 2..n-1
  BY <1>1, <1>3 DEF HasLate
<1>6. k = n /\ SingleRoot(blocks) => find_root(blocks) \cap expired # {}
  <2>1. is_ca(Last(blocks)) /\ is_self_signed(Last(blocks)) /\ Last(blocks) = blocks[n]
    BY <1>1 DEF ChainShape, ClimbShape, Last
  <2>2. SingleRoot(blocks) => find_root(blocks) = {Last(blocks)}
    BY <1>1, <2>1, RootIsLast
  <2> QED
    BY <2>1, <2>2
<1>a. n \in Nat /\ n >= 2
  BY <1>1
<1>b. \A m \in Nat : m >= 2 => 1 # m /\ ~(1 \in 2..m-1)
  OBVIOUS
<1>7. CASE k = 1
  <2>1. 1 # n /\ ~(1 \in 2..n-1)
    BY <1>a, <1>b
  <2> QED
    BY <1>2, <1>4, <1>7, <2>1 DEF Blames
<1>8. CASE k \in 2..n-1
  <2>1. k # 1 /\ k # n
    BY <1>a, <1>8
  <2> QED
    BY <1>2, <1>4, <1>5, <1>8, <2>1 DEF Blames
<1>9. CASE k = n
  <2>1. k # 1 /\ ~(k \in 2..n-1)
    BY <1>a, <1>9
  <2> QED
    BY <1>2, <1>4, <1>5, <1>6, <1>9, <2>1 DEF Blames
<1> QED
  BY <1>1, <1>7, <1>8, <1>9

\* A certificate openssl has re-issued.
LEMMA ReissuedFacts ==
  ASSUME NEW c \in Chains, NEW x \in Reissuable, x[1] \in Certs(c)
  PROVE  /\ Reissued[x] \in Cert /\ Parses(Reissued[x]) /\ Reissued[x] \notin Certs(c)
         /\ PlainNames(c) => Subject[Reissued[x]] = Subject[x[1]]
         /\ Issuer[Reissued[x]] = Subject[x[2]]
         /\ is_ca(Reissued[x]) <=> x[4]
         /\ x[3] => Reissued[x] \in ShortLived
         /\ Certs(c) \cap ShortLived = {}
<1> DEFINE d == Reissued[x]
<1>1. Corruptible(c)
  BY RoundTripAssumption
<1>2. /\ d \in Cert /\ d \notin Unparsable
      /\ Subject[d] = CommonName[Subject[x[1]]] /\ Issuer[d] = Subject[x[2]]
      /\ d \in Authority <=> x[4]
  BY ScenarioAssumption
<1>3. d \notin Certs(c)
  BY <1>1 DEF Corruptible
<1>6. PlainNames(c) => CommonName[Subject[x[1]]] = Subject[x[1]]
  BY DEF PlainNames, Certs
<1>4. x[3] => d \in ShortLived
  BY DEF ShortLived
<1>5. Certs(c) \cap ShortLived = {}
  BY <1>1 DEF Corruptible, ShortLived
<1> QED
  BY <1>2, <1>3, <1>4, <1>5, <1>6 DEF Parses, is_ca

\* A chain of signatures vouches for a certificate through none that lapsed.
LEMMA VouchedEnds ==
  ASSUME NEW p, NEW root, NEW ex, Vouches(p, root, ex)
  PROVE  p[1] \notin ex /\ root \notin ex
<1>1. PICK q \in UNION {[1..n -> Certs(p) \ ex] : n \in 1..Len(p)} :
          q[1] = p[1] /\ Last(q) = root
  BY DEF Vouches
<1>2. PICK n \in 1..Len(p) : q \in [1..n -> Certs(p) \ ex]
  BY <1>1
<1>3. n \in Nat /\ 1 \in 1..n /\ n \in 1..n
  OBVIOUS
<1>4. Len(q) = n
  BY <1>2, <1>3
<1> QED
  BY <1>1, <1>2, <1>3, <1>4 DEF Last

LEMMA ExpectedFacts ==
  /\ Expected["expired_server"] = "EXPIRED_LEAF"
  /\ Expected["corrupted_server"] = "CORRUPTED_CERTIFICATE"
  /\ Expected["expired_intermediate"] = "EXPIRED_INTERMEDIATE"
  /\ Expected["non_ca_intermediate"] = "NON_CA_INTERMEDIATE"
  /\ Expected["missing_intermediate"] = "MISSING_INTERMEDIATE"
  /\ Expected["root_hash_mismatch"] = "ROOT_HASH_MISMATCH"
  /\ Expected["root_hash_not_checked"] = "ROOT_HASH_NOT_CHECKED"
  /\ Expected["expired_root"] = "EXPIRED_ROOT"
  BY DEF Expected

\* A chain with its k-th certificate re-issued ...
LEMMA Resigned ==
  ASSUME NEW c \in Chains, NEW k \in 1..Len(c), NEW x \in Reissuable,
         x[1] = c[k], NEW w, w = Put(c, k, Reissued[x])
  PROVE  \E d \in Cert :
            /\ w = Put(c, k, d)
            /\ Parses(d) /\ d \notin Certs(c) /\ (is_ca(d) <=> x[4])
            /\ PlainNames(c) => Subject[d] = Subject[c[k]]
            /\ Issuer[d] = Subject[x[2]]
            /\ w \in Seq(Cert) /\ Len(w) = Len(c) /\ w[k] = d
            /\ Certs(w) = (Certs(c) \ {c[k]}) \cup {d}
            /\ x[3] => Certs(w) \cap ShortLived = {d}
<1> DEFINE d == Reissued[x]
<1>1. c \in Seq(Cert) /\ NoRepeats(c) /\ c[k] \in Certs(c)
  BY GivenClimbs, ShapeFacts DEF ClimbShape
<1>2. /\ d \in Cert /\ Parses(d) /\ d \notin Certs(c) /\ (is_ca(d) <=> x[4])
      /\ PlainNames(c) => Subject[d] = Subject[c[k]]
      /\ Issuer[d] = Subject[x[2]]
      /\ x[3] => d \in ShortLived
      /\ Certs(c) \cap ShortLived = {}
  BY <1>1, ReissuedFacts
<1> HIDE DEF d
<1>3. w = Put(c, k, d)
  BY DEF d
<1>4. /\ w \in Seq(Cert) /\ Len(w) = Len(c) /\ w[k] = d
      /\ Certs(w) = (Certs(c) \ {c[k]}) \cup {d}
  BY <1>1, <1>2, <1>3, Replaced
<1>5. x[3] => Certs(w) \cap ShortLived = {d}
  BY <1>2, <1>4
<1> QED
  BY <1>2, <1>3, <1>4, <1>5

\* x re-issues the k-th certificate of c, lapsed, and w is the chain with it.
LapsedAt(c, k, x, w) ==
    /\ x \in Reissuable /\ x[1] = c[k] /\ Subject[x[2]] = Issuer[c[k]]
    /\ x[3] /\ (x[4] <=> k # 1)
    /\ w = Put(c, k, Reissued[x])

\* Of all that is asked of a chain, only that one certificate has changed.
KeepsShape(c, k, w) ==
    /\ ChainShape(w) /\ Len(w) = Len(c) /\ c[k] \notin Certs(w)
    /\ Certs(w) \cap ShortLived = {w[k]}
    /\ DistinctNames(c) => DistinctNames(w)
    /\ SingleRoot(c) => SingleRoot(w)
    /\ Unaided(w)

\* ... which has lapsed and is otherwise what it was.
LEMMA LapsedWritten ==
  ASSUME NEW c \in Chains, PlainNames(c), Unaided(c),
         NEW k \in 1..Len(c), NEW x, NEW w, LapsedAt(c, k, x, w)
  PROVE  KeepsShape(c, k, w)
<1>0. /\ x \in Reissuable /\ x[1] = c[k] /\ Subject[x[2]] = Issuer[c[k]]
      /\ x[3] /\ (x[4] <=> k # 1)
      /\ w = Put(c, k, Reissued[x])
  BY DEF LapsedAt
<1>1. PICK d \in Cert :
            /\ w = Put(c, k, d)
            /\ Parses(d) /\ d \notin Certs(c) /\ (is_ca(d) <=> k # 1)
            /\ Subject[d] = Subject[c[k]] /\ Issuer[d] = Issuer[c[k]]
            /\ w \in Seq(Cert) /\ Len(w) = Len(c) /\ w[k] = d
            /\ Certs(w) = (Certs(c) \ {c[k]}) \cup {d}
            /\ Certs(w) \cap ShortLived = {d}
  BY <1>0, Resigned
<1>2. ChainShape(c) /\ c[k] \in Certs(c)
  BY GivenShape, ShapeFacts DEF ChainShape
<1>3. /\ ChainShape(w)
      /\ DistinctNames(c) => DistinctNames(w)
      /\ SingleRoot(c) => SingleRoot(w)
      /\ Unaided(w)
  BY <1>1, <1>2, Reshaped
<1> QED
  BY <1>1, <1>2, <1>3 DEF KeepsShape

\* resign answers with a chain where the keys are there.
LEMMA ResignFacts ==
  ASSUME NEW c, NEW t, NEW s, NEW lapsed, NEW ca, NEW w \in resign(c, t, s, keys, lapsed, ca)
  PROVE  w = Put(c, t + 1, Reissued[<<c[t + 1], c[s + 1], lapsed, ca>>])
  BY DEF resign, Put

\* The next certificate may re-issue any but the last.
LEMMA NextIssues ==
  ASSUME NEW c \in Chains, NEW k \in 1..Len(c)-1, NEW lapsed \in BOOLEAN, NEW ca \in BOOLEAN
  PROVE  /\ k \in 1..Len(c) /\ k + 1 \in 1..Len(c)
         /\ <<c[k], c[k+1], lapsed, ca>> \in Reissuable /\ Subject[c[k+1]] = Issuer[c[k]]
<1>1. ClimbShape(c) /\ Len(c) \in Nat
  BY GivenClimbs, ShapeFacts
<1>2. k \in 1..Len(c) /\ k + 1 \in 1..Len(c)
  BY <1>1
<1>3. Corruptible(c)
  BY RoundTripAssumption
<1> QED
  BY <1>1, <1>2, <1>3 DEF ClimbShape, Corruptible

-----------------------------------------------------------------------------
(* Nothing of a chain with a fault in it is VALID                          *)

\* An answer without a message: OpenSSL has gone up to a certificate that a
\* trusted one has issued, and nothing on the way has lapsed.
LEMMA CleanAnswer ==
  ASSUME NEW p \in Seq(Cert), Len(p) >= 2, NEW ex, {} \in verify_chain(p, ex)
  PROVE  \E s \in BuiltFor(p, ex) :
            /\ \A i \in 1..Len(s) : s[i] \notin ex
            /\ \E a \in Offered(Last(s), Last(p)) : a \notin ex
<1>1. PICK s \in BuiltFor(p, ex) :
          \E t \in Climbs(Last(s), Last(p), ex) : Judgement(s, t, ex) = {}
  BY DEF verify_chain, Judgements, BuiltFor, Between
<1>2. PICK t \in Climbs(Last(s), Last(p), ex) : Judgement(s, t, ex) = {}
  BY <1>1
<1> DEFINE Trusted == System \cup {Last(p)}
<1>3. t # <<>> /\ Faults(s \o t, ex) = {}
  BY <1>2 DEF Judgement
<1>4. /\ t \in UNION {[1..n -> Trusted] : n \in 1..Cardinality(Trusted)+1}
      /\ t[1] \in Preferred(Last(s), Last(p), ex)
  BY <1>2, <1>3 DEF Climbs
<1>5. PICK n \in 1..Cardinality(Trusted)+1 : t \in [1..n -> Trusted]
  BY <1>4
<1>6. s \in Seq(Cert) /\ t \in Seq(Trusted) /\ 1 \in 1..Len(t)
  <2>1. n \in Nat /\ 1 \in 1..n
    OBVIOUS
  <2>2. t \in Seq(Trusted) /\ Len(t) = n
    BY <1>5, <2>1, SeqDef
  <2> QED
    BY <2>1, <2>2, BuiltFacts
<1> HIDE DEF Trusted
<1>7. /\ \A i \in 1..Len(s) : s[i] \in Certs(s \o t)
      /\ t[1] \in Certs(s \o t)
  <2>1. s \in Seq(Cert \cup Trusted) /\ t \in Seq(Cert \cup Trusted)
    BY <1>6
  <2>2. Len(s) \in Nat /\ Len(t) \in Nat
    BY <1>6, LenProperties
  <2>3. /\ Len(s \o t) = Len(s) + Len(t)
        /\ \A i \in 1..Len(s)+Len(t) :
              (s \o t)[i] = IF i <= Len(s) THEN s[i] ELSE t[i - Len(s)]
    BY <2>1, ConcatProperties
  <2>4. /\ \A i \in 1..Len(s) : i \in 1..Len(s)+Len(t) /\ i <= Len(s)
        /\ Len(s) + 1 \in 1..Len(s)+Len(t) /\ ~(Len(s) + 1 <= Len(s))
        /\ Len(s) + 1 - Len(s) = 1
    BY <1>6, <2>2
  <2>5. (s \o t)[Len(s) + 1] = t[1]
    BY <2>3, <2>4
  <2> QED
    BY <2>3, <2>4, <2>5 DEF Certs
<1>8. Certs(s \o t) \cap ex = {}
  BY <1>3 DEF Faults
<1>9. t[1] \in Offered(Last(s), Last(p))
  BY <1>4 DEF Preferred
<1> QED
  BY <1>7, <1>8, <1>9

\* A lapsed leaf draws a complaint, whoever helps.
LEMMA LapsedLeafIsRejected ==
  ASSUME NEW p \in Seq(Cert), Len(p) >= 2, NEW ex, p[1] \in ex
  PROVE  {} \notin verify_chain(p, ex)
<1> SUFFICES ASSUME {} \in verify_chain(p, ex) PROVE FALSE
  OBVIOUS
<1>1. PICK s \in BuiltFor(p, ex) : \A i \in 1..Len(s) : s[i] \notin ex
  BY CleanAnswer
<1>2. 1 \in 1..Len(s) /\ s[1] = p[1]
  BY BuiltFacts, LenProperties
<1> QED
  BY <1>1, <1>2

\* Where the names of a chain c differ there is no way round its k-th
\* certificate, if neither the path nor the machine holds another of its name.
LEMMA NoWayRound ==
  ASSUME NEW c, ClimbShape(c), DistinctNames(c), Unaided(c), NEW k \in 2..Len(c)-1,
         NEW p \in Seq(Cert), Len(p) >= 2, p[1] = c[1], is_self_signed(Last(p)),
         NEW ex, Certs(p) \ ex \subseteq Certs(c) \ {c[k]}
  PROVE  {} \notin verify_chain(p, ex)
<1> SUFFICES ASSUME {} \in verify_chain(p, ex) PROVE FALSE
  OBVIOUS
<1> DEFINE n == Len(c)
<1>1. PICK s \in BuiltFor(p, ex) :
          /\ \A i \in 1..Len(s) : s[i] \notin ex
          /\ \E a \in Offered(Last(s), Last(p)) : a \notin ex
  BY CleanAnswer
<1>2. PICK a \in Offered(Last(s), Last(p)) : a \notin ex
  BY <1>1
<1>3. /\ n \in Nat /\ k \in Nat /\ 2 <= k /\ k < n /\ Last(c) = c[n]
      /\ \A i \in 1..n : c[i] \in Certs(c)
      /\ \A i \in 1..n-1 : Subject[c[i+1]] = Issuer[c[i]]
      /\ \A i, j \in 1..n : Subject[c[i]] = Subject[c[j]] => i = j
  BY ShapeFacts DEF ClimbShape, DistinctNames, Last
<1>4. /\ Len(s) \in Nat /\ Len(s) >= 1 /\ s[1] = c[1]
      /\ \A i \in 1..Len(s)-1 : Subject[s[i+1]] = Issuer[s[i]]
      /\ \A i \in 1..Len(s) : s[i] \in Certs(p)
  BY BuiltFacts, LenProperties DEF MayIssue
<1>5. ASSUME NEW x \in Certs(p), x \notin ex, NEW m \in 2..n, Subject[x] = Subject[c[m]]
      PROVE  m # k /\ x = c[m]
  <2>1. PICK j \in 1..n : x = c[j] /\ c[j] # c[k]
    BY <1>5 DEF Certs
  <2>2. j = m
    BY <1>3, <1>5, <2>1
  <2> QED
    BY <2>1, <2>2
<1> DEFINE Bad == {i \in 1..Len(s) : ~(i < k /\ s[i] = c[i])}
<1>6. Bad = {}
  <2> SUFFICES ASSUME Bad # {} PROVE FALSE
    OBVIOUS
  <2>1. Bad \in SUBSET Nat
    BY <1>4
  <2>2. PICK m \in Bad : \A i \in Bad : m <= i
    <3> HIDE DEF Bad
    <3> QED
      BY <2>1, Least
  <2>3. m \in 1..Len(s) /\ m # 1
    BY <1>3, <1>4
  <2>4. m - 1 \in 1..Len(s)-1 /\ m - 1 \in 1..Len(s) /\ (m - 1) + 1 = m /\ m - 1 < m
    BY <1>4, <2>3
  <2>5. m - 1 < k /\ s[m-1] = c[m-1]
    BY <2>2, <2>4
  <2>6. m \in 2..n /\ m - 1 \in 1..n-1 /\ m <= k
    BY <1>3, <2>3, <2>4, <2>5
  <2>7. Subject[s[m]] = Subject[c[m]]
    <3>1. Subject[s[m]] = Issuer[s[m-1]]
      BY <1>4, <2>4
    <3>2. Subject[c[m]] = Issuer[c[m-1]]
      BY <1>3, <2>4, <2>6
    <3> QED
      BY <2>5, <3>1, <3>2
  <2>8. m # k /\ s[m] = c[m]
    BY <1>1, <1>4, <1>5, <2>3, <2>6, <2>7
  <2> QED
    BY <1>3, <2>2, <2>6, <2>8
<1> DEFINE l == Len(s)
<1>7. l \in 1..l /\ l < k /\ Last(s) = c[l]
  BY <1>4, <1>6 DEF Last
<1>8. l \in 1..n-1 /\ l \in 1..n /\ l + 1 \in 2..n /\ l + 1 <= k
  BY <1>3, <1>4, <1>7
<1>9. Subject[a] = Issuer[c[l]] /\ Subject[c[l+1]] = Issuer[c[l]] /\ a \in System \cup {Last(p)}
  <2>1. MayIssue(a, c[l]) /\ a \in System \cup {Last(p)}
    BY <1>2, <1>7 DEF Offered
  <2> QED
    BY <1>3, <1>8, <2>1 DEF MayIssue
<1>10. CASE a \in System
  <2>1. Issuer[c[l]] = Subject[c[n]]
    BY <1>3, <1>8, <1>9, <1>10 DEF Unaided
  <2>2. n \in 1..n
    BY <1>3
  <2>3. l + 1 = n
    BY <1>3, <1>8, <1>9, <2>1, <2>2
  <2> QED
    BY <1>3, <1>8, <2>3
<1>11. CASE a = Last(p)
  <2>1. a \in Certs(p)
    BY <1>11, LenProperties DEF Last, Certs
  <2>2. l + 1 # k /\ a = c[l+1]
    BY <1>2, <1>5, <1>8, <1>9, <2>1
  <2>3. Subject[a] = Issuer[a]
    BY <1>11 DEF is_self_signed
  <2>4. l + 1 \in 1..n-1 /\ l + 1 \in 1..n /\ (l + 1) + 1 \in 1..n
    BY <1>3, <1>8, <2>2
  <2>5. Subject[c[(l+1)+1]] = Issuer[c[l+1]]
    BY <1>3, <2>4
  <2>6. (l + 1) + 1 = l + 1
    BY <1>3, <2>2, <2>3, <2>4, <2>5
  <2> QED
    BY <1>4, <2>6
<1> QED
  BY <1>9, <1>10, <1>11

\* What is written with a leaf in it.
LEMMA LeafSeen ==
  ASSUME blocks \in Seq(Cert), NEW x \in Certs(blocks), Parses(x), ~is_ca(x)
  PROVE  /\ HoldsEndEntity /\ valid_certs \in Seq(Cert)
         /\ \A p \in PathsOf(valid_certs) :
               /\ p \in Seq(Cert) /\ p[1] \in Certs(blocks) /\ ~is_ca(p[1])
               /\ \A i \in 1..Len(p) : p[i] \in Certs(blocks)
<1>1. valid_certs \in Seq(Cert) /\ Certs(valid_certs) = {c \in Certs(blocks) : Parses(c)}
  BY SplitFacts DEF valid_certs
<1>2. HoldsEndEntity
  BY <1>1 DEF HoldsEndEntity
<1>3. ASSUME NEW p \in PathsOf(valid_certs)
      PROVE  /\ p \in Seq(Cert) /\ p[1] \in Certs(blocks) /\ ~is_ca(p[1])
             /\ \A i \in 1..Len(p) : p[i] \in Certs(blocks)
  <2>1. p \in Seq(Cert) /\ IsClimb(valid_certs, p)
    BY <1>1, PathsOfIsPath DEF IsPath
  <2>2. /\ Len(p) \in Nat /\ Len(p) >= 1 /\ ~is_ca(p[1])
        /\ \A i \in 1..Len(p) : p[i] \in Certs(valid_certs)
    BY <1>1, <2>1, ClimbFacts
  <2>3. 1 \in 1..Len(p)
    BY <2>2
  <2> QED
    BY <1>1, <2>1, <2>2, <2>3
<1> QED
  BY <1>1, <1>2, <1>3

\* The chain with its k-th certificate re-issued, whatever its new name.
LEMMA WrittenAnew ==
  ASSUME NEW c \in Chains, NEW k \in 1..Len(c), NEW x \in Reissuable, x[1] = c[k], x[3],
         blocks = Put(c, k, Reissued[x]), expired = Certs(blocks) \cap ShortLived
  PROVE  /\ blocks \in Seq(Cert) /\ c[k] \notin Certs(blocks)
         /\ \E d \in Cert :
               /\ Parses(d) /\ (is_ca(d) <=> x[4]) /\ expired = {d}
               /\ Certs(blocks) = (Certs(c) \ {c[k]}) \cup {d}
         /\ k # 1 => c[1] \in Certs(blocks) /\ Parses(c[1]) /\ ~is_ca(c[1])
<1>1. PICK d \in Cert :
          /\ blocks = Put(c, k, d)
          /\ Parses(d) /\ d \notin Certs(c) /\ (is_ca(d) <=> x[4])
          /\ PlainNames(c) => Subject[d] = Subject[c[k]]
          /\ Issuer[d] = Subject[x[2]]
          /\ blocks \in Seq(Cert) /\ Len(blocks) = Len(c) /\ blocks[k] = d
          /\ Certs(blocks) = (Certs(c) \ {c[k]}) \cup {d}
          /\ x[3] => Certs(blocks) \cap ShortLived = {d}
  BY Resigned
<1>2. ClimbShape(c) /\ c[k] \in Certs(c) /\ 1 \in 1..Len(c) /\ c[1] \in Certs(c)
  BY GivenClimbs, ShapeFacts
<1>3. k # 1 => c[1] # c[k]
  BY <1>2 DEF ClimbShape, NoRepeats
<1> QED
  BY <1>1, <1>2, <1>3 DEF ClimbShape

LEMMA ServerSpurned ==
  ASSUME given \in Chains, WrittenInv, choice = "expired_server"
  PROVE  Spurned
<1> DEFINE x == <<given[1], given[2], TRUE, FALSE>>
<1>1. blocks \in resign(given, 0, 1, keys, TRUE, FALSE) /\ expired = Certs(blocks) \cap ShortLived
  BY DEF WrittenInv, apply_scenario
<1>2. ClimbShape(given) /\ 1 \in 1..Len(given)-1 /\ 1 \in 1..Len(given) /\ 0 + 1 = 1 /\ 1 + 1 = 2
  <2>1. ClimbShape(given) /\ Len(given) \in Nat
    BY GivenClimbs, ShapeFacts
  <2>2. Len(given) >= 2
    BY <2>1 DEF ClimbShape
  <2> QED
    BY <2>1, <2>2
<1>3. blocks = Put(given, 1, Reissued[x])
  BY <1>1, <1>2, ResignFacts
<1>4. x \in Reissuable /\ x[1] = given[1] /\ x[3] /\ ~x[4]
  <2>1. <<given[1], given[1+1], TRUE, FALSE>> \in Reissuable
    BY <1>2, NextIssues
  <2> QED
    BY <1>2, <2>1
<1> HIDE DEF x
<1>5. blocks \in Seq(Cert)
  BY <1>1, <1>2, <1>3, <1>4, WrittenAnew
<1>6. PICK d \in Cert :
          /\ Parses(d) /\ ~is_ca(d) /\ expired = {d}
          /\ Certs(blocks) = (Certs(given) \ {given[1]}) \cup {d}
  BY <1>1, <1>2, <1>3, <1>4, WrittenAnew
<1>7. /\ HoldsEndEntity
      /\ \A p \in PathsOf(valid_certs) : p[1] \in Certs(blocks) /\ ~is_ca(p[1]) /\ p \in Seq(Cert)
  BY <1>5, <1>6, LeafSeen
<1>8. \A y \in Certs(given) \ {given[1]} : is_ca(y)
  BY <1>2 DEF ClimbShape, Certs
<1>9. ASSUME NEW p \in PathsOf(valid_certs), Verdict(p, "VALID") PROVE FALSE
  <2>1. p[1] \in expired
    BY <1>6, <1>7, <1>8
  <2>2. ~chain_is_incomplete(p) /\ {} \in verify_chain(p, expired)
    BY <1>5, <1>9, ValidVerdict
  <2>3. p \in Seq(Cert) /\ Len(p) >= 2
    BY <1>7, <2>2, LenProperties DEF chain_is_incomplete
  <2> QED
    BY <2>1, <2>2, <2>3, LapsedLeafIsRejected
<1> QED
  BY <1>7, <1>9 DEF Spurned

LEMMA IntermediateSpurned ==
  ASSUME given \in Chains, position \in Nat, WrittenInv, DistinctNames(given), Unaided(given),
         choice = "expired_intermediate"
  PROVE  Spurned
<1> DEFINE k == position + 1
           x == <<given[k], given[k+1], TRUE, TRUE>>
<1>1. /\ IsIntermediate(given, position)
      /\ blocks \in resign(given, position, position + 1, keys, TRUE, TRUE)
      /\ expired = Certs(blocks) \cap ShortLived
  BY DEF WrittenInv, apply_scenario, expired_intermediate
<1>2. ClimbShape(given) /\ Len(given) \in Nat
  BY GivenClimbs, ShapeFacts
<1>3. /\ k \in 2..Len(given)-1 /\ k \in 1..Len(given)-1 /\ k # 1 /\ k \in 1..Len(given)
      /\ (position + 1) + 1 = k + 1
  BY <1>1, <1>2 DEF IsIntermediate
<1>4. blocks = Put(given, k, Reissued[x])
  BY <1>1, <1>3, ResignFacts
<1>5. x \in Reissuable /\ x[1] = given[k] /\ x[3] /\ x[4]
  BY <1>3, NextIssues
<1> HIDE DEF k, x
<1>6. /\ blocks \in Seq(Cert) /\ given[1] \in Certs(blocks)
      /\ Parses(given[1]) /\ ~is_ca(given[1])
  BY <1>1, <1>3, <1>4, <1>5, WrittenAnew
<1>7. PICK d \in Cert :
          /\ Parses(d) /\ is_ca(d) /\ expired = {d}
          /\ Certs(blocks) = (Certs(given) \ {given[k]}) \cup {d}
  BY <1>1, <1>3, <1>4, <1>5, WrittenAnew
<1>8. /\ HoldsEndEntity
      /\ \A p \in PathsOf(valid_certs) :
            /\ p \in Seq(Cert) /\ p[1] \in Certs(blocks) /\ ~is_ca(p[1])
            /\ \A i \in 1..Len(p) : p[i] \in Certs(blocks)
  BY <1>6, LeafSeen
<1>9. \A y \in Certs(given) : is_ca(y) \/ y = given[1]
  BY <1>2 DEF ClimbShape, Certs
<1>10. ASSUME NEW p \in PathsOf(valid_certs), Verdict(p, "VALID") PROVE FALSE
  <2>1. ~chain_is_incomplete(p) /\ {} \in verify_chain(p, expired)
    BY <1>6, <1>10, ValidVerdict
  <2>2. p \in Seq(Cert) /\ Len(p) >= 2 /\ is_self_signed(Last(p))
    BY <1>8, <2>1, LenProperties DEF chain_is_incomplete
  <2>3. p[1] = given[1]
    BY <1>7, <1>8, <1>9
  <2>4. Certs(p) \subseteq Certs(blocks)
    <3>1. \A i \in 1..Len(p) : p[i] \in Certs(blocks)
      BY <1>8
    <3> QED
      BY <3>1 DEF Certs
  <2>5. Certs(p) \ expired \subseteq Certs(given) \ {given[k]}
    BY <1>7, <2>4
  <2> QED
    BY <1>2, <1>3, <2>1, <2>2, <2>3, <2>5, NoWayRound
<1> QED
  BY <1>8, <1>10 DEF Spurned

LEMMA RootSpurned ==
  ASSUME given \in Chains, WrittenInv, choice = "expired_root"
  PROVE  Spurned
<1>1. PICK index \in 0..Len(given)-1 :
          /\ given[index + 1] \in find_root(given)
          /\ blocks \in resign(given, index, index, keys, TRUE, TRUE)
  <2>1. blocks \in expired_root(given, keys)
    BY DEF WrittenInv, apply_scenario
  <2> QED
    BY <2>1 DEF expired_root
<1> DEFINE k == index + 1
           r == given[k]
           x == <<r, r, TRUE, TRUE>>
<1>2. ClimbShape(given) /\ Len(given) \in Nat /\ given \in Seq(Cert)
  BY GivenClimbs, ShapeFacts
<1>3. k \in 1..Len(given)
  BY <1>2
<1>4. r \in find_root(given) /\ blocks = Put(given, k, Reissued[x])
  BY <1>1, ResignFacts
<1> HIDE DEF k
<1>5. x \in Reissuable /\ x[1] = given[k] /\ x[3]
  <2>1. Corruptible(given)
    BY RoundTripAssumption
  <2> QED
    BY <1>4, <2>1 DEF Corruptible
<1>6. k # 1
  BY <1>2, <1>3, <1>4, CAIsRoot DEF ClimbShape
<1>7. expired = Certs(blocks) \cap ShortLived /\ (pin = NoPin \/ pin \in find_root(given))
  BY DEF WrittenInv, PinsFound
<1> HIDE DEF x
<1>8. /\ blocks \in Seq(Cert) /\ given[k] \notin Certs(blocks) /\ given[1] \in Certs(blocks)
      /\ Parses(given[1]) /\ ~is_ca(given[1])
  BY <1>3, <1>4, <1>5, <1>6, <1>7, WrittenAnew
<1>9. /\ HoldsEndEntity
      /\ \A p \in PathsOf(valid_certs) :
            p \in Seq(Cert) /\ \A i \in 1..Len(p) : p[i] \in Certs(blocks)
  BY <1>8, LeafSeen
<1>10. pin = NoPin \/ pin = r
  BY <1>2, <1>4, <1>7, RootOfPath
<1>11. ASSUME NEW p \in PathsOf(valid_certs), Verdict(p, "VALID") PROVE FALSE
  <2>1. pin # NoPin /\ pin \in find_root(p)
    BY <1>8, <1>11, ValidVerdict
  <2>2. PICK i \in 1..Len(p) : p[i] = pin
    BY <1>9, <2>1, RootOfPath
  <2> QED
    BY <1>8, <1>9, <1>10, <2>1, <2>2
<1> QED
  BY <1>9, <1>11 DEF Spurned

LEMMA AnchorSpurned ==
  ASSUME given \in Chains, WrittenInv, FaultStands,
         choice \in {"root_hash_mismatch", "root_hash_not_checked"}
  PROVE  Spurned
<1>1. blocks = given
  BY DEF WrittenInv, apply_scenario
<1>2. /\ ClimbShape(blocks) /\ blocks \in Seq(Cert) /\ blocks[1] \in Certs(blocks)
      /\ Parses(blocks[1]) /\ ~is_ca(blocks[1])
  <2>1. ClimbShape(blocks) /\ blocks \in Seq(Cert) /\ 1 \in 1..Len(blocks) /\ blocks[1] \in Certs(blocks)
    BY <1>1, GivenClimbs, ShapeFacts
  <2> QED
    BY <2>1 DEF ClimbShape
<1>3. /\ HoldsEndEntity
      /\ \A p \in PathsOf(valid_certs) :
            p \in Seq(Cert) /\ \A i \in 1..Len(p) : p[i] \in Certs(blocks)
  BY <1>2, LeafSeen
<1>4. pin = NoPin \/ pin = Random
  BY DEF WrittenInv, PinsFound, FaultStands
<1>5. Random \notin Certs(blocks)
  BY <1>1, RoundTripAssumption
<1>6. ASSUME NEW p \in PathsOf(valid_certs), Verdict(p, "VALID") PROVE FALSE
  <2>1. pin # NoPin /\ pin \in find_root(p)
    BY <1>2, <1>6, ValidVerdict
  <2>2. PICK i \in 1..Len(p) : p[i] = pin
    BY <1>3, <2>1, RootOfPath
  <2> QED
    BY <1>3, <1>4, <1>5, <2>1, <2>2
<1> QED
  BY <1>3, <1>6 DEF Spurned

-----------------------------------------------------------------------------
(* What the fault is called                                                *)

LEMMA ServerFate ==
  ASSUME given \in Chains, PlainNames(given), Unaided(given), WrittenInv,
         choice = "expired_server"
  PROVE  Fate
<1>1. blocks \in resign(given, 0, 1, keys, TRUE, FALSE)
  BY DEF WrittenInv, apply_scenario
<1>2. ChainShape(given) /\ 1 \in 1..Len(given)-1 /\ 1 - 1 = 0 /\ 2 - 1 = 1 /\ 1 + 1 = 2
  <2>1. ChainShape(given) /\ Len(given) \in Nat
    BY GivenShape, ShapeFacts DEF ChainShape
  <2>2. Len(given) >= 2
    BY <2>1 DEF ChainShape, ClimbShape
  <2> QED
    BY <2>1, <2>2
<1>3. /\ 1 \in 1..Len(given) /\ 2 \in 1..Len(given)
      /\ <<given[1], given[2], TRUE, FALSE>> \in Reissuable
      /\ Subject[given[2]] = Issuer[given[1]]
  BY <1>2, NextIssues
<1>4. /\ ChainShape(blocks) /\ Certs(blocks) \cap ShortLived = {blocks[1]}
      /\ DistinctNames(given) => DistinctNames(blocks)
  <2> DEFINE x == <<given[1], given[2], TRUE, FALSE>>
  <2>1. 0 + 1 = 1 /\ 1 + 1 = 2
    OBVIOUS
  <2>2. blocks = Put(given, 1, Reissued[x])
    BY <1>1, <2>1, ResignFacts
  <2>3. LapsedAt(given, 1, x, blocks)
    <3>1. /\ x \in Reissuable /\ x[1] = given[1] /\ Subject[x[2]] = Issuer[given[1]] /\ x[3]
          /\ x[4] <=> 1 # 1
      BY <1>3
    <3> HIDE DEF x
    <3> QED
      BY <2>2, <3>1 DEF LapsedAt
  <2> HIDE DEF x
  <2>4. KeepsShape(given, 1, blocks)
    BY <1>3, <2>3, LapsedWritten
  <2> QED
    BY <2>4 DEF KeepsShape
<1>5. expired = {blocks[1]} /\ Len(blocks) >= 2 /\ blocks \in Seq(Cert) /\ 1 \in 1..Len(blocks)
  BY <1>4, ShapeFacts DEF WrittenInv, ChainShape, ClimbShape
<1>6. {} \notin verify_chain(blocks, expired)
  BY <1>5, LapsedLeafIsRejected
<1>7. \A class : Verdict(blocks, class) => class = Expected[choice]
  BY <1>4, <1>5, <1>6, LapsedVerdict, ExpectedFacts
<1> QED
  BY <1>4, <1>7, WholeFate

LEMMA IntermediateFate ==
  ASSUME given \in Chains, PlainNames(given), Unaided(given), position \in Nat, WrittenInv,
         DistinctNames(given),
         choice = "expired_intermediate"
  PROVE  Fate
<1> DEFINE k == position + 1
<1>1. /\ IsIntermediate(given, position)
      /\ blocks \in resign(given, position, position + 1, keys, TRUE, TRUE)
  BY DEF WrittenInv, apply_scenario, expired_intermediate
<1>2. ChainShape(given) /\ Len(given) \in Nat
  BY GivenShape, ShapeFacts DEF ChainShape
<1>3. k \in 2..Len(given)-1 /\ k \in 1..Len(given)-1 /\ k # 1
  BY <1>1, <1>2 DEF IsIntermediate
<1> HIDE DEF k
<1>4. /\ k \in 1..Len(given) /\ k + 1 \in 1..Len(given)
      /\ <<given[k], given[k+1], TRUE, TRUE>> \in Reissuable
      /\ Subject[given[k+1]] = Issuer[given[k]]
  BY <1>3, NextIssues
<1>6. /\ ChainShape(blocks) /\ Len(blocks) = Len(given)
      /\ Certs(blocks) \cap ShortLived = {blocks[k]}
      /\ DistinctNames(blocks) /\ Unaided(blocks)
  <2> DEFINE x == <<given[k], given[k+1], TRUE, TRUE>>
  <2>1. position + 1 = k /\ (position + 1) + 1 = k + 1
    BY DEF k
  <2>2. blocks = Put(given, k, Reissued[x])
    BY <1>1, <2>1, ResignFacts
  <2>3. LapsedAt(given, k, x, blocks)
    <3>1. /\ x \in Reissuable /\ x[1] = given[k] /\ Subject[x[2]] = Issuer[given[k]] /\ x[3]
          /\ x[4] <=> k # 1
      BY <1>3, <1>4
    <3> HIDE DEF x
    <3> QED
      BY <2>2, <3>1 DEF LapsedAt
  <2> HIDE DEF x
  <2>4. KeepsShape(given, k, blocks)
    BY <1>4, <2>3, LapsedWritten
  <2> QED
    BY <2>4 DEF KeepsShape
<1>7. /\ expired = {blocks[k]} /\ Len(blocks) >= 2 /\ blocks \in Seq(Cert)
      /\ blocks[k] \in Certs(blocks)
  BY <1>4, <1>6, ShapeFacts DEF WrittenInv, ChainShape, ClimbShape
<1>8. /\ valid_certs \in Seq(Cert) /\ IsClimb(valid_certs, blocks)
      /\ PathsOf(valid_certs) = {blocks}
  BY <1>6, WholeSeen
<1>9. {} \notin verify_chain(blocks, expired)
  BY <1>6, <1>7, <1>8, LapsedIsRejected
<1>10. \A class : Verdict(blocks, class) => class = Expected[choice]
  BY <1>3, <1>4, <1>6, <1>7, <1>9, LapsedVerdict, ExpectedFacts
<1> QED
  BY <1>6, <1>10, WholeFate

LEMMA RootFate ==
  ASSUME given \in Chains, PlainNames(given), Unaided(given), WrittenInv,
         choice = "expired_root"
  PROVE  Fate
<1>1. PICK index \in 0..Len(given)-1 :
          /\ given[index + 1] \in find_root(given)
          /\ blocks \in resign(given, index, index, keys, TRUE, TRUE)
  <2>1. blocks \in expired_root(given, keys)
    BY DEF WrittenInv, apply_scenario
  <2> QED
    BY <2>1 DEF expired_root
<1> DEFINE k == index + 1
           r == given[k]
           n == Len(given)
<1>2. ChainShape(given) /\ n \in Nat /\ n \in 1..n /\ n >= 2 /\ given \in Seq(Cert)
  BY GivenShape, ShapeFacts DEF ChainShape, ClimbShape
<1>3. k \in 1..n /\ index + 1 = k /\ index \in Nat
  BY <1>2
<1>4. r \in find_root(given)
  BY <1>1
<1> HIDE DEF k
<1>5. is_ca(r) /\ is_self_signed(r) /\ Subject[r] = Issuer[r]
  BY <1>2, <1>4, RootOfChain DEF is_self_signed
<1>6. k # 1
  BY <1>2, <1>3, <1>5 DEF ChainShape, ClimbShape
<1>7. <<r, r, TRUE, TRUE>> \in Reissuable
  <2>1. Corruptible(given)
    BY RoundTripAssumption
  <2> QED
    BY <1>4, <2>1 DEF Corruptible
<1>9. /\ ChainShape(blocks) /\ Len(blocks) = n
      /\ Certs(blocks) \cap ShortLived = {blocks[k]}
      /\ DistinctNames(given) => DistinctNames(blocks)
      /\ SingleRoot(given) => SingleRoot(blocks)
      /\ Unaided(blocks)
  <2> DEFINE x == <<r, r, TRUE, TRUE>>
  <2>1. blocks = Put(given, k, Reissued[x])
    BY <1>1, <1>3, ResignFacts
  <2>2. LapsedAt(given, k, x, blocks)
    <3>1. /\ x \in Reissuable /\ x[1] = given[k] /\ Subject[x[2]] = Issuer[given[k]] /\ x[3]
          /\ x[4] <=> k # 1
      BY <1>5, <1>6, <1>7
    <3> HIDE DEF x
    <3> QED
      BY <2>1, <3>1 DEF LapsedAt
  <2> HIDE DEF x
  <2>3. KeepsShape(given, k, blocks)
    BY <1>3, <2>2, LapsedWritten
  <2> QED
    BY <2>3 DEF KeepsShape
<1>10. expired = {blocks[k]} /\ Len(blocks) >= 2 /\ blocks \in Seq(Cert)
  BY <1>9, ShapeFacts DEF WrittenInv, ChainShape, ClimbShape
<1>11. valid_certs \in Seq(Cert) /\ IsClimb(valid_certs, blocks)
  BY <1>9, WholeSeen
<1>12. ASSUME SingleRoot(given), NEW class, Verdict(blocks, class)
       PROVE  class = Expected[choice]
  <2>1. given[n] = Last(given) /\ is_ca(given[n]) /\ is_self_signed(given[n])
    <3>1. \A m \in Nat : m >= 2 => m # 1
      OBVIOUS
    <3>2. n # 1
      BY <1>2, <3>1
    <3> QED
      BY <1>2, <3>2 DEF ChainShape, ClimbShape, Last
  <2>2. k = n
    BY <1>2, <1>3, <1>5, <1>12, <2>1 DEF SingleRoot
  <2>3. Last(blocks) = blocks[k] /\ k \in 1..Len(blocks) /\ k = Len(blocks)
    BY <1>3, <1>9, <2>2 DEF Last
  <2>4. {} \notin verify_chain(blocks, expired)
    BY <1>9, <1>10, <1>11, <2>3, NoComplaintVouches, VouchedEnds
  <2> QED
    BY <1>9, <1>10, <1>12, <2>3, <2>4, LapsedVerdict, ExpectedFacts
<1> QED
  BY <1>9, <1>12, WholeFate

\* The chain itself is written, and only the pin is at fault.
LEMMA AnchorFate ==
  ASSUME given \in Chains, Unaided(given), WrittenInv, FaultStands,
         choice \in {"root_hash_mismatch", "root_hash_not_checked"}
  PROVE  Fate
<1>1. blocks = given
  BY DEF WrittenInv, apply_scenario
<1>2. ChainShape(blocks)
  BY <1>1, GivenShape
<1>3. expired = {}
  <2>1. Corruptible(given)
    BY RoundTripAssumption
  <2> QED
    BY <1>1, <2>1 DEF WrittenInv, Corruptible, ShortLived
<1>4. /\ blocks \in Seq(Cert) /\ Len(blocks) >= 2 /\ ~chain_is_incomplete(blocks)
      /\ \A p \in PathsOf(valid_certs) :
             p \in Seq(Cert) /\ \A i \in 1..Len(p) : p[i] \in Certs(blocks)
  BY <1>2, WholeSeen DEF ChainShape, ClimbShape
<1>5. \/ choice = "root_hash_mismatch" /\ pin = Random
      \/ choice = "root_hash_not_checked" /\ pin = NoPin
  BY DEF WrittenInv, PinsFound, FaultStands
<1>6. Random # NoPin /\ Random \notin Certs(blocks)
  BY <1>1, RoundTripAssumption
<1>7. \A p \in PathsOf(valid_certs) : pin = NoPin \/ pin \notin find_root(p)
  <2> SUFFICES ASSUME NEW p \in PathsOf(valid_certs), pin # NoPin, pin \in find_root(p)
               PROVE  FALSE
    OBVIOUS
  <2>1. PICK i \in 1..Len(p) : p[i] = pin
    BY <1>4, RootOfPath
  <2> QED
    BY <1>4, <1>5, <1>6, <2>1
<1>8. ASSUME NEW class, Verdict(blocks, class) PROVE class = Expected[choice]
  <2>1. {} \in verify_chain(blocks, expired)
    BY <1>1, <1>3, RoundTripAssumption
  <2>2. \A m \in verify_chain(blocks, expired) : m = {}
    BY <1>1, <1>3, <1>4, <2>1, OneAnswer
  <2>3. class = AnchorOf(blocks)
    BY <1>4, <1>8, <2>2 DEF Verdict
  <2>4. blocks \in PathsOf(valid_certs)
    BY <1>2, WholeSeen
  <2> QED
    BY <1>5, <1>6, <1>7, <2>3, <2>4, ExpectedFacts DEF AnchorOf
<1> QED
  BY <1>1, <1>2, <1>8, WholeFate

\* An intermediate is gone, or is no CA any more.
LEMMA GapFate ==
  ASSUME given \in Chains, DistinctNames(given), NEW k \in 2..Len(given)-1,
         blocks \in Seq(Cert), NEW D, Certs(blocks) = (Certs(given) \ {given[k]}) \cup D,
         \A d \in D : /\ Parses(d) /\ ~is_ca(d)
                      /\ Subject[d] = Subject[given[k]] /\ Issuer[d] = Issuer[given[k]],
         choice # "expired_root",
         Expected[choice] = IF D # {} THEN "NON_CA_INTERMEDIATE" ELSE "MISSING_INTERMEDIATE"
  PROVE  Fate /\ Spurned
<1> DEFINE q == SubSeq(given, 1, k-1)
<1>1. ClimbShape(given) /\ \A c \in Certs(given) : Parses(c)
  <2>1. ClimbShape(given)
    BY GivenClimbs
  <2> QED
    BY <2>1 DEF ClimbShape, Certs
<1>2. \A c \in Certs(blocks) : Parses(c)
  BY <1>1
<1>3. /\ valid_certs \in Seq(Cert) /\ Len(valid_certs) = Len(blocks)
      /\ Certs(valid_certs) = Certs(blocks)
  BY <1>2, SplitFacts DEF valid_certs
<1>4. corrupted_count = 0
  BY <1>3, LenProperties DEF corrupted_count
<1>5. /\ PathsOf(valid_certs) = {q} /\ chain_is_incomplete(q)
      /\ given[1] \in Certs(valid_certs) /\ ~is_ca(given[1])
      /\ \A x \in Certs(valid_certs) : Subject[x] = Issuer[Last(q)] <=> x \in D
  <2>1. ClimbShape(given) /\ DistinctNames(given) /\ valid_certs \in Seq(Cert)
    BY <1>1, <1>3
  <2>2. Certs(valid_certs) = (Certs(given) \ {given[k]}) \cup D
    BY <1>3
  <2> QED
    BY <2>1, <2>2, CutOff
<1> HIDE DEF q
<1>6. HoldsEndEntity
  BY <1>5 DEF HoldsEndEntity
<1>7. find_non_ca_intermediates(q) # {} <=> D # {}
  <2>a. D \subseteq Certs(valid_certs)
    BY <1>3
  <2>1. Namesakes(q) = D
    BY <1>5, <2>a DEF Namesakes
  <2> QED
    BY <1>5, <2>1, GapFacts
<1>8. \A class : Verdict(q, class) => class = Expected[choice]
  BY <1>5, <1>7 DEF Verdict
<1>9. ~Verdict(q, "VALID")
  BY <1>8
<1> QED
  BY <1>4, <1>5, <1>6, <1>8, <1>9 DEF Fate, Spurned

LEMMA MissingFate ==
  ASSUME given \in Chains, position \in Nat, WrittenInv, DistinctNames(given),
         choice = "missing_intermediate"
  PROVE  Fate /\ Spurned
<1> DEFINE k == position + 1
           n == Len(given)
<1>1. /\ IsIntermediate(given, position)
      /\ blocks = SubSeq(given, 1, position) \o SubSeq(given, position + 2, n)
  BY DEF WrittenInv, apply_scenario, missing_intermediate
<1>2. ClimbShape(given) /\ n \in Nat /\ given \in Seq(Cert) /\ NoRepeats(given)
  BY GivenClimbs, ShapeFacts DEF ClimbShape
<1>3. k \in 2..n-1 /\ k - 1 = position /\ k + 1 = position + 2
  BY <1>1, <1>2 DEF IsIntermediate
<1> HIDE DEF k
<1>4. blocks = SubSeq(given, 1, k-1) \o SubSeq(given, k+1, n)
  BY <1>1, <1>3
<1>5. blocks \in Seq(Cert) /\ Certs(blocks) = Certs(given) \ {given[k]}
  BY <1>2, <1>3, <1>4, Removed
<1> DEFINE D == {}
<1>6. /\ Certs(blocks) = (Certs(given) \ {given[k]}) \cup D
      /\ D = {} /\ \A d \in D : FALSE
  BY <1>5
<1> HIDE DEF D
<1>7. Expected[choice] = IF D # {} THEN "NON_CA_INTERMEDIATE" ELSE "MISSING_INTERMEDIATE"
  BY <1>6, ExpectedFacts
<1> QED
  BY <1>3, <1>5, <1>6, <1>7, GapFate

LEMMA NonCaFate ==
  ASSUME given \in Chains, PlainNames(given), position \in Nat, WrittenInv, DistinctNames(given),
         choice = "non_ca_intermediate"
  PROVE  Fate /\ Spurned
<1> DEFINE k == position + 1
           x == <<given[k], given[k+1], FALSE, FALSE>>
<1>1. /\ IsIntermediate(given, position)
      /\ blocks \in resign(given, position, position + 1, keys, FALSE, FALSE)
  BY DEF WrittenInv, apply_scenario, non_ca_intermediate
<1>2. ClimbShape(given) /\ Len(given) \in Nat
  BY GivenClimbs, ShapeFacts
<1>3. /\ k \in 2..Len(given)-1 /\ k \in 1..Len(given)-1 /\ k \in 1..Len(given)
      /\ (position + 1) + 1 = k + 1
  BY <1>1, <1>2 DEF IsIntermediate
<1>4. blocks = Put(given, k, Reissued[x])
  BY <1>1, <1>3, ResignFacts
<1>5. /\ x \in Reissuable /\ x[1] = given[k] /\ Subject[x[2]] = Issuer[given[k]] /\ ~x[4]
  BY <1>3, NextIssues
<1> HIDE DEF k, x
<1>6. PICK d \in Cert :
          /\ blocks = Put(given, k, d)
          /\ Parses(d) /\ d \notin Certs(given) /\ (is_ca(d) <=> x[4])
          /\ PlainNames(given) => Subject[d] = Subject[given[k]]
          /\ Issuer[d] = Subject[x[2]]
          /\ blocks \in Seq(Cert) /\ Len(blocks) = Len(given) /\ blocks[k] = d
          /\ Certs(blocks) = (Certs(given) \ {given[k]}) \cup {d}
          /\ x[3] => Certs(blocks) \cap ShortLived = {d}
  BY <1>3, <1>4, <1>5, Resigned
<1>7. \A e \in {d} : /\ Parses(e) /\ ~is_ca(e)
                     /\ Subject[e] = Subject[given[k]] /\ Issuer[e] = Issuer[given[k]]
  BY <1>5, <1>6
<1>8. {d} # {}
  OBVIOUS
<1> QED
  BY <1>3, <1>6, <1>7, <1>8, GapFate, ExpectedFacts

\* The leaf does not parse: a bundle of CAs is left, and corruption reported.
LEMMA CorruptedBundle ==
  ASSUME given \in Chains, WrittenInv, choice = "corrupted_server"
  PROVE  valid_certs # <<>> /\ ~HoldsEndEntity /\ corrupted_count # 0
<1> DEFINE d == Mangled[given[1]]
<1>1. blocks = Put(given, 1, d)
  BY DEF WrittenInv, apply_scenario, corrupted_server, Put
<1>2. /\ ClimbShape(given) /\ given \in Seq(Cert) /\ NoRepeats(given)
      /\ Len(given) \in Nat /\ 1 \in 1..Len(given) /\ given[1] \in Certs(given)
  BY GivenClimbs, ShapeFacts DEF ClimbShape
<1>3. d \in Cert /\ ~Parses(d)
  <2>1. Corruptible(given)
    BY RoundTripAssumption
  <2>2. given[1] \in DOMAIN Mangled
    BY <1>2, <2>1 DEF Corruptible
  <2> QED
    BY <2>2, ScenarioAssumption, CertAssumption DEF Parses
<1> HIDE DEF d
<1>4. blocks \in Seq(Cert) /\ Certs(blocks) = (Certs(given) \ {given[1]}) \cup {d}
  BY <1>1, <1>2, <1>3, Replaced
<1>5. /\ valid_certs \in Seq(Cert)
      /\ Certs(valid_certs) = {c \in Certs(blocks) : Parses(c)}
      /\ Len(valid_certs) # Len(blocks)
  BY <1>3, <1>4, SplitFacts DEF valid_certs
<1>6. corrupted_count # 0
  <2>1. Len(valid_certs) \in Nat /\ Len(blocks) \in Nat
    BY <1>4, <1>5, LenProperties
  <2>2. corrupted_count = Len(blocks) - Len(valid_certs)
    BY DEF corrupted_count
  <2> QED
    BY <1>5, <2>1, <2>2
<1>7. ~HoldsEndEntity
  <2> SUFFICES ASSUME NEW c \in Certs(valid_certs) PROVE is_ca(c)
    BY DEF HoldsEndEntity
  <2>1. c \in Certs(given) \ {given[1]}
    BY <1>3, <1>4, <1>5
  <2>2. PICK i \in 1..Len(given) : c = given[i]
    BY <2>1 DEF Certs
  <2> QED
    BY <1>2, <2>1, <2>2 DEF ClimbShape
<1>8. valid_certs # <<>>
  <2>1. 2 \in 1..Len(given) /\ 2 # 1
    BY <1>2 DEF ClimbShape
  <2>2. given[2] \in Certs(given) /\ given[2] # given[1] /\ Parses(given[2])
    BY <1>2, <2>1, ShapeFacts DEF ClimbShape, NoRepeats
  <2>3. Certs(valid_certs) # {}
    BY <1>4, <1>5, <2>2
  <2> QED
    BY <2>3, NoFindings
<1> QED
  BY <1>6, <1>7, <1>8

\* Every other scenario.
LEMMA FateHolds ==
  ASSUME given \in Chains, PlainNames(given), Unaided(given), position \in Nat,
         choice \in SCENARIOS, WrittenInv, Unmended, choice # "corrupted_server"
  PROVE  Fate
<1>1. FaultStands
  BY DEF Unmended
<1>2. CASE choice \in POSITION_SCENARIOS
  <2>1. DistinctNames(given)
    BY <1>2 DEF Unmended
  <2> QED
    BY <1>2, <2>1, IntermediateFate, NonCaFate, MissingFate DEF POSITION_SCENARIOS
<1>3. CASE choice \notin POSITION_SCENARIOS
  BY <1>1, <1>3, ServerFate, RootFate, AnchorFate DEF SCENARIOS, POSITION_SCENARIOS
<1> QED
  BY <1>2, <1>3

LEMMA SpurnedHolds ==
  ASSUME given \in Chains, position \in Nat, choice \in SCENARIOS, WrittenInv, Unmended,
         choice = "non_ca_intermediate" => PlainNames(given), choice # "corrupted_server"
  PROVE  Spurned
<1>1. FaultStands
  BY DEF Unmended
<1>2. CASE choice \in POSITION_SCENARIOS
  <2>1. DistinctNames(given) /\ (choice = "expired_intermediate" => Unaided(given))
    BY <1>2 DEF Unmended
  <2> QED
    BY <1>2, <2>1, IntermediateSpurned, NonCaFate, MissingFate DEF POSITION_SCENARIOS
<1>3. CASE choice \notin POSITION_SCENARIOS
  BY <1>1, <1>3, ServerSpurned, RootSpurned, AnchorSpurned DEF SCENARIOS, POSITION_SCENARIOS
<1> QED
  BY <1>2, <1>3

-----------------------------------------------------------------------------
(* The invariant holds                                                     *)

\* What is written is a sequence of certificates.
LEMMA WrittenIsBundle ==
  ASSUME given \in Chains, position \in Nat, choice \in SCENARIOS,
         NEW w \in apply_scenario(choice, given, position, keys)
  PROVE  w \in Seq(Cert)
<1> DEFINE n == Len(given)
<1>1. /\ ClimbShape(given) /\ given \in Seq(Cert) /\ NoRepeats(given)
      /\ n \in Nat /\ n >= 2 /\ 1 \in 1..n /\ 1 \in 1..n-1 /\ given[1] \in Certs(given)
  <2>1. ClimbShape(given) /\ n \in Nat /\ 1 \in 1..n /\ given[1] \in Certs(given)
    BY GivenClimbs, ShapeFacts
  <2>2. n >= 2
    BY <2>1 DEF ClimbShape
  <2>3. 1 \in 1..n-1
    BY <2>1, <2>2
  <2> QED
    BY <2>1, <2>2, <2>3 DEF ClimbShape
<1>2. ASSUME NEW k \in 1..n, NEW x \in Reissuable, x[1] = given[k],
             w = Put(given, k, Reissued[x])
      PROVE  w \in Seq(Cert)
  BY <1>2, Resigned
<1>3. ASSUME NEW k \in 1..n-1, NEW t, NEW lapsed \in BOOLEAN, NEW ca \in BOOLEAN,
             t + 1 = k, w \in resign(given, t, t + 1, keys, lapsed, ca)
      PROVE  w \in Seq(Cert)
  <2> DEFINE x == <<given[k], given[k+1], lapsed, ca>>
  <2>1. k \in 1..n /\ x \in Reissuable /\ x[1] = given[k]
    BY NextIssues
  <2>2. w = Put(given, k, Reissued[x])
    BY <1>3, ResignFacts
  <2> HIDE DEF x
  <2> QED
    BY <1>2, <2>1, <2>2
<1>4. ASSUME IsIntermediate(given, position)
      PROVE  position + 1 \in 1..n-1 /\ position + 1 \in 2..n-1
  BY <1>1, <1>4 DEF IsIntermediate
<1>5. CASE choice = "expired_server"
  <2> DEFINE t == 0
  <2>1. w \in resign(given, t, 1, keys, TRUE, FALSE)
    BY <1>5 DEF apply_scenario
  <2>2. t + 1 = 1
    OBVIOUS
  <2> HIDE DEF t
  <2>3. w \in resign(given, t, t + 1, keys, TRUE, FALSE)
    BY <2>1, <2>2
  <2> QED
    BY <1>1, <1>3, <2>2, <2>3
<1>6. CASE choice = "corrupted_server"
  <2>1. w = Put(given, 1, Mangled[given[1]])
    BY <1>6 DEF apply_scenario, corrupted_server, Put
  <2>2. Corruptible(given)
    BY RoundTripAssumption
  <2>3. Mangled[given[1]] \in Cert
    BY <1>1, <2>2, ScenarioAssumption, CertAssumption DEF Corruptible
  <2> QED
    BY <1>1, <2>1, <2>3, Replaced
<1>7. CASE choice = "expired_intermediate"
  <2>1. /\ IsIntermediate(given, position)
        /\ w \in resign(given, position, position + 1, keys, TRUE, TRUE)
    BY <1>7 DEF apply_scenario, expired_intermediate
  <2> QED
    BY <1>3, <1>4, <2>1
<1>8. CASE choice = "non_ca_intermediate"
  <2>1. /\ IsIntermediate(given, position)
        /\ w \in resign(given, position, position + 1, keys, FALSE, FALSE)
    BY <1>8 DEF apply_scenario, non_ca_intermediate
  <2> QED
    BY <1>3, <1>4, <2>1
<1>9. CASE choice = "missing_intermediate"
  <2> DEFINE k == position + 1
  <2>1. /\ IsIntermediate(given, position)
        /\ w = SubSeq(given, 1, position) \o SubSeq(given, position + 2, n)
    BY <1>9 DEF apply_scenario, missing_intermediate
  <2>2. k \in 2..n-1 /\ k - 1 = position /\ k + 1 = position + 2
    BY <1>4, <2>1
  <2> HIDE DEF k
  <2>3. w = SubSeq(given, 1, k-1) \o SubSeq(given, k+1, n)
    BY <2>1, <2>2
  <2> QED
    BY <1>1, <2>2, <2>3, Removed
<1>10. CASE choice \in {"root_hash_mismatch", "root_hash_not_checked"}
  BY <1>1, <1>10 DEF apply_scenario
<1>11. CASE choice = "expired_root"
  <2>1. w \in expired_root(given, keys)
    BY <1>11 DEF apply_scenario
  <2>2. PICK index \in 0..n-1 :
            /\ given[index + 1] \in find_root(given)
            /\ w \in resign(given, index, index, keys, TRUE, TRUE)
    BY <2>1 DEF expired_root
  <2> DEFINE k == index + 1
             r == given[k]
             x == <<r, r, TRUE, TRUE>>
  <2>3. k \in 1..n
    BY <1>1
  <2>4. r \in find_root(given) /\ w = Put(given, k, Reissued[x])
    BY <2>2, ResignFacts
  <2> HIDE DEF k
  <2>5. Corruptible(given)
    BY RoundTripAssumption
  <2>6. x \in Reissuable /\ x[1] = given[k]
    BY <2>4, <2>5 DEF Corruptible
  <2> HIDE DEF x
  <2> QED
    BY <1>2, <2>3, <2>4, <2>6
<1> QED
  BY <1>5, <1>6, <1>7, <1>8, <1>9, <1>10, <1>11 DEF SCENARIOS

LEMMA PinIsRead ==
  ASSUME given \in Chains
  PROVE  PinsFound \subseteq Cert \cup {NoPin, Unreadable}
<1>1. Random \in Cert \cup {NoPin, Unreadable}
  BY RoundTripAssumption, AnalysisAssumption
<1>2. find_root(given) \subseteq Cert
  <2>1. ClimbShape(given) /\ given \in Seq(Cert) /\ \A i \in 1..Len(given) : given[i] \in Cert
    BY GivenClimbs, ShapeFacts
  <2> QED
    BY <2>1, RootOfPath
<1> QED
  BY <1>1, <1>2 DEF PinsFound

LEMMA RTInitHolds == RTInit => RTInv
<1> SUFFICES ASSUME RTInit PROVE RTInv
  OBVIOUS
<1>1. given \in Chains /\ position \in 0..Len(given)
  BY DEF RTInit
<1>2. position \in Nat
  BY <1>1
<1> QED
  BY <1>2 DEF RTInit, RTInv

LEMMA CorruptHolds == RTInv /\ Corrupt => RTInv'
<1> SUFFICES ASSUME RTInv, Corrupt PROVE RTInv'
  OBVIOUS
<1>1. /\ given \in Chains /\ choice \in SCENARIOS /\ position \in Nat /\ ~skipped
      /\ paths = <<>> /\ messages = {} /\ scan = 0 /\ late = FALSE /\ findings = <<>>
  BY DEF RTInv, Corrupt
<1>2. /\ blocks' \in apply_scenario(choice, given, position, keys) /\ pin' \in PinsFound
      /\ expired' = Certs(blocks') \cap ShortLived
      /\ began' = expired' /\ phase' = "load"
      /\ UNCHANGED <<paths, messages, scan, late, findings>>
      /\ UNCHANGED <<given, keys, choice, position, skipped>>
  BY DEF Corrupt, setting
<1>3. WrittenInv'
  <2>1. PinsFound' = PinsFound
    BY <1>2 DEF PinsFound
  <2> QED
    BY <1>2, <2>1 DEF WrittenInv
<1>4. Fresh'
  <2>1. blocks' \in Seq(Cert)
    BY <1>1, <1>2, WrittenIsBundle
  <2>2. pin' \in Cert \cup {NoPin, Unreadable}
    BY <1>1, <1>2, PinIsRead
  <2> QED
    BY <1>1, <1>2, <2>1, <2>2 DEF Fresh
<1>5. IInv'
  <2>1. (Fresh => IInv)'
    BY FreshHolds, PTL
  <2> QED
    BY <1>4, <2>1
<1>6. OInv'
  BY <1>1, <1>2 DEF OInv, ProgressInv, PassedInv, OutcomeInv, Inside
<1> QED
  BY <1>1, <1>2, <1>3, <1>5, <1>6 DEF RTInv

LEMMA SkipHolds == RTInv /\ Skip => RTInv'
  BY DEF RTInv, Skip

\* The validator works on what it was given.
LEMMA StepFacts ==
  Step => /\ phase \notin {"corrupt", "done"} /\ phase' # "corrupt"
          /\ UNCHANGED <<blocks, pin, expired>>
<1> DEFINE Same == UNCHANGED <<blocks, pin, expired>>
<1>1. FindNothing => phase = "load" /\ phase' = "done" /\ Same
  BY DEF FindNothing, Conclude
<1>2. ReportAllCorrupted => phase = "load" /\ phase' = "done" /\ Same
  BY DEF ReportAllCorrupted, Conclude
<1>3. ReportCaBundle => phase = "load" /\ phase' = "done" /\ Same
  BY DEF ReportCaBundle, Conclude
<1>4. ReportNoLeaf => phase = "load" /\ phase' = "done" /\ Same
  BY DEF ReportNoLeaf, Conclude
<1>5. BuildPaths => phase = "load" /\ phase' = "path" /\ Same
  BY DEF BuildPaths
<1>6. StopShort => phase = "path" /\ phase' = "path" /\ Same
  BY DEF StopShort, Pending
<1>7. VerifyChain => phase = "path" /\ phase' \in {"anchor", "leaf"} /\ Same
  BY DEF VerifyChain, Pending
<1>8. CheckAnchor => phase = "anchor" /\ phase' = "path" /\ Same
  BY DEF CheckAnchor
<1>9. ReadLeaf => phase = "leaf" /\ phase' \in {"path", "intermediates"} /\ Same
  BY DEF ReadLeaf
<1>10. ReadIntermediate => phase = "intermediates" /\ phase' = "intermediates" /\ Same
  BY DEF ReadIntermediate
<1>11. EndIntermediates => phase = "intermediates" /\ phase' \in {"path", "root"} /\ Same
  BY DEF EndIntermediates
<1>12. ReadRoot => phase = "root" /\ phase' \in {"path", "messages"} /\ Same
  BY DEF ReadRoot
<1>13. ReadMessages => phase = "messages" /\ phase' = "path" /\ Same
  BY DEF ReadMessages
<1>14. Return => phase = "path" /\ phase' = "done" /\ Same
  BY DEF Return
<1> QED
  BY <1>1, <1>2, <1>3, <1>4, <1>5, <1>6, <1>7, <1>8, <1>9, <1>10, <1>11, <1>12, <1>13,
     <1>14 DEF Step

LEMMA WrittenStays ==
  ASSUME WrittenInv, UNCHANGED <<blocks, pin, expired>>, UNCHANGED setting
  PROVE  WrittenInv'
<1>1. PinsFound' = PinsFound
  BY DEF PinsFound, setting
<1> QED
  BY <1>1 DEF WrittenInv, setting

LEMMA StepHolds == RTInv /\ Step /\ UNCHANGED setting => RTInv'
<1> SUFFICES ASSUME RTInv, Step, UNCHANGED setting PROVE RTInv'
  OBVIOUS
<1>1. /\ phase \notin {"corrupt", "done"} /\ phase' # "corrupt"
      /\ UNCHANGED <<blocks, pin, expired>>
  BY StepFacts
<1>2. ~skipped /\ WrittenInv /\ IInv /\ OInv
  BY <1>1 DEF RTInv
<1>3. IInv'
  BY <1>2, Inductive DEF Next
<1>4. OInv'
  BY <1>2, <1>3, OutcomeHolds
<1>5. WrittenInv'
  BY <1>1, <1>2, WrittenStays
<1>6. UNCHANGED <<given, keys, choice, position, skipped>>
  BY DEF setting
<1> QED
  BY <1>1, <1>2, <1>3, <1>4, <1>5, <1>6 DEF RTInv

LEMMA RTStutterHolds == RTInv /\ UNCHANGED <<vars, setting>> => RTInv'
<1> SUFFICES ASSUME RTInv, UNCHANGED <<vars, setting>> PROVE RTInv'
  OBVIOUS
<1>1. /\ UNCHANGED <<blocks, pin, expired, began, phase, paths, messages, scan, late, findings>>
      /\ UNCHANGED <<given, keys, choice, position, skipped>>
      /\ UNCHANGED vars /\ UNCHANGED setting
  BY DEF vars, setting
<1>2. CASE phase # "corrupt" /\ ~skipped
  <2>1. WrittenInv /\ IInv /\ OInv
    BY <1>2 DEF RTInv
  <2>2. IInv'
    BY <1>1, <2>1, Inductive
  <2>3. OInv'
    <3>1. /\ valid_certs' = valid_certs /\ (HoldsEndEntity' <=> HoldsEndEntity)
          /\ corrupted_count' = corrupted_count /\ BundleFindings' = BundleFindings
          /\ \A f, p : Explains(f, p)' <=> Explains(f, p)
      BY <1>1, SameGround
    <3>2. path' = path
      BY <1>1 DEF path
    <3>3. ProgressInv'
      BY <1>1, <2>1, <3>1 DEF OInv, ProgressInv
    <3>4. PassedInv'
      BY <1>1, <2>1, <3>2 DEF OInv, PassedInv, HasLate
    <3>5. OutcomeInv'
      BY <1>1, <2>1, <3>1 DEF OInv, OutcomeInv
    <3> QED
      BY <1>1, <2>1, <3>3, <3>4, <3>5 DEF OInv
  <2>4. WrittenInv'
    BY <1>1, <2>1, WrittenStays
  <2> QED
    BY <1>1, <2>2, <2>3, <2>4 DEF RTInv
<1>3. CASE ~(phase # "corrupt" /\ ~skipped)
  BY <1>1, <1>3 DEF RTInv
<1> QED
  BY <1>2, <1>3

LEMMA RTInvariance == RTSpec => []RTInv
<1>1. RTInv /\ [RTNext]_<<vars, setting>> => RTInv'
  BY CorruptHolds, SkipHolds, StepHolds, RTStutterHolds DEF RTNext
<1> QED
  BY <1>1, RTInitHolds, PTL DEF RTSpec

-----------------------------------------------------------------------------
(* The theorems about the round trip *)

\* What the analysis says of a leaf that does not parse ...
LEMMA CorruptedAnswer ==
  ASSUME RTInv, Analysed, choice = "corrupted_server"
  PROVE  /\ \A f \in Certs(findings) :
                ~f.valid /\ f.classification \in {"CA_BUNDLE", "CORRUPTED_CERTIFICATE"}
         /\ \E f \in Certs(findings) : f.classification = Expected[choice]
<1>1. given \in Chains /\ WrittenInv /\ OutcomeInv /\ phase = "done"
  BY DEF RTInv, Analysed, OInv
<1>2. valid_certs # <<>> /\ ~HoldsEndEntity /\ corrupted_count # 0
  BY <1>1, CorruptedBundle
<1>3. Certs(findings) = BundleFindings
  BY <1>1, <1>2 DEF OutcomeInv
<1>4. BundleFindings = {Finding(<<>>, "CA_BUNDLE", FALSE), General("CORRUPTED_CERTIFICATE")}
  BY <1>2 DEF BundleFindings
<1>5. /\ ~Finding(<<>>, "CA_BUNDLE", FALSE).valid
      /\ Finding(<<>>, "CA_BUNDLE", FALSE).classification = "CA_BUNDLE"
      /\ ~General("CORRUPTED_CERTIFICATE").valid
      /\ General("CORRUPTED_CERTIFICATE").classification = "CORRUPTED_CERTIFICATE"
  BY DEF Finding, General
<1> QED
  BY <1>3, <1>4, <1>5, ExpectedFacts

\* ... and of every other fault.  It never says VALID ...
LEMMA FaultRefused ==
  ASSUME RTInv, Analysed, Unmended, choice = "non_ca_intermediate" => PlainNames(given),
         choice # "corrupted_server"
  PROVE  \A f \in Certs(findings) : ~f.valid
<1>1. /\ given \in Chains /\ position \in Nat /\ choice \in SCENARIOS
      /\ WrittenInv /\ OutcomeInv /\ phase = "done"
  BY DEF RTInv, Analysed, OInv
<1>2. HoldsEndEntity /\ \A p \in PathsOf(valid_certs) : ~Verdict(p, "VALID")
  BY <1>1, SpurnedHolds DEF Spurned
<1>3. CASE PathsOf(valid_certs) = {}
  BY <1>1, <1>2, <1>3 DEF OutcomeInv
<1>4. CASE PathsOf(valid_certs) # {}
  <2>1. ~General("CORRUPTED_CERTIFICATE").valid
    BY DEF General, Finding
  <2> QED
    BY <1>1, <1>2, <1>4, <2>1 DEF OutcomeInv, Explains
<1> QED
  BY <1>3, <1>4

\* ... and it calls the fault by its name.
LEMMA FaultAnswer ==
  ASSUME RTInv, Analysed, Unmended, PlainNames(given), Unaided(given),
         choice # "corrupted_server", choice = "expired_root" => SingleRoot(given)
  PROVE  /\ \E f \in Certs(findings) : f.classification = Expected[choice]
         /\ DistinctNames(given) =>
               \A f \in Certs(findings) : f.classification = Expected[choice]
<1>1. /\ given \in Chains /\ position \in Nat /\ choice \in SCENARIOS
      /\ WrittenInv /\ IInv /\ OutcomeInv /\ phase = "done"
  BY DEF RTInv, Analysed, OInv
<1>2. Fate
  BY <1>1, FateHolds
<1>3. HoldsEndEntity /\ PathsOf(valid_certs) # {} /\ corrupted_count = 0
  BY <1>2 DEF Fate
<1>4. /\ \A p \in PathsOf(valid_certs) : \E f \in Certs(findings) : Explains(f, p)
      /\ \A f \in Certs(findings) : \E p \in PathsOf(valid_certs) : Explains(f, p)
  BY <1>1, <1>3 DEF OutcomeInv
<1>5. \A f \in Certs(findings) : f.classification \in Classification
  <2>1. findings \in Seq(FindingRecord)
    BY <1>1 DEF IInv, TypeInv
  <2>2. \A i \in 1..Len(findings) : findings[i] \in FindingRecord
    BY <2>1, ElementOfSeq
  <2> QED
    BY <2>2 DEF Certs, FindingRecord
<1>6. PICK p \in PathsOf(valid_certs) :
          /\ \A class \in Classification : Verdict(p, class) => class = Expected[choice]
          /\ DistinctNames(given) => PathsOf(valid_certs) = {p}
  BY <1>2 DEF Fate
<1>7. \A f \in Certs(findings) : Explains(f, p) => f.classification = Expected[choice]
  BY <1>5, <1>6 DEF Explains
<1> QED
  BY <1>4, <1>6, <1>7

\* The validator accepts no chain the invalidator has corrupted: for every
\* chain, with names that are kept or not, every position and set of keys, and
\* even where the pin of that chain is found - as long as the fault stands and
\* an intermediate made no CA keeps its name (NeverAccepted).
THEOREM CorruptionIsNeverAccepted == RTSpec => []NeverAccepted
<1>1. RTInv => NeverAccepted
  BY CorruptedAnswer, FaultRefused DEF NeverAccepted, Accepted
<1> QED
  BY <1>1, RTInvariance, PTL

\* Every scenario, at every intermediate of every chain whose names are kept
\* and which no CA of the machine helps along, gets the classification the
\* tests expect of it.
THEOREM ScenariosAreRecognised == RTSpec => []ClassifiedAsIntended
<1>1. RTInv => ClassifiedAsIntended
  BY CorruptedAnswer, FaultAnswer DEF ClassifiedAsIntended, Named
<1> QED
  BY <1>1, RTInvariance, PTL

\* Nothing but the fault that was made is found, where names do not repeat
\* and are kept, and no CA of the machine helps.
THEOREM NoOtherFault == RTSpec => []NothingElseFound
<1>1. ASSUME RTInv, Analysed, FaultStands, DistinctNames(given), PlainNames(given),
             Unaided(given), NEW f \in Certs(findings)
      PROVE  f.classification \in {Expected[choice], "CA_BUNDLE"}
  <2>1. Unmended
    BY <1>1 DEF Unmended
  <2>2. SingleRoot(given)
    <3>1. given \in Chains
      BY <1>1 DEF RTInv
    <3>2. given \in Seq(Cert) /\ IsClimb(given, given)
      BY <3>1, GivenClimbs DEF IsPath, ClimbShape
    <3> QED
      BY <1>1, <3>2, DistinctIsSingle
  <2>3. CASE choice = "corrupted_server"
    BY <1>1, <2>3, CorruptedAnswer, ExpectedFacts
  <2>4. CASE choice # "corrupted_server"
    BY <1>1, <2>1, <2>2, <2>4, FaultAnswer
  <2> QED
    BY <2>3, <2>4
<1>2. RTInv => NothingElseFound
  BY <1>1 DEF NothingElseFound, OnlyOneDefect
<1> QED
  BY <1>2, RTInvariance, PTL
=============================================================================
