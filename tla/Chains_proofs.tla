---------------------------- MODULE Chains_proofs ---------------------------
(***************************************************************************)
(* Lemmas the proofs about several components share: sequences of          *)
(* certificates, the paths of a bundle and their listings, the root of a   *)
(* path, and what OpenSSL's answer about a path can mean.                  *)
(***************************************************************************)
EXTENDS Paths, Verify, SequenceTheorems, FiniteSetTheorems,
        WellFoundedInduction, TLAPS

-----------------------------------------------------------------------------
(* Numbers and sequences *)

\* A set of naturals has a least element: induction, for a property that can
\* be written as the set of its counterexamples.
LEMMA Least ==
  ASSUME NEW S \in SUBSET Nat, S # {}
  PROVE  \E m \in S : \A k \in S : m <= k
<1>1. PICK m \in S : \A k \in S : ~ (<<k, m>> \in OpToRel(<, Nat))
  BY WFMin, NatLessThanWellFounded
<1>2. \A k \in S : ~(k < m)
  BY <1>1 DEF OpToRel
<1> QED
  BY <1>2

\* A sequence without repetitions is no longer than the finite set it draws
\* from.
LEMMA RepeatFreeIsShort ==
  ASSUME NEW S, NEW T, IsFiniteSet(T), NEW s \in Seq(S),
         Certs(s) \subseteq T, NoRepeats(s)
  PROVE  Len(s) <= Cardinality(T)
<1>1. Len(s) \in Nat /\ DOMAIN s = 1..Len(s) /\ s \in [1..Len(s) -> S]
  BY LenProperties
<1>2. s \in [1..Len(s) -> T]
  BY <1>1 DEF Certs
<1>3. s \in Injection(1..Len(s), T)
  BY <1>1, <1>2 DEF Injection, IsInjective, NoRepeats
<1>4. Cardinality(1..Len(s)) <= Cardinality(T)
  BY <1>3, FS_Injection
<1>5. Cardinality(1..Len(s)) = Len(s)
  BY <1>1, FS_Interval
<1> QED
  BY <1>4, <1>5

\* The certificates of a bundle are finitely many, at most its length.
LEMMA BundleIsFinite ==
  ASSUME NEW b \in Seq(Cert)
  PROVE  /\ IsFiniteSet(Certs(b))
         /\ Cardinality(Certs(b)) \in Nat
         /\ Cardinality(Certs(b)) <= Len(b)
<1>1. Len(b) \in Nat /\ b \in [1..Len(b) -> Cert]
  BY LenProperties
<1>2. IsFiniteSet(1..Len(b)) /\ Cardinality(1..Len(b)) = Len(b)
  BY <1>1, FS_Interval
<1>3. b \in Surjection(1..Len(b), Certs(b))
  BY <1>1 DEF Surjection, Certs
<1>4. IsFiniteSet(Certs(b)) /\ Cardinality(Certs(b)) <= Len(b)
  BY <1>2, <1>3, FS_Surjection
<1> QED
  BY <1>4, FS_CardinalityType

\* PathsOf enumerates exactly the paths: a path is no longer than its bundle
\* and has CAs everywhere above its leaf.
LEMMA PathsOfIsPath ==
  ASSUME NEW b \in Seq(Cert)
  PROVE  \A q : q \in PathsOf(b) <=> q \in Seq(Cert) /\ IsPath(b, q)
<1>0. Len(b) \in Nat /\ \A i \in 1..Len(b) : b[i] \in Cert
  BY LenProperties, ElementOfSeq
<1>1. ASSUME NEW q, q \in PathsOf(b)
      PROVE  q \in Seq(Cert) /\ IsPath(b, q)
  <2>0. PICK n \in 0..Len(b)-1 : q \in Stacks(b, n)
    BY <1>1 DEF PathsOf
  <2>1. PICK c \in Leaves(b), cas \in [1..n -> Authorities(b)] : q = <<c>> \o cas
    BY <2>0 DEF Stacks
  <2>2. <<c>> \in Seq(Cert)
    BY <1>0 DEF Leaves, Certs
  <2>3. Authorities(b) \subseteq Cert
    BY <1>0 DEF Authorities, Certs
  <2>4. cas \in Seq(Cert)
    BY <2>3, <1>0, SeqDef
  <2> QED
    BY <1>1, <2>1, <2>2, <2>4, ConcatProperties DEF PathsOf
<1>2. ASSUME NEW q \in Seq(Cert), IsPath(b, q)
      PROVE  q \in PathsOf(b)
  <2> DEFINE n == Len(q) - 1
             cas == [i \in 1..n |-> q[i+1]]
  <2>1. /\ Len(q) \in Nat \ {0}
        /\ \A i \in 1..Len(q) : q[i] \in Certs(b)
    BY <1>2, EmptySeq DEF IsPath, IsClimb, Certs
  <2>2. n \in 0..Len(b)-1
    <3>1. Len(q) <= Cardinality(Certs(b))
      BY <1>2, BundleIsFinite, RepeatFreeIsShort DEF IsPath, IsClimb
    <3> QED
      BY <3>1, <2>1, <1>0, BundleIsFinite
  <2>3. q[1] \in Leaves(b)
    BY <1>2, <2>1 DEF IsPath, IsClimb, Leaves
  <2>4. cas \in [1..n -> Authorities(b)]
    <3>1. ASSUME NEW i \in 1..n
          PROVE  q[i+1] \in Authorities(b)
      <4>1. i \in 1..Len(q)-1 /\ i + 1 \in 1..Len(q)
        BY <2>1
      <4>2. IsParent(q[i], q[i+1])
        BY <1>2, <4>1 DEF IsPath, IsClimb
      <4> QED
        BY <4>1, <4>2, <2>1 DEF IsParent, Authorities
    <3> QED
      BY <3>1
  <2>5. q = <<q[1]>> \o cas
    <3>1. <<q[1]>> \in Seq(Cert) /\ Len(<<q[1]>>) = 1
      BY <2>1, ElementOfSeq
    <3>2. cas \in Seq(Cert) /\ Len(cas) = n
      <4>1. \A i \in 1..n : q[i+1] \in Cert
        BY <2>1, ElementOfSeq
      <4> QED
        BY <4>1, <2>1
    <3>3. /\ <<q[1]>> \o cas \in Seq(Cert)
          /\ Len(<<q[1]>> \o cas) = Len(q)
          /\ \A i \in 1..Len(q) : (<<q[1]>> \o cas)[i] = IF i <= 1 THEN <<q[1]>>[i] ELSE cas[i - 1]
      BY <3>1, <3>2, <2>1, ConcatProperties
    <3>4. \A i \in 1..Len(q) : (<<q[1]>> \o cas)[i] = q[i]
      <4> TAKE i \in 1..Len(q)
      <4>1. CASE i = 1
        BY <4>1, <3>3
      <4>2. CASE i # 1
        <5>1. i - 1 \in 1..n /\ i - 1 + 1 = i
          BY <4>2, <2>1
        <5>2. cas[i - 1] = q[i]
          BY <5>1
        <5> QED
          BY <3>3, <4>2, <5>2, <2>1
      <4> QED
        BY <4>1, <4>2
    <3> QED
      BY <3>3, <3>4, SeqEqual
  <2>6. q \in Stacks(b, n)
    <3> HIDE DEF cas, n
    <3>1. q \in {<<q[1]>> \o t : t \in [1..n -> Authorities(b)]}
      BY <2>4, <2>5
    <3> QED
      BY <2>3, <3>1 DEF Stacks
  <2> QED
    <3> HIDE DEF cas, n
    <3> QED
      BY <1>2, <2>2, <2>6 DEF PathsOf
<1> QED
  BY <1>1, <1>2

\* A path has a leaf, and all of it is in the bundle.
LEMMA PathFacts ==
  ASSUME NEW b \in Seq(Cert), NEW q \in Seq(Cert), IsClimb(b, q)
  PROVE  /\ Len(q) \in Nat
         /\ Len(q) >= 1
         /\ IsLeaf(b, q[1])
         /\ \A i \in 1..Len(q) : q[i] \in Cert /\ \E j \in 1..Len(b) : b[j] = q[i]
<1>1. Len(q) \in Nat /\ Len(q) >= 1
  BY EmptySeq DEF IsClimb
<1>2. ASSUME NEW i \in 1..Len(q)
      PROVE  q[i] \in Cert /\ \E j \in 1..Len(b) : b[j] = q[i]
  <2>1. q[i] \in Certs(q)
    BY DEF Certs
  <2>2. q[i] \in Certs(b)
    BY <2>1 DEF IsClimb
  <2> QED
    BY <2>2, ElementOfSeq DEF Certs
<1> QED
  BY <1>1, <1>2 DEF IsClimb

\* A climb goes up through CAs of the bundle, and its first certificate is
\* named as issuer by nothing in the bundle.
LEMMA ClimbFacts ==
  ASSUME NEW b \in Seq(Cert), NEW q \in Seq(Cert), IsClimb(b, q)
  PROVE  /\ Len(q) \in Nat /\ Len(q) >= 1
         /\ \A i \in 1..Len(q) : q[i] \in Cert /\ q[i] \in Certs(b) /\ Parses(q[i])
         /\ \A i \in 2..Len(q) : is_ca(q[i])
         /\ ~is_ca(q[1])
         /\ \A c \in Certs(b) : Parses(c) => Issuer[c] # Subject[q[1]]
         /\ \A i \in 1..Len(q)-1 : Subject[q[i+1]] = Issuer[q[i]]
         /\ NoRepeats(q)
<1>1. Len(q) \in Nat /\ Len(q) >= 1 /\ IsLeaf(b, q[1])
  BY PathFacts
<1>2. \A i \in 1..Len(q) : q[i] \in Cert /\ q[i] \in Certs(b)
  BY ElementOfSeq DEF IsClimb, Certs
<1>3. \A i \in 1..Len(q)-1 : is_ca(q[i+1]) /\ Subject[q[i+1]] = Issuer[q[i]]
  BY DEF IsClimb, IsParent
<1>4. \A i \in 2..Len(q) : is_ca(q[i])
  <2> TAKE i \in 2..Len(q)
  <2>1. i - 1 \in 1..Len(q)-1 /\ (i - 1) + 1 = i
    BY <1>1
  <2> QED
    BY <2>1, <1>3
<1>5. Parses(q[1]) /\ ~is_ca(q[1]) /\ Subject[q[1]] \notin IssuersOf(b)
  BY <1>1 DEF IsLeaf
<1>6. \A i \in 1..Len(q) : Parses(q[i])
  <2> TAKE i \in 1..Len(q)
  <2>1. i = 1 \/ i \in 2..Len(q)
    BY <1>1
  <2> QED
    BY <2>1, <1>4, <1>5 DEF is_ca
<1> QED
  BY <1>1, <1>2, <1>3, <1>4, <1>5, <1>6 DEF IsClimb, IssuersOf

\* Appending adds one element to what a sequence holds.
LEMMA CertsOfAppend ==
  ASSUME NEW S, NEW s \in Seq(S), NEW x \in S
  PROVE  Certs(Append(s, x)) = Certs(s) \cup {x}
<1>1. /\ Len(s) \in Nat
      /\ Append(s, x) \in Seq(S) /\ Len(Append(s, x)) = Len(s) + 1
      /\ Append(s, x)[Len(s)+1] = x
      /\ \A i \in 1..Len(s) : Append(s, x)[i] = s[i]
  BY LenProperties, AppendProperties
<1>2. 1..Len(s)+1 = (1..Len(s)) \cup {Len(s)+1}
  BY <1>1
<1> DEFINE t == Append(s, x)
<1> HIDE DEF t
<1> QED
  BY <1>1, <1>2 DEF Certs

-----------------------------------------------------------------------------
(* The paths of a bundle, listed *)

\* A bundle has finitely many paths: each is determined by which certificate
\* it has at which place.
LEMMA PathsAreFinite ==
  ASSUME NEW b \in Seq(Cert)
  PROVE  IsFiniteSet(PathsOf(b))
<1> DEFINE Places == (1..Len(b)) \X Certs(b)
           Graph == [q \in PathsOf(b) |-> {<<i, q[i]>> : i \in 1..Len(q)}]
<1>0. Len(b) \in Nat
  BY LenProperties
<1>1. IsFiniteSet(SUBSET Places)
  <2>1. IsFiniteSet(1..Len(b)) /\ IsFiniteSet(Certs(b))
    BY <1>0, FS_Interval, BundleIsFinite
  <2>2. IsFiniteSet(Places)
    BY <2>1, FS_Product
  <2> HIDE DEF Places
  <2> QED
    BY <2>2, FS_SUBSET
<1>2. ASSUME NEW q \in PathsOf(b)
      PROVE  /\ q \in Seq(Cert) /\ Len(q) \in 1..Len(b)
             /\ \A i \in 1..Len(q) : q[i] \in Certs(b)
  <2>1. q \in Seq(Cert) /\ IsClimb(b, q)
    BY PathsOfIsPath DEF IsPath
  <2>2. Len(q) \in Nat /\ Len(q) >= 1 /\ \A i \in 1..Len(q) : q[i] \in Certs(b)
    BY <2>1, ClimbFacts
  <2>3. Len(q) <= Cardinality(Certs(b)) /\ Cardinality(Certs(b)) <= Len(b)
    BY <2>1, BundleIsFinite, RepeatFreeIsShort DEF IsClimb
  <2> QED
    BY <2>1, <2>2, <2>3, <1>0, BundleIsFinite
<1>3. Graph \in [PathsOf(b) -> SUBSET Places]
  <2> SUFFICES ASSUME NEW q \in PathsOf(b), NEW i \in 1..Len(q)
               PROVE  <<i, q[i]>> \in Places
    OBVIOUS
  <2> QED
    BY <1>0, <1>2
<1>4. ASSUME NEW q \in PathsOf(b), NEW r \in PathsOf(b), Graph[q] = Graph[r]
      PROVE  q = r
  <2>1. \A i \in 1..Len(q) : i \in 1..Len(r) /\ q[i] = r[i]
    <3> TAKE i \in 1..Len(q)
    <3>1. <<i, q[i]>> \in Graph[q]
      OBVIOUS
    <3>2. <<i, q[i]>> \in {<<j, r[j]>> : j \in 1..Len(r)}
      BY <3>1, <1>4
    <3> QED
      BY <3>2
  <2>2. \A i \in 1..Len(r) : i \in 1..Len(q)
    <3> TAKE i \in 1..Len(r)
    <3>1. <<i, r[i]>> \in Graph[r]
      OBVIOUS
    <3>2. <<i, r[i]>> \in {<<j, q[j]>> : j \in 1..Len(q)}
      BY <3>1, <1>4
    <3> QED
      BY <3>2
  <2>3. Len(q) \in Nat /\ Len(r) \in Nat /\ Len(q) >= 1 /\ Len(r) >= 1
    BY <1>2, <1>0
  <2>4. Len(q) = Len(r)
    <3>1. Len(q) \in 1..Len(r) /\ Len(r) \in 1..Len(q)
      BY <2>1, <2>2, <2>3
    <3> QED
      BY <3>1, <2>3
  <2> QED
    BY <2>1, <2>4, <1>2, SeqEqual
<1>5. Graph \in Injection(PathsOf(b), SUBSET Places)
  <2> HIDE DEF Graph, Places
  <2> QED
    BY <1>3, <1>4 DEF Injection, IsInjective
<1> QED
  <2> HIDE DEF Graph, Places
  <2> QED
    BY <1>1, <1>5, FS_Injection

\* A listing of a finite set is a sequence of its elements that leaves none
\* out.
LEMMA ListingFacts ==
  ASSUME NEW S, IsFiniteSet(S), NEW q \in Listings(S)
  PROVE  q \in Seq(S) /\ Len(q) = Cardinality(S) /\ Certs(q) = S /\ NoRepeats(q)
<1> DEFINE n == Cardinality(S)
<1>1. n \in Nat
  BY FS_CardinalityType
<1>2. q \in [1..n -> S] /\ NoRepeats(q)
  BY DEF Listings
<1>3. q \in Seq(S) /\ Len(q) = n
  BY <1>1, <1>2
<1>4. q \in Injection(1..n, S)
  BY <1>2, <1>3 DEF Injection, IsInjective, NoRepeats
<1>5. IsFiniteSet(1..n) /\ Cardinality(1..n) = Cardinality(S)
  BY <1>1, FS_Interval
<1>6. q \in Surjection(1..n, S)
  BY <1>4, <1>5, FS_Injection
<1>7. Certs(q) = S
  BY <1>3, <1>6 DEF Surjection, Certs
<1> QED
  BY <1>2, <1>3, <1>7

-----------------------------------------------------------------------------
(* The root of a path *)

\* find_root picks the last certificate of a path that ends in its only
\* self-signed CA.
LEMMA RootIsLast ==
  ASSUME NEW p \in Seq(Cert), Len(p) >= 1, SingleRoot(p),
         is_ca(Last(p)), is_self_signed(Last(p))
  PROVE  find_root(p) = {Last(p)}
<1> DEFINE n == Len(p)
           Anchor(i) == is_ca(p[i]) /\ is_self_signed(p[i])
           Firsts == {k \in 1..n : Anchor(k) /\ \A j \in 1..k-1 : ~Anchor(j)}
<1>1. n \in Nat /\ n \in 1..n /\ Last(p) = p[n] /\ Anchor(n)
  BY LenProperties DEF Last
<1>2. \A i \in 1..n : Anchor(i) => i = n
  BY <1>1 DEF SingleRoot
<1>3. Firsts = {n}
  <2> HIDE DEF Anchor
  <2> QED
    BY <1>1, <1>2
<1>4. find_root(p) = {p[i] : i \in Firsts}
  <2>1. {p[i] : i \in Firsts} # {}
    <3> HIDE DEF Firsts
    <3> QED
      BY <1>3
  <2> QED
    BY <2>1 DEF find_root, FirstWith
<1> QED
  <2> HIDE DEF Firsts
  <2> QED
    BY <1>1, <1>3, <1>4

\* If find_root answers at all, the path holds a CA.
LEMMA RootIsCA ==
  ASSUME NEW p, find_root(p) # {}
  PROVE  \E i \in 1..Len(p) : is_ca(p[i])
  BY DEF find_root, FirstWith

\* Where no two certificates of a climb share a name, at most its last is
\* self-signed.
LEMMA DistinctIsSingle ==
  ASSUME NEW b \in Seq(Cert), NEW p \in Seq(Cert), IsClimb(b, p), DistinctNames(p)
  PROVE  SingleRoot(p)
<1>1. ASSUME NEW i \in 1..Len(p), is_self_signed(p[i])
      PROVE  i = Len(p)
  <2> SUFFICES ASSUME i # Len(p) PROVE FALSE
    OBVIOUS
  <2>0. Len(p) \in Nat
    BY LenProperties
  <2>1. i \in 1..Len(p)-1 /\ i + 1 \in 1..Len(p) /\ i + 1 # i
    BY <2>0
  <2>2. Subject[p[i+1]] = Issuer[p[i]]
    BY <2>1, ClimbFacts
  <2>3. Subject[p[i+1]] = Subject[p[i]]
    BY <2>2, <1>1 DEF is_self_signed
  <2> QED
    BY <2>1, <2>3 DEF DistinctNames
<1> QED
  BY <1>1 DEF SingleRoot

-----------------------------------------------------------------------------
(* OpenSSL's answer about a path *)

\* What verify_chain hands over between the leaf and the anchor.
Between(p) == SubSeq(p, 2, Len(p) - 1)

\* The chains OpenSSL may build from a path.
BuiltFor(p, ex) == Built(p[1], Between(p), Last(p), ex)

LEMMA BetweenFacts ==
  ASSUME NEW p \in Seq(Cert), Len(p) >= 2
  PROVE  /\ Between(p) \in Seq(Cert)
         /\ Len(Between(p)) = Len(p) - 2
         /\ \A j \in 1..Len(p)-2 : Between(p)[j] = p[j+1]
         /\ \A c \in Certs(Between(p)) : \E j \in 2..Len(p)-1 : c = p[j]
<1>0. Len(p) \in Nat
  BY LenProperties
<1>1. /\ Between(p) \in Seq(Cert)
      /\ Len(Between(p)) = Len(p) - 2
      /\ \A j \in 1..Len(p)-2 : Between(p)[j] = p[j+1]
  <2> DEFINE n == Len(p) - 1
  <2>1. n \in Int /\ 1 <= n /\ \A i \in 2..n : p[i] \in Cert
    BY <1>0, ElementOfSeq
  <2> HIDE DEF n
  <2>2. /\ SubSeq(p, 2, n) \in Seq(Cert)
        /\ Len(SubSeq(p, 2, n)) = IF 2 <= n THEN n - 2 + 1 ELSE 0
        /\ \A i \in 1..n-2+1 : SubSeq(p, 2, n)[i] = p[2+i-1]
    BY <2>1, SubSeqProperties
  <2>3. SubSeq(p, 2, n) = Between(p) /\ n - 1 = Len(p) - 2
    BY <1>0 DEF Between, n
  <2>4. Len(SubSeq(p, 2, n)) = n - 1
    BY <2>1, <2>2
  <2>5. \A i \in 1..n-1 : SubSeq(p, 2, n)[i] = p[i+1]
    <3> TAKE i \in 1..n-1
    <3>1. i \in 1..n-2+1 /\ 2 + i - 1 = i + 1
      BY <2>1
    <3> QED
      BY <2>2, <3>1
  <2> QED
    BY <2>2, <2>3, <2>4, <2>5
<1>2. ASSUME NEW c \in Certs(Between(p))
      PROVE  \E j \in 2..Len(p)-1 : c = p[j]
  <2>1. PICK j \in 1..Len(p)-2 : c = p[j+1]
    BY <1>1 DEF Certs
  <2> QED
    BY <2>1, <1>0
<1> QED
  BY <1>1, <1>2

\* A chain OpenSSL builds from a path starts at its leaf, goes through
\* intermediates of the path, repeats none, and stops at the first certificate
\* that a trusted one may have issued.
LEMMA BuiltFacts ==
  ASSUME NEW p \in Seq(Cert), Len(p) >= 2, NEW ex, NEW s \in BuiltFor(p, ex)
  PROVE  /\ s \in Seq(Cert) /\ Len(s) >= 1 /\ Len(s) <= Len(p) - 1
         /\ s[1] = p[1] /\ NoRepeats(s)
         /\ \A i \in 2..Len(s) : \E j \in 2..Len(p)-1 : s[i] = p[j]
         /\ \A i \in 1..Len(s)-1 :
               ~Ends(s[i], Last(p)) /\ MayIssue(s[i+1], s[i])
         /\ Ends(Last(s), Last(p)) \/ Issuers(Between(p), s, Last(s)) = {}
         /\ \A i \in 1..Len(s) : s[i] \in Certs(p)
<1>0. Len(p) \in Nat /\ p[1] \in Cert
  BY LenProperties, ElementOfSeq
<1>a. PICK n \in 0..Len(Between(p)) :
          s \in {<<p[1]>> \o rest : rest \in [1..n -> Certs(Between(p))]}
  BY DEF BuiltFor, Built
<1>1. PICK rest \in [1..n -> Certs(Between(p))] : s = <<p[1]>> \o rest
  BY <1>a
<1>2. n \in Nat /\ n <= Len(p) - 2
  BY <1>0, BetweenFacts
<1>3. \A i \in 1..n : rest[i] \in Cert /\ \E j \in 2..Len(p)-1 : rest[i] = p[j]
  <2> TAKE i \in 1..n
  <2>1. rest[i] \in Certs(Between(p))
    BY <1>1
  <2>2. PICK j \in 2..Len(p)-1 : rest[i] = p[j]
    BY <2>1, BetweenFacts
  <2>3. p[j] \in Cert
    BY <1>0, <2>2, ElementOfSeq
  <2> QED
    BY <2>2, <2>3
<1>4. rest \in Seq(Cert) /\ Len(rest) = n
  BY <1>1, <1>2, <1>3
<1>5. <<p[1]>> \in Seq(Cert) /\ Len(<<p[1]>>) = 1 /\ <<p[1]>>[1] = p[1]
  BY <1>0
<1>6. /\ s \in Seq(Cert) /\ Len(s) = n + 1
      /\ s[1] = p[1]
      /\ \A i \in 2..n+1 : s[i] = rest[i-1]
  BY <1>1, <1>2, <1>4, <1>5, ConcatProperties
<1>7. \A i \in 2..Len(s) : \E j \in 2..Len(p)-1 : s[i] = p[j]
  <2> TAKE i \in 2..Len(s)
  <2>1. i - 1 \in 1..n /\ s[i] = rest[i-1]
    BY <1>2, <1>6
  <2> QED
    BY <2>1, <1>3
<1>8. /\ NoRepeats(s)
      /\ \A i \in 1..Len(s)-1 :
            /\ ~Ends(s[i], Last(p))
            /\ \E j \in Taken(Between(p), SubSeq(s, 1, i), s[i], ex) : s[i+1] = Between(p)[j]
      /\ Ends(Last(s), Last(p)) \/ Issuers(Between(p), s, Last(s)) = {}
  BY DEF BuiltFor, Built
<1>9. \A i \in 1..Len(s)-1 : MayIssue(s[i+1], s[i])
  BY <1>8 DEF Taken, Issuers
<1>10. \A i \in 1..Len(s) : s[i] \in Certs(p)
  <2> TAKE i \in 1..Len(s)
  <2>1. i = 1 \/ i \in 2..Len(s)
    BY <1>2, <1>6
  <2>2. \E j \in 1..Len(p) : s[i] = p[j]
    <3>1. CASE i = 1
      <4>1. 1 \in 1..Len(p) /\ s[1] = p[1]
        BY <1>0, <1>6
      <4> QED
        BY <3>1, <4>1
    <3>2. CASE i \in 2..Len(s)
      <4>1. PICK j \in 2..Len(p)-1 : s[i] = p[j]
        BY <3>2, <1>7
      <4> QED
        BY <4>1, <1>0
    <3> QED
      BY <2>1, <3>1, <3>2
  <2> QED
    BY <2>2 DEF Certs
<1> QED
  BY <1>2, <1>6, <1>7, <1>8, <1>9, <1>10

-----------------------------------------------------------------------------
(* Where no CA of the machine takes part *)

\* The anchor is then the only trusted issuer there is.
LEMMA OfferedAlone ==
  ASSUME NEW p, NEW c \in Certs(p), Unaided(p)
  PROVE  /\ Offered(c, Last(p)) = {t \in {Last(p)} : MayIssue(t, c)}
         /\ Ends(c, Last(p)) <=> SelfIssued(c) \/ MayIssue(Last(p), c)
<1>1. Offered(c, Last(p)) = {t \in {Last(p)} : MayIssue(t, c)}
  <2>1. CASE Subject[Last(p)] = Issuer[c]
    BY <2>1 DEF Offered
  <2>2. CASE Subject[Last(p)] # Issuer[c]
    <3>1. \A t \in System : ~MayIssue(t, c)
      BY <2>2 DEF Unaided, MayIssue
    <3>2. ~MayIssue(Last(p), c)
      BY <2>2 DEF MayIssue
    <3> QED
      BY <2>2, <3>1, <3>2 DEF Offered
  <2> QED
    BY <2>1, <2>2
<1> QED
  BY <1>1 DEF Ends

\* Above the untrusted certificates there is the anchor, or nothing.
LEMMA ClimbsAlone ==
  ASSUME NEW p \in Seq(Cert), Len(p) >= 1, Unaided(p), NEW c \in Certs(p), NEW ex
  PROVE  Climbs(c, Last(p), ex) =
            IF SelfIssued(c) \/ ~MayIssue(Last(p), c) THEN {<<>>} ELSE {<<Last(p)>>}
<1> DEFINE r == Last(p)
           Trusted == System \cup {r}
<1>1. r \in Certs(p)
  <2>1. Len(p) \in 1..Len(p)
    BY LenProperties
  <2> QED
    BY <2>1 DEF Last, Certs
<1>2. /\ Offered(c, r) = {t \in {r} : MayIssue(t, c)}
      /\ Offered(r, r) = {t \in {r} : SelfIssued(t)}
      /\ Ends(r, r) => SelfIssued(r)
  BY <1>1, OfferedAlone DEF SelfIssued
<1> HIDE DEF r
<1>3. CASE SelfIssued(c) \/ ~MayIssue(r, c)
  <2>1. SelfIssued(c) \/ Offered(c, r) = {}
    BY <1>2, <1>3
  <2> QED
    BY <2>1, <1>3 DEF Climbs, r
<1>4. CASE ~SelfIssued(c) /\ MayIssue(r, c)
  <2>0. Offered(c, r) = {r} /\ Preferred(c, r, ex) = {r}
    <3>1. Offered(c, r) = {r}
      BY <1>2, <1>4
    <3> QED
      BY <3>1 DEF Preferred
  <2>1. ASSUME NEW t \in Climbs(c, r, ex)
        PROVE  t = <<r>>
    <3>a. t \in UNION {[1..n -> Trusted] : n \in 1..Cardinality(Trusted)+1}
      <4> DEFINE Some == UNION {[1..n -> Trusted] : n \in 1..Cardinality(Trusted)+1}
                 Sound1(u) ==
                    /\ u[1] \in Preferred(c, r, ex)
                    /\ \A i \in 1..Len(u)-1 :
                          /\ ~SelfIssued(u[i])
                          /\ u[i+1] \in Preferred(u[i], r, ex)
                    /\ \A i, j \in 1..Len(u)-1 : u[i] = u[j] => i = j
                 Sound2(u) == Ends(Last(u), r) => SelfIssued(Last(u)) \/ ~NoRepeats(u)
      <4>1. Climbs(c, r, ex) = {u \in Some : Sound1(u) /\ Sound2(u)}
        BY <1>4, <2>0 DEF Climbs
      <4> HIDE DEF Some, Sound1, Sound2
      <4>2. t \in Some
        BY <4>1
      <4> QED
        BY <4>2 DEF Some
    <3>1. PICK n \in 1..Cardinality(Trusted)+1 : t \in [1..n -> Trusted]
      <4> HIDE DEF Trusted
      <4> QED
        BY <3>a
    <3>2. /\ t[1] = r
          /\ \A i \in 1..Len(t)-1 : ~SelfIssued(t[i]) /\ t[i+1] \in Preferred(t[i], r, ex)
      BY <1>4, <2>0 DEF Climbs
    <3>3. n \in Nat /\ n >= 1 /\ Len(t) = n
      <4>1. IsFiniteSet(Trusted) /\ Cardinality(Trusted) \in Nat
        BY VerifyAssumption, FS_AddElement, FS_CardinalityType
      <4>2. n \in Nat /\ n >= 1
        BY <4>1
      <4> HIDE DEF Trusted
      <4> QED
        BY <3>1, <4>2
    <3>4. n = 1
      <4> SUFFICES ASSUME n # 1 PROVE FALSE
        OBVIOUS
      <4>1. 1 \in 1..Len(t)-1
        BY <3>3
      <4>2. ~SelfIssued(r) /\ t[1+1] \in Preferred(r, r, ex)
        BY <3>2, <4>1
      <4>3. Offered(r, r) = {}
        BY <4>2, <1>2
      <4> QED
        BY <4>2, <4>3 DEF Preferred
    <3> HIDE DEF Trusted
    <3> QED
      BY <3>1, <3>2, <3>4
  <2>2. <<r>> \in Climbs(c, r, ex)
    <3>1. 1 \in 1..Cardinality(Trusted)+1
      <4>1. IsFiniteSet(Trusted) /\ Cardinality(Trusted) \in Nat
        BY VerifyAssumption, FS_AddElement, FS_CardinalityType
      <4> HIDE DEF Trusted
      <4> QED
        BY <4>1
    <3>2. <<r>> \in [1..1 -> Trusted] /\ Len(<<r>>) = 1 /\ <<r>>[1] = r
      OBVIOUS
    <3> DEFINE u == <<r>>
    <3> HIDE DEF u
    <3>3. Last(u) = r
      BY <3>2 DEF Last, u
    <3>4. u \in UNION {[1..n -> Trusted] : n \in 1..Cardinality(Trusted)+1}
      <4> HIDE DEF Trusted
      <4> QED
        BY <3>1, <3>2 DEF u
    <3>5. u[1] \in Preferred(c, r, ex) /\ 1..Len(u)-1 = {}
      BY <3>2, <2>0 DEF u
    <3>6. u \in Climbs(c, r, ex)
      BY <1>2, <1>4, <2>0, <3>3, <3>4, <3>5 DEF Climbs
    <3> QED
      BY <3>6 DEF u
  <2> QED
    BY <1>4, <2>1, <2>2 DEF r
<1> QED
  BY <1>3, <1>4 DEF r

\* The messages about a chain built as far as s, where only the anchor is
\* trusted.
AloneJudgement(s, anchor, ex) ==
    CASE SelfIssued(Last(s)) -> {SelfSignedText}
      [] ~SelfIssued(Last(s)) /\ MayIssue(anchor, Last(s)) ->
            IF SelfIssued(anchor) THEN Faults(Append(s, anchor), ex) ELSE {NoIssuer}
      [] OTHER -> {NoLocal}

\* What a chain that starts on the path is told off for.
LEMMA JudgedAlone ==
  ASSUME NEW p \in Seq(Cert), Len(p) >= 1, Unaided(p), NEW ex,
         NEW s \in Seq(Cert), Last(s) \in Certs(p)
  PROVE  {Judgement(s, t, ex) : t \in Climbs(Last(s), Last(p), ex)} =
            {AloneJudgement(s, Last(p), ex)}
<1> DEFINE r == Last(p)
           c == Last(s)
<1>0. r \in Cert
  BY LenProperties, ElementOfSeq DEF Last
<1>1. Climbs(c, r, ex) = IF SelfIssued(c) \/ ~MayIssue(r, c) THEN {<<>>} ELSE {<<r>>}
  BY ClimbsAlone
<1> HIDE DEF r
<1>2. CASE SelfIssued(c) \/ ~MayIssue(r, c)
  <2>1. Judgement(s, <<>>, ex) = AloneJudgement(s, r, ex)
    BY <1>2 DEF Judgement, AloneJudgement
  <2> QED
    BY <1>1, <1>2, <2>1 DEF r
<1>3. CASE ~SelfIssued(c) /\ MayIssue(r, c)
  <2> DEFINE u == <<r>>
  <2>1. u # <<>> /\ Last(u) = r /\ NoRepeats(u)
    BY DEF Last, NoRepeats
  <2>2. s \o u = Append(s, r)
    BY <1>0
  <2> HIDE DEF u
  <2>3. Judgement(s, u, ex) = AloneJudgement(s, r, ex)
    BY <1>3, <2>1, <2>2 DEF Judgement, AloneJudgement
  <2>4. Climbs(c, r, ex) = {u}
    BY <1>1, <1>3 DEF u
  <2> QED
    BY <2>3, <2>4 DEF r
<1> QED
  BY <1>2, <1>3

\* So the answers are the judgements on the chains of the path's own
\* certificates up to the anchor.
LEMMA AnsweredAlone ==
  ASSUME NEW p \in Seq(Cert), Len(p) >= 2, Unaided(p), NEW ex
  PROVE  verify_chain(p, ex) = {AloneJudgement(s, Last(p), ex) : s \in BuiltFor(p, ex)}
<1>1. ASSUME NEW s \in BuiltFor(p, ex)
      PROVE  {Judgement(s, t, ex) : t \in Climbs(Last(s), Last(p), ex)} =
                {AloneJudgement(s, Last(p), ex)}
  <2>1. s \in Seq(Cert) /\ Len(s) \in 1..Len(s) /\ \A i \in 1..Len(s) : s[i] \in Certs(p)
    BY BuiltFacts, LenProperties
  <2>2. Last(s) \in Certs(p)
    BY <2>1 DEF Last
  <2>3. Len(p) \in Nat /\ Len(p) >= 1
    BY LenProperties
  <2> QED
    BY <2>1, <2>2, <2>3, JudgedAlone
<1>2. verify_chain(p, ex) =
        UNION {{Judgement(s, t, ex) : t \in Climbs(Last(s), Last(p), ex)} :
                  s \in BuiltFor(p, ex)}
  BY DEF verify_chain, Judgements, BuiltFor, Between
<1> DEFINE J(s) == {Judgement(s, t, ex) : t \in Climbs(Last(s), Last(p), ex)}
           A(s) == AloneJudgement(s, Last(p), ex)
<1>3. (\A s \in BuiltFor(p, ex) : J(s) = {A(s)}) /\ verify_chain(p, ex) = UNION {J(s) : s \in BuiltFor(p, ex)}
  BY <1>1, <1>2
<1> HIDE DEF J, A
<1>4. verify_chain(p, ex) = {A(s) : s \in BuiltFor(p, ex)}
  BY <1>3
<1> QED
  BY <1>4 DEF A

\* The chains then stop at the first certificate the anchor may have issued.
LEMMA BuiltAlone ==
  ASSUME NEW p \in Seq(Cert), Len(p) >= 2, Unaided(p), NEW ex, NEW s \in BuiltFor(p, ex)
  PROVE  /\ \A i \in 1..Len(s)-1 : ~SelfIssued(s[i]) /\ ~MayIssue(Last(p), s[i])
         /\ \/ SelfIssued(Last(s)) \/ MayIssue(Last(p), Last(s))
            \/ Issuers(Between(p), s, Last(s)) = {}
<1>1. /\ Len(s) \in Nat /\ Len(s) >= 1
      /\ \A i \in 1..Len(s)-1 : ~Ends(s[i], Last(p))
      /\ Ends(Last(s), Last(p)) \/ Issuers(Between(p), s, Last(s)) = {}
      /\ \A i \in 1..Len(s) : s[i] \in Certs(p)
  BY BuiltFacts, LenProperties
<1>2. ASSUME NEW i \in 1..Len(s)
      PROVE  Ends(s[i], Last(p)) <=> SelfIssued(s[i]) \/ MayIssue(Last(p), s[i])
  <2>1. s[i] \in Certs(p)
    BY <1>1
  <2> QED
    BY <2>1, OfferedAlone
<1>3. \A i \in 1..Len(s)-1 : i \in 1..Len(s)
  BY <1>1
<1>4. Len(s) \in 1..Len(s)
  BY <1>1
<1> QED
  BY <1>1, <1>2, <1>3, <1>4 DEF Last

-----------------------------------------------------------------------------

\* Vouching ages well: fewer lapsed certificates, no less vouched for.
LEMMA VouchesMonotone ==
  ASSUME NEW p, NEW root, NEW ex, NEW old, old \subseteq ex, Vouches(p, root, ex)
  PROVE  Vouches(p, root, old)
<1>a. PICK q \in UNION {[1..n -> Certs(p) \ ex] : n \in 1..Len(p)} :
          /\ q[1] = p[1]
          /\ Last(q) = root
          /\ \A i \in 1..Len(q)-1 : Signed(q[i], q[i+1]) /\ is_ca(q[i+1])
  BY DEF Vouches
<1>1. PICK n \in 1..Len(p) : q \in [1..n -> Certs(p) \ ex]
  OBVIOUS
<1>2. q \in [1..n -> Certs(p) \ old]
  BY <1>1
<1> QED
  BY <1>a, <1>2 DEF Vouches

\* If OpenSSL has no complaint, the certificates of the path hold an unbroken
\* chain of signatures up to the anchor - the chain OpenSSL built, which need
\* not be the path.
LEMMA NoComplaintVouches ==
  ASSUME NEW b \in Seq(Cert), NEW p \in Seq(Cert), IsClimb(b, p), Len(p) >= 2,
         Unaided(p), NEW ex, {} \in verify_chain(p, ex)
  PROVE  Vouches(p, Last(p), ex)
<1> DEFINE r == Last(p)
<1>0. Len(p) \in Nat /\ r \in Cert /\ r \in Certs(p) /\ is_ca(r)
  <2>1. Len(p) \in Nat /\ Len(p) \in 1..Len(p) /\ Len(p) \in 2..Len(p)
    BY LenProperties
  <2> QED
    BY <2>1, ClimbFacts DEF Last, Certs
<1>1. PICK s \in BuiltFor(p, ex) : AloneJudgement(s, r, ex) = {}
  BY AnsweredAlone
<1> DEFINE q == Append(s, r)
<1>2. ~SelfIssued(Last(s)) /\ MayIssue(r, Last(s)) /\ SelfIssued(r) /\ Faults(q, ex) = {}
  BY <1>1 DEF AloneJudgement
<1>3. /\ s \in Seq(Cert) /\ Len(s) \in Nat /\ Len(s) >= 1 /\ Len(s) <= Len(p) - 1
      /\ s[1] = p[1]
      /\ \A i \in 2..Len(s) : \E j \in 2..Len(p)-1 : s[i] = p[j]
      /\ \A i \in 1..Len(s)-1 : MayIssue(s[i+1], s[i])
  BY BuiltFacts, LenProperties
<1>4. /\ q \in Seq(Cert) /\ Len(q) = Len(s) + 1 /\ q[Len(s)+1] = r
      /\ \A i \in 1..Len(s) : q[i] = s[i]
  BY <1>0, <1>3, AppendProperties
<1>5. /\ Certs(q) \cap ex = {}
      /\ Certs(q) \subseteq Identified
      /\ \A i \in 1..Len(q)-1 : SubjectKey[q[i+1]] = SignerKey[q[i]]
  <2> DEFINE All == {HasExpired, InvalidCA, MissingKeyId, BadSignature}
  <2>1. \A m \in All : m \notin Faults(q, ex)
    BY <1>2
  <2>2. /\ HasExpired \in All /\ MissingKeyId \in All /\ BadSignature \in All
    OBVIOUS
  <2>3. HasExpired # MissingKeyId /\ HasExpired # BadSignature /\ MissingKeyId # BadSignature
    BY DEF HasExpired, MissingKeyId, BadSignature
  <2> HIDE DEF q
  <2> QED
    BY <2>1, <2>2, <2>3 DEF Faults
<1>6. \A i \in 2..Len(q) : \E j \in 2..Len(p) : q[i] = p[j]
  <2> TAKE i \in 2..Len(q)
  <2>1. CASE i = Len(s) + 1
    BY <2>1, <1>0, <1>3, <1>4 DEF Last
  <2>2. CASE i # Len(s) + 1
    <3>1. i \in 2..Len(s) /\ q[i] = s[i]
      BY <2>2, <1>3, <1>4
    <3>2. PICK j \in 2..Len(p)-1 : s[i] = p[j]
      BY <3>1, <1>3
    <3> QED
      BY <3>1, <3>2, <1>0
  <2> QED
    BY <2>1, <2>2
<1>7. q[1] = p[1] /\ Last(q) = r
  BY <1>3, <1>4 DEF Last
<1>8. \A i \in 1..Len(q) : q[i] \in Certs(p) \ ex
  <2> TAKE i \in 1..Len(q)
  <2>1. q[i] \notin ex
    BY <1>5 DEF Certs
  <2>2. CASE i = 1
    <3>1. 1 \in 1..Len(p)
      BY <1>0
    <3> QED
      BY <2>1, <2>2, <3>1, <1>7 DEF Certs
  <2>3. CASE i # 1
    <3>1. i \in 2..Len(q)
      BY <2>3, <1>3, <1>4
    <3>2. PICK j \in 2..Len(p) : q[i] = p[j]
      BY <3>1, <1>6
    <3>3. j \in 1..Len(p)
      BY <1>0
    <3> QED
      BY <2>1, <3>2, <3>3 DEF Certs
  <2> QED
    BY <2>2, <2>3
<1>9. \A i \in 1..Len(q)-1 : MayIssue(q[i+1], q[i])
  <2> TAKE i \in 1..Len(q)-1
  <2>1. CASE i = Len(s)
    BY <2>1, <1>2, <1>3, <1>4 DEF Last
  <2>2. CASE i # Len(s)
    <3>1. i \in 1..Len(s)-1 /\ i \in 1..Len(s) /\ i + 1 \in 1..Len(s)
      BY <2>2, <1>3, <1>4
    <3> QED
      BY <3>1, <1>3, <1>4
  <2> QED
    BY <2>1, <2>2
<1>10. \A i \in 1..Len(q)-1 : Signed(q[i], q[i+1]) /\ is_ca(q[i+1])
  <2> TAKE i \in 1..Len(q)-1
  <2>1. i + 1 \in 2..Len(q)
    BY <1>3, <1>4
  <2>2. is_ca(q[i+1])
    <3>1. PICK j \in 2..Len(p) : q[i+1] = p[j]
      BY <2>1, <1>6
    <3> QED
      BY <3>1, ClimbFacts
  <2> QED
    BY <2>2, <1>5, <1>9 DEF Signed, MayIssue
<1>11. SignsItself(r)
  <2>1. r \in Identified
    <3>1. Len(s) + 1 \in 1..Len(q)
      BY <1>3, <1>4
    <3> QED
      BY <3>1, <1>4, <1>5 DEF Certs
  <2> QED
    BY <2>1, <1>2 DEF SelfIssued, MayIssue, SignsItself
<1>12. q \in UNION {[1..n -> Certs(p) \ ex] : n \in 1..Len(p)}
  <2>1. Len(q) \in 1..Len(p)
    BY <1>0, <1>3, <1>4
  <2>2. q \in [1..Len(q) -> Certs(p) \ ex]
    BY <1>4, <1>8, LenProperties
  <2> HIDE DEF q
  <2> QED
    BY <2>1, <2>2
<1> QED
  <2> HIDE DEF q
  <2> QED
    BY <1>0, <1>7, <1>10, <1>11, <1>12 DEF Vouches

\* Where no two certificates share a name, OpenSSL has no choice: what it
\* builds is the path, as far as it gets.
LEMMA BuiltFollows ==
  ASSUME NEW b \in Seq(Cert), NEW p \in Seq(Cert), IsClimb(b, p), Len(p) >= 2,
         DistinctNames(p), NEW ex, NEW s \in BuiltFor(p, ex)
  PROVE  \A k \in 1..Len(s) : s[k] = p[k]
<1> DEFINE Off == {k \in 1..Len(s) : s[k] # p[k]}
<1>0. Len(p) \in Nat
  BY LenProperties
<1>1. /\ Len(s) \in Nat /\ Len(s) <= Len(p) - 1 /\ s[1] = p[1]
      /\ \A i \in 2..Len(s) : \E j \in 2..Len(p)-1 : s[i] = p[j]
      /\ \A i \in 1..Len(s)-1 : MayIssue(s[i+1], s[i])
  BY BuiltFacts, LenProperties
<1> SUFFICES ASSUME Off # {} PROVE FALSE
  OBVIOUS
<1>2. PICK k \in Off : \A h \in Off : k <= h
  <2>1. Off \in SUBSET Nat
    OBVIOUS
  <2> HIDE DEF Off
  <2> QED
    BY <2>1, Least
<1>3. k \in 2..Len(s) /\ k - 1 \in 1..Len(s)-1 /\ (k - 1) + 1 = k
  BY <1>1
<1>4. s[k-1] = p[k-1]
  <2>1. k - 1 \notin Off
    BY <1>2, <1>3
  <2> QED
    BY <2>1, <1>1, <1>3
<1>5. PICK j \in 2..Len(p)-1 : s[k] = p[j]
  BY <1>1, <1>3
<1>6. Subject[p[j]] = Issuer[p[k-1]]
  BY <1>1, <1>3, <1>4, <1>5 DEF MayIssue
<1>7. Subject[p[k]] = Issuer[p[k-1]]
  <2>1. k - 1 \in 1..Len(p)-1
    BY <1>0, <1>1, <1>3
  <2>2. \A i \in 1..Len(p)-1 : Subject[p[i+1]] = Issuer[p[i]]
    BY ClimbFacts
  <2> QED
    BY <2>1, <2>2, <1>3
<1>8. j = k
  <2>1. j \in 1..Len(p) /\ k \in 1..Len(p)
    BY <1>0, <1>1, <1>3
  <2> QED
    BY <2>1, <1>6, <1>7 DEF DistinctNames
<1> QED
  BY <1>5, <1>8

\* There, a lapsed certificate anywhere on the path draws a complaint.
LEMMA LapsedIsRejected ==
  ASSUME NEW b \in Seq(Cert), NEW p \in Seq(Cert), IsClimb(b, p), Len(p) >= 2,
         Unaided(p), DistinctNames(p), NEW ex, {} \in verify_chain(p, ex)
  PROVE  Certs(p) \cap ex = {}
<1> DEFINE r == Last(p)
<1>0. Len(p) \in Nat /\ r = p[Len(p)] /\ r \in Cert
  <2>1. Len(p) \in 1..Len(p)
    BY LenProperties
  <2> QED
    BY <2>1, LenProperties, ElementOfSeq DEF Last
<1>1. PICK s \in BuiltFor(p, ex) : AloneJudgement(s, r, ex) = {}
  BY AnsweredAlone
<1> DEFINE q == Append(s, r)
<1>2. MayIssue(r, Last(s)) /\ Faults(q, ex) = {}
  BY <1>1 DEF AloneJudgement
<1>3. s \in Seq(Cert) /\ Len(s) \in Nat /\ Len(s) >= 1 /\ Len(s) <= Len(p) - 1
  BY BuiltFacts, LenProperties
<1>4. \A k \in 1..Len(s) : s[k] = p[k]
  BY BuiltFollows
<1>5. Len(s) + 1 = Len(p)
  <2>1. Len(s) \in 1..Len(s) /\ Len(s) \in 1..Len(p)-1 /\ Len(s) + 1 \in 1..Len(p) /\ Len(p) \in 1..Len(p)
    BY <1>0, <1>3
  <2>2. Subject[p[Len(s)+1]] = Issuer[p[Len(s)]]
    BY <2>1, ClimbFacts
  <2>3. Subject[r] = Issuer[p[Len(s)]]
    BY <2>1, <1>2, <1>4 DEF MayIssue, Last
  <2> QED
    BY <2>1, <2>2, <2>3, <1>0 DEF DistinctNames
<1>6. /\ q \in Seq(Cert) /\ Len(q) = Len(p)
      /\ \A i \in 1..Len(p) : q[i] = p[i]
  BY <1>0, <1>3, <1>4, <1>5, AppendProperties
<1>7. Certs(q) = Certs(p)
  <2> HIDE DEF q
  <2> QED
    BY <1>6 DEF Certs
<1>8. HasExpired \notin Faults(q, ex)
  BY <1>2
<1> QED
  <2> HIDE DEF q
  <2> QED
    BY <1>7, <1>8 DEF Faults

\* The messages there are.
Known == {SelfSignedText, NoIssuer, NoLocal, BadSignature, InvalidCA, HasExpired,
          MissingKeyId, TooLong}

LEMMA MessagesAreKnown ==
  ASSUME NEW p, NEW ex, NEW m \in verify_chain(p, ex)
  PROVE  m \subseteq Known
<1>1. PICK s, t : m = Judgement(s, t, ex)
  BY DEF verify_chain, Judgements
<1>2. Faults(s \o t, ex) \subseteq Known
  BY DEF Faults, Known
<1>3. \/ m = {SelfSignedText} \/ m = {NoIssuer} \/ m = {NoLocal} \/ m = {TooLong}
      \/ m = Faults(s \o t, ex)
  BY <1>1 DEF Judgement
<1> QED
  BY <1>2, <1>3 DEF Known

\* What a sound path looks like to OpenSSL.
LEMMA SoundFacts ==
  ASSUME NEW b \in Seq(Cert), NEW p \in Seq(Cert), IsClimb(b, p), Len(p) >= 2,
         NEW ex, Sound(p, ex)
  PROVE  /\ \A i \in 1..Len(p)-1 :
               /\ ~SelfIssued(p[i])
               /\ MayIssue(p[i+1], p[i])
               /\ \A j \in 1..Len(p) : MayIssue(p[j], p[i]) => j = i + 1
         /\ SelfIssued(Last(p))
         /\ Faults(p, ex) = {}
<1>0. Len(p) \in Nat
  BY LenProperties
<1>1. ASSUME NEW i \in 1..Len(p)-1
      PROVE  /\ ~SelfIssued(p[i])
             /\ MayIssue(p[i+1], p[i])
             /\ \A j \in 1..Len(p) : MayIssue(p[j], p[i]) => j = i + 1
  <2>1. i \in 1..Len(p) /\ i + 1 \in 1..Len(p) /\ i # i + 1
    BY <1>0
  <2>2. Signed(p[i], p[i+1])
    BY DEF Sound
  <2>3. MayIssue(p[i+1], p[i])
    BY <2>2 DEF Signed, MayIssue
  <2>4. \A j \in 1..Len(p) : MayIssue(p[j], p[i]) => j = i + 1
    <3>1. \A j \in 1..Len(p) : MayIssue(p[j], p[i]) => Subject[p[j]] = Subject[p[i+1]]
      BY <2>2 DEF Signed, MayIssue
    <3> QED
      BY <3>1, <2>1 DEF Sound, DistinctNames
  <2> QED
    BY <2>1, <2>3, <2>4 DEF SelfIssued
<1>2. SelfIssued(Last(p))
  BY DEF Sound, SignsItself, SelfIssued, MayIssue
<1>3. Faults(p, ex) = {}
  <2>1. Certs(p) \cap ex = {} /\ Certs(p) \subseteq Identified
    BY DEF Sound
  <2>2. \A i \in 2..Len(p) : p[i] \notin Unfit
    <3> TAKE i \in 2..Len(p)
    <3>1. i \in 1..Len(p)
      BY <1>0
    <3> QED
      BY <3>1 DEF Sound, Certs
  <2>3. \A i \in 1..Len(p)-1 : SubjectKey[p[i+1]] = SignerKey[p[i]]
    BY DEF Sound, Signed
  <2> QED
    BY <2>1, <2>2, <2>3 DEF Faults
<1> QED
  BY <1>1, <1>2, <1>3

\* From a sound path OpenSSL can build the path ...
LEMMA SoundIsBuilt ==
  ASSUME NEW b \in Seq(Cert), NEW p \in Seq(Cert), IsClimb(b, p), Len(p) >= 2,
         Unaided(p), NEW ex, Sound(p, ex)
  PROVE  BuiltFor(p, ex) # {}
<1> DEFINE n == Len(p) - 2
           u == Between(p)
           rest == [i \in 1..n |-> p[i+1]]
           s == <<p[1]>> \o rest
<1>0. Len(p) \in Nat /\ n \in Nat /\ Len(p) = n + 2
  BY LenProperties
<1>1. \A i \in 1..Len(p) : p[i] \in Cert
  BY ElementOfSeq
<1>2. Len(u) = n /\ \A j \in 1..n : u[j] = p[j+1]
  BY BetweenFacts
<1> HIDE DEF n, u
<1>3. rest \in Seq(Cert) /\ Len(rest) = n /\ rest \in [1..n -> Certs(u)]
  <2>1. \A i \in 1..n : p[i+1] \in Cert /\ p[i+1] \in Certs(u)
    <3> TAKE i \in 1..n
    <3>1. i + 1 \in 1..Len(p)
      BY <1>0
    <3>2. p[i+1] = u[i] /\ i \in 1..Len(u)
      BY <1>2
    <3> QED
      BY <3>1, <3>2, <1>1 DEF Certs
  <2> QED
    BY <2>1, <1>0
<1>4. /\ s \in Seq(Cert) /\ Len(s) = n + 1
      /\ \A i \in 1..n+1 : s[i] = p[i]
  <2>1. <<p[1]>> \in Seq(Cert) /\ Len(<<p[1]>>) = 1 /\ <<p[1]>>[1] = p[1]
    BY <1>0, <1>1
  <2>2. \A i \in 1..n : rest[i] = p[i+1]
    OBVIOUS
  <2> HIDE DEF rest
  <2>3. /\ s \in Seq(Cert) /\ Len(s) = n + 1
        /\ \A i \in 1..n+1 : s[i] = IF i <= 1 THEN <<p[1]>>[i] ELSE rest[i - 1]
    BY <2>1, <1>0, <1>3, ConcatProperties
  <2>4. \A i \in 1..n+1 : s[i] = p[i]
    <3> TAKE i \in 1..n+1
    <3>1. CASE i = 1
      BY <3>1, <2>1, <2>3
    <3>2. CASE i # 1
      <4>1. i - 1 \in 1..n /\ (i - 1) + 1 = i /\ ~(i <= 1)
        BY <3>2, <1>0
      <4> QED
        BY <4>1, <2>2, <2>3
    <3> QED
      BY <3>1, <3>2
  <2> QED
    BY <2>3, <2>4
<1>5. s \in UNION {{<<p[1]>> \o t : t \in [1..m -> Certs(u)]} : m \in 0..Len(u)}
  <2>1. n \in 0..Len(u)
    BY <1>0, <1>2
  <2>2. s \in {<<p[1]>> \o t : t \in [1..n -> Certs(u)]}
    BY <1>3
  <2> HIDE DEF s
  <2> QED
    BY <2>1, <2>2
<1> HIDE DEF rest, s
<1>6. NoRepeats(s)
  <2>1. NoRepeats(p)
    BY ClimbFacts
  <2> QED
    BY <2>1, <1>0, <1>4 DEF NoRepeats
<1>7. ASSUME NEW i \in 1..n+1
      PROVE  /\ s[i] = p[i]
             /\ ~SelfIssued(s[i])
             /\ MayIssue(p[i+1], s[i])
             /\ \A j \in 1..Len(p) : MayIssue(p[j], s[i]) => j = i + 1
  <2>1. i \in 1..Len(p)-1
    BY <1>0
  <2> QED
    BY <2>1, <1>4, SoundFacts
<1>8. ASSUME NEW i \in 1..n
      PROVE  /\ ~Ends(s[i], Last(p))
             /\ \E j \in Taken(u, SubSeq(s, 1, i), s[i], ex) : s[i+1] = u[j]
  <2>1. i \in 1..n+1 /\ i + 1 \in 1..n+1 /\ i + 1 \in 1..Len(p) /\ Len(p) # i + 1 /\ Len(p) \in 1..Len(p)
    BY <1>0
  <2>2. ~Ends(s[i], Last(p))
    <3>1. ~SelfIssued(s[i]) /\ ~MayIssue(Last(p), s[i])
      BY <2>1, <1>7 DEF Last
    <3>2. s[i] \in Certs(p)
      BY <2>1, <1>0, <1>7 DEF Certs
    <3> QED
      BY <3>1, <3>2, OfferedAlone
  <2> DEFINE t == SubSeq(s, 1, i)
             all == Issuers(u, t, s[i])
  <2>3. /\ Len(t) = i
        /\ \A k \in 1..i : t[k] = p[k]
    <3>1. \A k \in 1..i : s[k] \in Cert /\ k \in 1..n+1
      BY <1>0, <1>4, ElementOfSeq
    <3>2. Len(t) = i - 1 + 1 /\ \A k \in 1..i-1+1 : t[k] = s[1+k-1]
      BY <3>1, SubSeqProperties
    <3>3. \A k \in 1..i : t[k] = s[k]
      <4> TAKE k \in 1..i
      <4>1. k \in 1..i-1+1 /\ 1 + k - 1 = k
        OBVIOUS
      <4> QED
        BY <4>1, <3>2
    <3> QED
      BY <3>1, <3>2, <3>3, <1>4
  <2>4. all = {i}
    <3>1. \A j \in 1..n : MayIssue(u[j], s[i]) => j = i
      <4> TAKE j \in 1..n
      <4>1. j + 1 \in 1..Len(p) /\ u[j] = p[j+1]
        BY <1>0, <1>2
      <4>2. MayIssue(u[j], s[i]) => j + 1 = i + 1
        BY <4>1, <2>1, <1>7
      <4> QED
        BY <4>2
    <3>2. u[i] = p[i+1] /\ MayIssue(u[i], s[i])
      BY <1>2, <1>7, <2>1
    <3>3. u[i] \notin Certs(t)
      <4>1. \A k \in 1..i : p[k] # p[i+1]
        <5> TAKE k \in 1..i
        <5>1. k \in 1..Len(p) /\ k # i + 1
          BY <1>0
        <5> QED
          BY <5>1, <2>1, ClimbFacts DEF NoRepeats
      <4> QED
        BY <4>1, <3>2, <2>3 DEF Certs
    <3> HIDE DEF t
    <3> QED
      BY <3>1, <3>2, <3>3, <1>2 DEF Issuers
  <2>5. Taken(u, t, s[i], ex) = {i}
    <3>1. u[i] \notin ex
      <4>1. p[i+1] \in Certs(p)
        BY <2>1 DEF Certs
      <4> QED
        BY <4>1, <1>2 DEF Sound
    <3> HIDE DEF t
    <3> QED
      BY <2>4, <3>1 DEF Taken
  <2>6. s[i+1] = u[i]
    BY <2>1, <1>2, <1>4
  <2> QED
    BY <2>2, <2>5, <2>6
<1>9. Ends(Last(s), Last(p))
  <2>1. n + 1 \in 1..n+1 /\ n + 1 + 1 = Len(p) /\ n + 1 \in 1..Len(p)
    BY <1>0
  <2>2. MayIssue(Last(p), Last(s)) /\ Last(s) \in Certs(p)
    BY <2>1, <1>4, <1>7 DEF Last, Certs
  <2> QED
    BY <2>2, OfferedAlone
<1>10. s \in Built(p[1], u, Last(p), ex)
  <2>1. Len(s) - 1 = n
    BY <1>0, <1>4
  <2> QED
    BY <2>1, <1>5, <1>6, <1>8, <1>9 DEF Built
<1> QED
  BY <1>10 DEF BuiltFor, u

\* ... and nothing else; so a sound path verifies, whatever else could have
\* been handed over.
LEMMA SoundVerifies ==
  ASSUME NEW b \in Seq(Cert), NEW p \in Seq(Cert), IsClimb(b, p), Len(p) >= 2,
         Unaided(p), NEW ex, Sound(p, ex)
  PROVE  verify_chain(p, ex) = {{}}
<1> DEFINE r == Last(p)
<1>0. Len(p) \in Nat /\ r = p[Len(p)] /\ r \in Cert /\ Len(p) \in 1..Len(p)
  <2>1. Len(p) \in 1..Len(p)
    BY LenProperties
  <2> QED
    BY <2>1, LenProperties, ElementOfSeq DEF Last
<1>1. ASSUME NEW s \in BuiltFor(p, ex)
      PROVE  AloneJudgement(s, r, ex) = {}
  <2>1. s \in Seq(Cert) /\ Len(s) \in Nat /\ Len(s) >= 1 /\ Len(s) <= Len(p) - 1
    BY BuiltFacts, LenProperties
  <2>2. \A k \in 1..Len(s) : s[k] = p[k]
    BY BuiltFollows DEF Sound
  <2>3. Last(s) = p[Len(s)] /\ Len(s) \in 1..Len(p)-1
    BY <1>0, <2>1, <2>2 DEF Last
  <2>4. Len(s) = Len(p) - 1
    <3> SUFFICES ASSUME Len(s) # Len(p) - 1 PROVE FALSE
      OBVIOUS
    <3> DEFINE k == Len(s)
    <3>1. k \in 1..Len(p)-1 /\ k \in 1..Len(p)-2 /\ k + 1 # Len(p)
      BY <1>0, <2>1
    <3>2. ~SelfIssued(Last(s)) /\ ~MayIssue(r, Last(s)) /\ MayIssue(p[k+1], Last(s))
      BY <3>1, <2>3, <1>0, SoundFacts
    <3>3. Issuers(Between(p), s, Last(s)) = {}
      BY <3>2, BuiltAlone
    <3>4. Between(p)[k] = p[k+1] /\ k \in 1..Len(Between(p))
      BY <3>1, BetweenFacts
    <3>5. p[k+1] \notin Certs(s)
      <4>1. \A i \in 1..k : p[i] # p[k+1]
        <5> TAKE i \in 1..k
        <5>1. i \in 1..Len(p) /\ k + 1 \in 1..Len(p) /\ i # k + 1
          BY <1>0, <3>1
        <5> QED
          BY <5>1, ClimbFacts DEF NoRepeats
      <4> QED
        BY <4>1, <2>2 DEF Certs
    <3> HIDE DEF k
    <3> QED
      BY <3>2, <3>3, <3>4, <3>5 DEF Issuers
  <2>5. ~SelfIssued(Last(s)) /\ MayIssue(r, Last(s)) /\ SelfIssued(r)
    <3>1. Len(p) - 1 \in 1..Len(p)-1 /\ Len(p) - 1 + 1 = Len(p)
      BY <1>0
    <3> QED
      BY <3>1, <2>3, <2>4, <1>0, SoundFacts
  <2>6. Append(s, r) = p
    <3>1. /\ Append(s, r) \in Seq(Cert) /\ Len(Append(s, r)) = Len(p)
          /\ \A i \in 1..Len(p) : Append(s, r)[i] = p[i]
      BY <1>0, <2>1, <2>2, <2>4, AppendProperties
    <3> QED
      BY <3>1, SeqEqual
  <2>7. Faults(Append(s, r), ex) = {}
    BY <2>6, SoundFacts
  <2> QED
    BY <2>5, <2>7 DEF AloneJudgement
<1>2. BuiltFor(p, ex) # {}
  BY SoundIsBuilt
<1>3. verify_chain(p, ex) = {AloneJudgement(s, r, ex) : s \in BuiltFor(p, ex)}
  BY AnsweredAlone
<1> QED
  BY <1>1, <1>2, <1>3

\* While nothing has lapsed OpenSSL has no choice: of the issuers it takes the
\* first.
LEMMA BuiltOnce ==
  ASSUME NEW p \in Seq(Cert), Len(p) >= 2,
         NEW s \in BuiltFor(p, {}), NEW t \in BuiltFor(p, {}), Len(s) <= Len(t)
  PROVE  s = t
<1> DEFINE u == Between(p)
           D == {i \in 1..Len(s) : s[i] # t[i]}
<1>1. ASSUME NEW q \in BuiltFor(p, {})
      PROVE  /\ q \in Seq(Cert) /\ Len(q) \in Nat /\ Len(q) >= 1 /\ q[1] = p[1]
             /\ \A i \in 1..Len(q)-1 :
                   /\ ~Ends(q[i], Last(p))
                   /\ \E j \in Taken(u, SubSeq(q, 1, i), q[i], {}) : q[i+1] = u[j]
             /\ Ends(q[Len(q)], Last(p)) \/ Issuers(u, q, q[Len(q)]) = {}
  <2>1. q \in Seq(Cert) /\ Len(q) \in Nat /\ Len(q) >= 1 /\ q[1] = p[1]
    BY BuiltFacts, LenProperties
  <2>2. /\ \A i \in 1..Len(q)-1 :
              /\ ~Ends(q[i], Last(p))
              /\ \E j \in Taken(u, SubSeq(q, 1, i), q[i], {}) : q[i+1] = u[j]
        /\ Ends(Last(q), Last(p)) \/ Issuers(u, q, Last(q)) = {}
    BY DEF BuiltFor, Built
  <2> QED
    BY <2>1, <2>2 DEF Last
<1>2. ASSUME NEW q, NEW c, NEW i \in Taken(u, q, c, {}), NEW j \in Taken(u, q, c, {})
      PROVE  i = j /\ Issuers(u, q, c) # {}
  <2>1. Issuers(u, q, c) \subseteq 1..Len(u)
    BY DEF Issuers
  <2>2. {k \in Issuers(u, q, c) : u[k] \notin {}} = Issuers(u, q, c)
    OBVIOUS
  <2>3. Issuers(u, q, c) # {} /\ i \in Issuers(u, q, c) /\ j \in Issuers(u, q, c)
        /\ i <= j /\ j <= i
    BY <1>2, <2>2 DEF Taken
  <2>4. i \in Nat /\ j \in Nat
    BY <2>1, <2>3
  <2> QED
    BY <2>3, <2>4
<1>3. /\ s \in Seq(Cert) /\ Len(s) \in Nat /\ Len(s) >= 1 /\ s[1] = p[1]
      /\ t \in Seq(Cert) /\ Len(t) \in Nat /\ t[1] = p[1]
      /\ \A i \in 1..Len(s) : i \in 1..Len(t) /\ s[i] \in Cert /\ t[i] \in Cert
  <2>1. /\ s \in Seq(Cert) /\ Len(s) \in Nat /\ Len(s) >= 1 /\ s[1] = p[1]
        /\ t \in Seq(Cert) /\ Len(t) \in Nat /\ t[1] = p[1]
    BY <1>1
  <2>2. \A i \in 1..Len(s) : i \in 1..Len(t)
    BY <2>1
  <2> QED
    BY <2>1, <2>2, ElementOfSeq
\* As far as two of its chains agree, they go on alike.
<1>4. ASSUME NEW i \in 1..Len(s), \A k \in 1..i : s[k] = t[k]
      PROVE  SubSeq(s, 1, i) = SubSeq(t, 1, i)
  <2>1. i \in Nat /\ i >= 1 /\ \A k \in 1..i : k \in 1..Len(s)
    BY <1>3
  <2>2. /\ SubSeq(s, 1, i) \in Seq(Cert) /\ Len(SubSeq(s, 1, i)) = i
        /\ \A k \in 1..i : SubSeq(s, 1, i)[k] = s[k]
    <3>1. /\ SubSeq(s, 1, i) \in Seq(Cert) /\ Len(SubSeq(s, 1, i)) = i - 1 + 1
          /\ \A k \in 1..i-1+1 : SubSeq(s, 1, i)[k] = s[1+k-1]
      BY <1>3, <2>1, SubSeqProperties
    <3>2. i - 1 + 1 = i /\ \A k \in 1..i : 1 + k - 1 = k
      BY <2>1
    <3> QED
      BY <3>1, <3>2
  <2>3. /\ SubSeq(t, 1, i) \in Seq(Cert) /\ Len(SubSeq(t, 1, i)) = i
        /\ \A k \in 1..i : SubSeq(t, 1, i)[k] = t[k]
    <3>1. /\ SubSeq(t, 1, i) \in Seq(Cert) /\ Len(SubSeq(t, 1, i)) = i - 1 + 1
          /\ \A k \in 1..i-1+1 : SubSeq(t, 1, i)[k] = t[1+k-1]
      BY <1>3, <2>1, SubSeqProperties
    <3>2. i - 1 + 1 = i /\ \A k \in 1..i : 1 + k - 1 = k
      BY <2>1
    <3> QED
      BY <3>1, <3>2
  <2> QED
    BY <1>4, <2>2, <2>3, SeqEqual
<1>5. D = {}
  <2> SUFFICES ASSUME D # {} PROVE FALSE
    OBVIOUS
  <2>1. D \in SUBSET Nat
    BY <1>3
  <2>2. PICK m \in D : \A k \in D : m <= k
    <3> HIDE DEF D
    <3> QED
      BY <2>1, Least
  <2>3. m \in 1..Len(s) /\ s[m] # t[m] /\ m # 1
    BY <1>3
  <2> DEFINE i == m - 1
  <2>4. i \in 1..Len(s) /\ i \in 1..Len(s)-1 /\ i \in 1..Len(t)-1 /\ i + 1 = m
        /\ \A k \in 1..i : k \in 1..Len(s) /\ ~(m <= k)
    BY <1>3, <2>3
  <2>5. \A k \in 1..i : s[k] = t[k]
    BY <2>2, <2>4
  <2> HIDE DEF i
  <2>6. SubSeq(s, 1, i) = SubSeq(t, 1, i) /\ s[i] = t[i]
    BY <1>4, <2>4, <2>5
  <2>7. PICK j \in Taken(u, SubSeq(s, 1, i), s[i], {}) : s[i+1] = u[j]
    BY <1>1, <2>4
  <2>8. PICK k \in Taken(u, SubSeq(t, 1, i), t[i], {}) : t[i+1] = u[k]
    BY <1>1, <2>4
  <2>9. j = k
    BY <1>2, <2>6, <2>7, <2>8
  <2> QED
    BY <2>3, <2>4, <2>7, <2>8, <2>9
<1>6. \A i \in 1..Len(s) : s[i] = t[i]
  BY <1>5
<1>7. Len(s) = Len(t)
  <2> SUFFICES ASSUME Len(s) < Len(t) PROVE FALSE
    BY <1>3
  <2> DEFINE n == Len(s)
  <2>1. n \in 1..n /\ n \in 1..Len(t)-1
    BY <1>3
  <2>2. s[n] = t[n] /\ SubSeq(s, 1, n) = SubSeq(t, 1, n)
    BY <1>4, <1>6, <2>1
  <2>3. SubSeq(s, 1, n) = s
    <3>1. /\ SubSeq(s, 1, n) \in Seq(Cert) /\ Len(SubSeq(s, 1, n)) = n - 1 + 1
          /\ \A k \in 1..n-1+1 : SubSeq(s, 1, n)[k] = s[1+k-1]
      BY <1>3, SubSeqProperties
    <3>2. n - 1 + 1 = n /\ \A k \in 1..n : 1 + k - 1 = k
      BY <1>3
    <3>3. Len(SubSeq(s, 1, n)) = n /\ \A k \in 1..n : SubSeq(s, 1, n)[k] = s[k]
      BY <3>1, <3>2
    <3> QED
      BY <1>3, <3>1, <3>3, SeqEqual
  <2>4. ~Ends(t[n], Last(p)) /\ \E j \in Taken(u, SubSeq(t, 1, n), t[n], {}) : t[n+1] = u[j]
    BY <1>1, <2>1
  <2>5. ~Ends(s[n], Last(p)) /\ \E j \in Taken(u, s, s[n], {}) : TRUE
    BY <2>2, <2>3, <2>4
  <2>6. Issuers(u, s, s[n]) # {}
    BY <1>2, <2>5
  <2> QED
    BY <1>1, <2>5, <2>6
<1> QED
  BY <1>3, <1>6, <1>7, SeqEqual

\* So it has one answer.
LEMMA OneAnswer ==
  ASSUME NEW p \in Seq(Cert), Len(p) >= 2, Unaided(p),
         NEW m \in verify_chain(p, {}), NEW n \in verify_chain(p, {})
  PROVE  m = n
<1>1. PICK s \in BuiltFor(p, {}) : m = AloneJudgement(s, Last(p), {})
  BY AnsweredAlone
<1>2. PICK t \in BuiltFor(p, {}) : n = AloneJudgement(t, Last(p), {})
  BY AnsweredAlone
<1>3. Len(s) \in Nat /\ Len(t) \in Nat
  BY BuiltFacts, LenProperties
<1>4. Len(s) <= Len(t) \/ Len(t) <= Len(s)
  BY <1>3
<1>5. s = t
  BY <1>4, BuiltOnce
<1> QED
  BY <1>1, <1>2, <1>5
=============================================================================
