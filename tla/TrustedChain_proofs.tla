------------------------ MODULE TrustedChain_proofs ------------------------
(***************************************************************************)
(* Proofs about TrustedChain, for every PKI, bundle, pin and clock: a      *)
(* chain that is handed on is the one the pin means, and a search that     *)
(* gives up has missed no sound path.                                      *)
(***************************************************************************)
EXTENDS TrustedChain, Chains_proofs

-----------------------------------------------------------------------------
(* The inductive invariant *)

TypeInv ==
    /\ certs \in Seq(Cert)
    /\ pin \in Cert \cup {NoPin, Unreadable}
    /\ began \subseteq expired
    /\ phase \in {"build", "try", "found", "refused"}
    /\ at \in Nat \ {0}

BuildInv == phase = "build" => at = 1

\* The candidates are the paths of the bundle.
CandidatesInv ==
    phase = "try" => candidates \in Seq(PathsOf(certs)) /\ Certs(candidates) = PathsOf(certs)

\* p is not what is asked for, or there is something wrong with it by now.
Unwanted(p) ==
    Sound(p, expired) /\ Unaided(p) => pin \notin {NoPin, Unreadable, Last(p)}

\* Candidates are passed over for a reason, ...
PassedInv == phase = "try" => \A k \in 1..at-1 : Unwanted(candidates[k])

\* ... and the reason outlives the search.
IInv ==
    /\ TypeInv
    /\ BuildInv
    /\ CandidatesInv
    /\ PassedInv
    /\ FoundIsTrusted
    /\ SoundPathFound

-----------------------------------------------------------------------------
(* Lemmas on single candidates *)

LEMMA CandidateFacts ==
  ASSUME certs \in Seq(Cert), NEW p \in PathsOf(certs)
  PROVE  p \in Seq(Cert) /\ IsClimb(certs, p) /\ Len(p) \in Nat /\ Len(p) >= 1
  BY PathsOfIsPath, ClimbFacts DEF IsPath

\* A path on which find_root finds anything has a CA above its leaf.
LEMMA RootedIsLong ==
  ASSUME certs \in Seq(Cert), NEW p \in PathsOf(certs), find_root(p) # {}
  PROVE  Len(p) >= 2 /\ is_ca(Last(p))
<1>1. p \in Seq(Cert) /\ IsClimb(certs, p) /\ Len(p) \in Nat /\ Len(p) >= 1
  BY CandidateFacts
<1>2. PICK i \in 1..Len(p) : is_ca(p[i])
  BY RootIsCA
<1>3. i # 1
  BY <1>1, <1>2, ClimbFacts
<1>4. Len(p) >= 2 /\ Len(p) \in 2..Len(p)
  BY <1>1, <1>2, <1>3
<1> QED
  BY <1>1, <1>4, ClimbFacts DEF Last

\* What is accepted is vouched for: with one self-signed CA on the path, the
\* certificate OpenSSL trusts is the one find_root compares with the pin.
LEMMA AcceptedIsTrusted ==
  ASSUME certs \in Seq(Cert), NEW p \in PathsOf(certs), NEW ex,
         pin \in Cert, MatchesPin(p), {} \in verify_chain(p, ex), SingleRoot(p),
         Unaided(p)
  PROVE  Vouches(p, pin, ex)
<1>1. p \in Seq(Cert) /\ IsClimb(certs, p) /\ Len(p) \in Nat /\ Len(p) >= 1
  BY CandidateFacts
<1>2. Len(p) >= 2 /\ is_ca(Last(p))
  BY RootedIsLong DEF MatchesPin
<1>3. Vouches(p, Last(p), ex)
  BY <1>1, <1>2, NoComplaintVouches
<1>4. is_self_signed(Last(p))
  BY <1>2, <1>3 DEF Vouches, SignsItself, is_self_signed, is_ca
<1>5. find_root(p) = {Last(p)}
  BY <1>1, <1>2, <1>4, RootIsLast
<1>6. pinned_hash = pin /\ pinned_hash # NoPin
  BY TrustedChainAssumption DEF pinned_hash
<1> QED
  BY <1>3, <1>5, <1>6 DEF MatchesPin

\* A sound path ends in the root find_root picks, and OpenSSL accepts it.
LEMMA SoundIsWelcome ==
  ASSUME certs \in Seq(Cert), NEW p \in PathsOf(certs), NEW ex, Sound(p, ex), Unaided(p)
  PROVE  find_root(p) = {Last(p)} /\ verify_chain(p, ex) = {{}}
<1>1. p \in Seq(Cert) /\ IsClimb(certs, p) /\ Len(p) \in Nat /\ Len(p) >= 1
  BY CandidateFacts
<1>2. Len(p) >= 2
  <2>1. 1 \in 1..Len(p) /\ p[1] \in Certs(certs) /\ Parses(p[1])
    BY <1>1, ClimbFacts
  <2>2. Issuer[p[1]] # Subject[p[1]]
    BY <1>1, <2>1, ClimbFacts
  <2>3. Subject[p[Len(p)]] = Issuer[p[Len(p)]]
    BY DEF Sound, SignsItself, Last
  <2>4. Len(p) # 1
    BY <2>2, <2>3
  <2>5. \A m \in Nat : m >= 1 /\ m # 1 => m >= 2
    OBVIOUS
  <2> QED
    BY <1>1, <2>4, <2>5
<1>3. is_ca(Last(p))
  <2>1. Len(p) \in 2..Len(p)
    BY <1>1, <1>2
  <2> QED
    BY <2>1, <1>1, ClimbFacts DEF Last
<1>4. is_self_signed(Last(p))
  BY <1>3 DEF Sound, SignsItself, is_self_signed, is_ca
<1>5. SingleRoot(p)
  BY <1>1, DistinctIsSingle DEF Sound
<1> QED
  BY <1>1, <1>2, <1>3, <1>4, <1>5, RootIsLast, SoundVerifies

-----------------------------------------------------------------------------
(* The invariant holds initially and is preserved *)

LEMMA InitHolds == Init => IInv
<1> SUFFICES ASSUME Init PROVE IInv
  OBVIOUS
<1>1. TypeInv
  BY TrustedChainAssumption DEF Init, TypeInv
<1> QED
  BY <1>1 DEF Init, IInv, BuildInv, CandidatesInv, PassedInv, FoundIsTrusted, SoundPathFound

LEMMA LapseHolds == IInv /\ Lapse => IInv'
<1> SUFFICES ASSUME IInv, Lapse PROVE IInv'
  OBVIOUS
<1>1. /\ expired \subseteq expired' /\ phase \in {"build", "try"}
      /\ UNCHANGED <<certs, pin, began, phase, candidates, at, chain>>
  BY DEF Lapse, Running
<1>2. TypeInv'
  BY <1>1 DEF IInv, TypeInv
<1>3. CandidatesInv'
  BY <1>1 DEF IInv, CandidatesInv
<1>4. PassedInv'
  <2>1. \A p : Sound(p, expired') => Sound(p, expired)
    BY <1>1 DEF Sound
  <2> QED
    BY <1>1, <2>1 DEF IInv, PassedInv, Unwanted
<1> QED
  BY <1>1, <1>2, <1>3, <1>4 DEF IInv, BuildInv, FoundIsTrusted, SoundPathFound

LEMMA BuildPathsHolds == IInv /\ BuildPaths => IInv'
<1> SUFFICES ASSUME IInv, BuildPaths PROVE IInv'
  OBVIOUS
<1>0. /\ certs \in Seq(Cert)
      /\ UNCHANGED <<certs, pin, expired, began, at>>
      /\ phase' = IF candidates' = <<>> THEN "refused" ELSE "try"
  BY DEF IInv, TypeInv, BuildPaths
<1>1. candidates' \in Seq(PathsOf(certs)) /\ Certs(candidates') = PathsOf(certs)
  BY <1>0, PathsAreFinite, ListingFacts DEF BuildPaths
<1>2. TypeInv'
  BY <1>0 DEF IInv, TypeInv
<1>3. CandidatesInv'
  BY <1>0, <1>1 DEF CandidatesInv
<1>4. at = 1
  BY DEF IInv, BuildInv, BuildPaths
<1>5. PassedInv'
  BY <1>0, <1>4 DEF PassedInv
<1>6. FoundIsTrusted'
  BY <1>0 DEF FoundIsTrusted
<1>7. SoundPathFound'
  <2> SUFFICES ASSUME candidates' = <<>> PROVE PathsOf(certs) = {}
    BY <1>0 DEF SoundPathFound
  <2>1. 1..Len(candidates') = {}
    OBVIOUS
  <2> QED
    BY <1>1, <2>1 DEF Certs
<1> QED
  BY <1>2, <1>3, <1>5, <1>6, <1>7, <1>0 DEF IInv, BuildInv

\* Passing over a candidate that is not wanted.
LEMMA PassOverHolds ==
  ASSUME IInv, Trying, PassOver, Unwanted(candidate)
  PROVE  IInv'
<1>1. /\ UNCHANGED <<certs, pin, expired, began, phase, candidates, chain>>
      /\ at' = at + 1 /\ phase = "try" /\ at \in Nat \ {0}
  BY DEF IInv, TypeInv, Trying, PassOver
<1>2. TypeInv'
  BY <1>1 DEF IInv, TypeInv
<1>3. CandidatesInv'
  BY <1>1 DEF IInv, CandidatesInv
<1>4. PassedInv'
  <2>1. 1..at'-1 = (1..at-1) \cup {at}
    BY <1>1
  <2>2. \A k \in 1..at'-1 : Unwanted(candidates[k])
    BY <1>1, <2>1 DEF IInv, PassedInv, candidate
  <2> QED
    BY <1>1, <2>2 DEF PassedInv, Unwanted
<1> QED
  BY <1>1, <1>2, <1>3, <1>4 DEF IInv, BuildInv, FoundIsTrusted, SoundPathFound

LEMMA CandidateIsPath ==
  ASSUME IInv, Trying
  PROVE  candidate \in PathsOf(certs) /\ certs \in Seq(Cert)
<1>1. candidates \in Seq(PathsOf(certs)) /\ at \in 1..Len(candidates)
  BY LenProperties DEF IInv, TypeInv, CandidatesInv, Trying
<1> QED
  BY <1>1, ElementOfSeq DEF IInv, TypeInv, candidate

LEMMA RejectRootHolds == IInv /\ RejectRoot => IInv'
<1> SUFFICES ASSUME IInv, RejectRoot PROVE IInv'
  OBVIOUS
<1>1. Trying /\ PassOver /\ ~MatchesPin(candidate)
  BY DEF RejectRoot
<1>2. Unwanted(candidate)
  <2> SUFFICES ASSUME Sound(candidate, expired), Unaided(candidate)
               PROVE  pin \notin {NoPin, Unreadable, Last(candidate)}
    BY DEF Unwanted
  <2>1. find_root(candidate) = {Last(candidate)}
    BY <1>1, CandidateIsPath, SoundIsWelcome
  <2> QED
    BY <1>1, <2>1 DEF MatchesPin, pinned_hash
<1> QED
  BY <1>1, <1>2, PassOverHolds

LEMMA RejectChainHolds == IInv /\ RejectChain => IInv'
<1> SUFFICES ASSUME IInv, RejectChain PROVE IInv'
  OBVIOUS
<1>1. Trying /\ PassOver /\ verify_chain(candidate, expired) # {{}}
  BY DEF RejectChain
<1>2. Unwanted(candidate)
  BY <1>1, CandidateIsPath, SoundIsWelcome DEF Unwanted
<1> QED
  BY <1>1, <1>2, PassOverHolds

LEMMA AcceptHolds == IInv /\ Accept => IInv'
<1> SUFFICES ASSUME IInv, Accept PROVE IInv'
  OBVIOUS
<1>1. /\ Trying /\ MatchesPin(candidate) /\ {} \in verify_chain(candidate, expired)
      /\ chain' = candidate /\ phase' = "found"
      /\ UNCHANGED <<certs, pin, expired, began, candidates, at>>
  BY DEF Accept
<1>2. TypeInv'
  BY <1>1 DEF IInv, TypeInv
<1>3. FoundIsTrusted'
  <2> SUFFICES ASSUME SingleRoot(candidate), pin \in Cert, Unaided(candidate)
               PROVE  Vouches(candidate, pin, began)
    BY <1>1 DEF FoundIsTrusted
  <2>1. Vouches(candidate, pin, expired)
    BY <1>1, CandidateIsPath, AcceptedIsTrusted
  <2> QED
    BY <2>1, VouchesMonotone DEF IInv, TypeInv
<1> QED
  BY <1>1, <1>2, <1>3 DEF IInv, BuildInv, CandidatesInv, PassedInv, SoundPathFound

LEMMA GiveUpHolds == IInv /\ GiveUp => IInv'
<1> SUFFICES ASSUME IInv, GiveUp PROVE IInv'
  OBVIOUS
<1>1. /\ phase = "try" /\ at > Len(candidates) /\ phase' = "refused"
      /\ UNCHANGED <<certs, pin, expired, began, candidates, at, chain>>
  BY DEF GiveUp
<1>2. TypeInv'
  BY <1>1 DEF IInv, TypeInv
<1>3. SoundPathFound'
  <2> SUFFICES ASSUME NEW p \in PathsOf(certs) PROVE Unwanted(p)
    BY <1>1 DEF SoundPathFound, Unwanted
  <2>1. PICK k \in 1..Len(candidates) : candidates[k] = p
    BY <1>1 DEF IInv, CandidatesInv, Certs
  <2>2. k \in 1..at-1
    BY <1>1, LenProperties DEF IInv, TypeInv, CandidatesInv
  <2> QED
    BY <1>1, <2>1, <2>2 DEF IInv, PassedInv
<1> QED
  BY <1>1, <1>2, <1>3 DEF IInv, BuildInv, CandidatesInv, PassedInv, FoundIsTrusted

LEMMA StutterHolds == IInv /\ UNCHANGED vars => IInv'
  BY DEF vars, IInv, TypeInv, BuildInv, CandidatesInv, PassedInv, Unwanted,
         FoundIsTrusted, SoundPathFound

LEMMA Inductive == IInv /\ [Next]_vars => IInv'
  BY LapseHolds, BuildPathsHolds, RejectRootHolds, RejectChainHolds, AcceptHolds,
     GiveUpHolds, StutterHolds DEF Next, Step

-----------------------------------------------------------------------------
(* The theorems *)

LEMMA Invariance == Spec => []IInv
  BY InitHolds, Inductive, PTL DEF Spec

\* Whatever the bundle holds and whatever lapses meanwhile: if the chain handed
\* on has one self-signed CA, no CA of the machine has the name of one of its
\* issuers, and a pin is given, its certificates hold signatures of unlapsed
\* CAs from the leaf up to the very certificate the pin names.
THEOREM PinDecides == Spec => []FoundIsTrusted
<1>1. IInv => FoundIsTrusted
  BY DEF IInv
<1> QED
  BY <1>1, Invariance, PTL

\* A search that gives up has been offered no sound path to the root asked
\* for, at any place among the candidates, of which no issuer has a namesake
\* among the CAs of the machine.
THEOREM NoSoundPathMissed == Spec => []SoundPathFound
<1>1. IInv => SoundPathFound
  BY DEF IInv
<1> QED
  BY <1>1, Invariance, PTL
=============================================================================
