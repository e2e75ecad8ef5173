------------------------ MODULE PathBuilding_proofs ------------------------
(***************************************************************************)
(* Proofs about PathBuilding, for every set of certificates, every naming  *)
(* and every bundle: the search is type correct, what it collects are      *)
(* paths of the bundle, none is lost and none is repeated, its recursion   *)
(* is bounded, and it implements PathPromise.                              *)
(***************************************************************************)
EXTENDS PathBuilding, Chains_proofs

-----------------------------------------------------------------------------
(* The inductive invariant *)

\* Which variables each phase may have touched.
PhaseInv ==
    /\ (phase = "walk") <=> (stack # <<>>)
    /\ phase \in {"dedupe", "done"} => next > Len(bundle)
    /\ phase \in {"leaves", "walk"} => unique = <<>> /\ checked = 0
    /\ phase = "done" => checked = Len(paths)

\* c could be climbed to from depth k of the recursion s.
Above(s, k, c) ==
    /\ IsParent(s[k].cert, c)
    /\ \A h \in 1..k : s[h].cert # c

\* q begins with the chain of the k outermost calls of s.
Shares(s, q, k) == \A h \in 1..k : q[h] = s[h].cert

\* The stack spells a climb, and a frame is marked `advanced` exactly when
\* the part of the bundle it has scanned offered a certificate to climb to.
StackInv ==
    /\ stack # <<>> => IsClimb(bundle, Chain(stack))
    /\ \A k \in 1..Len(stack) :
          /\ stack[k].next <= Len(bundle) + 1
          /\ stack[k].advanced <=>
                \E i \in 1..stack[k].next - 1 : Above(stack, k, bundle[i])

\* c is first read at i.
FirstAt(c, i) == bundle[i] = c /\ \A j \in 1..i-1 : bundle[j] # c

\* What stands on the stack has been read by the loop that put it there.
ReadInv ==
    /\ stack # <<>> => \E i \in 1..next - 1 : bundle[i] = stack[1].cert
    /\ \A k \in 1..Len(stack) - 1 :
          \E i \in 1..stack[k].next - 1 : bundle[i] = stack[k + 1].cert

\* Where a path not yet collected is still to come from: a leaf whose first
\* copy is ahead; ...
LeafAhead(q) == \E i \in next..Len(bundle) : FirstAt(q[1], i)

\* ... the innermost call, whose chain it is; ...
AtTop(q) == Len(q) = Len(stack) /\ Shares(stack, q, Len(stack))

\* ... or a frame it agrees with, and whose scan has the first copy of its
\* next link ahead.
Forks(q, k) ==
    /\ k < Len(q)
    /\ Shares(stack, q, k)
    /\ \E i \in stack[k].next..Len(bundle) : FirstAt(q[k + 1], i)

Pending(q) == LeafAhead(q) \/ AtTop(q) \/ \E k \in 1..Len(stack) : Forks(q, k)

CompleteInv == \A q \in PathsOf(bundle) : q \in Certs(paths) \/ Pending(q)

\* The last loop has moved exactly the paths it has looked at.
DedupeInv ==
    /\ Certs(unique) = {paths[i] : i \in 1..checked}
    /\ NoRepeats(unique)

IInv ==
    /\ TypeOK
    /\ PhaseInv
    /\ StackInv
    /\ ReadInv
    /\ CollectedPathsAreReal
    /\ CompleteInv
    /\ DedupeInv

-----------------------------------------------------------------------------
(* Lemmas on stacks *)

LEMMA ChainFacts ==
  ASSUME NEW s \in Seq(Frame)
  PROVE  /\ Len(s) \in Nat
         /\ \A k \in 1..Len(s) : s[k] \in Frame
         /\ Chain(s) \in Seq(Cert)
         /\ Len(Chain(s)) = Len(s)
         /\ \A k \in 1..Len(s) : Chain(s)[k] = s[k].cert
         /\ \A c : c \in Certs(Chain(s)) <=> \E k \in 1..Len(s) : s[k].cert = c
<1>1. Len(s) \in Nat /\ \A k \in 1..Len(s) : s[k] \in Frame
  BY LenProperties, ElementOfSeq
<1>2. \A k \in 1..Len(s) : s[k].cert \in Cert
  BY <1>1 DEF Frame
<1>3. Chain(s) \in Seq(Cert) /\ Len(Chain(s)) = Len(s)
  BY <1>1, <1>2 DEF Chain
<1>4. \A k \in 1..Len(s) : Chain(s)[k] = s[k].cert
  BY DEF Chain
<1> QED
  BY <1>1, <1>3, <1>4 DEF Certs

\* The bundle is a sequence of certificates.
LEMMA BundleFacts ==
  ASSUME TypeOK
  PROVE  /\ Len(bundle) \in Nat
         /\ \A i \in 1..Len(bundle) : bundle[i] \in Cert
         /\ \A c : c \in Certs(bundle) <=> \E i \in 1..Len(bundle) : bundle[i] = c
<1>1. bundle \in Seq(Cert)
  BY DEF TypeOK
<1> QED
  BY <1>1, LenProperties, ElementOfSeq DEF Certs

LEMMA FirstFacts ==
  ASSUME bundle \in Seq(Cert), NEW c \in Certs(bundle)
  PROVE  /\ ReadAt(c) \in 1..Len(bundle)
         /\ FirstAt(c, ReadAt(c))
         /\ \A i \in 1..Len(bundle) : bundle[i] = c => ReadAt(c) <= i
         /\ \A i \in 1..Len(bundle) : FirstAt(c, i) => i = ReadAt(c)
<1> DEFINE S == {i \in 1..Len(bundle) : bundle[i] = c}
<1>1. Len(bundle) \in Nat
  BY LenProperties
<1>2. S # {} /\ S \in SUBSET Nat
  BY <1>1 DEF Certs
<1>3. PICK m \in S : \A i \in S : m <= i
  BY <1>2, Least
<1>4. m \in 1..Len(bundle) /\ FirstAt(c, m)
  BY <1>1, <1>3 DEF FirstAt
<1>5. ASSUME NEW i \in 1..Len(bundle), FirstAt(c, i)
      PROVE  i = m
  <2>1. m <= i /\ m \in Nat /\ i \in Nat /\ bundle[m] = c
    BY <1>1, <1>3, <1>5 DEF FirstAt
  <2>2. ~(m < i)
    BY <1>4, <1>5, <2>1 DEF FirstAt
  <2> QED
    BY <2>1, <2>2
<1>6. ReadAt(c) = m
  BY <1>4, <1>5 DEF ReadAt, FirstAt
<1> QED
  BY <1>3, <1>4, <1>5, <1>6

-----------------------------------------------------------------------------
(* The invariant holds initially *)

LEMMA InitHolds == Init => IInv
<1> SUFFICES ASSUME Init PROVE IInv
  OBVIOUS
<1>1. bundle \in Seq(Cert) /\ Len(bundle) \in Nat
  BY BundleAssumption, LenProperties DEF Init
<1>2. TypeOK
  BY <1>1 DEF Init, TypeOK
<1>3. PhaseInv
  BY DEF Init, PhaseInv
<1>4. StackInv /\ CollectedPathsAreReal
  BY DEF Init, StackInv, CollectedPathsAreReal
<1>5. CompleteInv
  <2> SUFFICES ASSUME NEW q \in PathsOf(bundle)
               PROVE  LeafAhead(q)
    BY DEF CompleteInv, Pending
  <2>1. q \in Seq(Cert) /\ IsPath(bundle, q)
    BY <1>1, PathsOfIsPath
  <2>2. /\ Len(q) \in Nat /\ Len(q) >= 1
        /\ \A i \in 1..Len(q) : \E j \in 1..Len(bundle) : bundle[j] = q[i]
    BY <2>1, <1>1, PathFacts DEF IsPath
  <2> QED
    <3>1. q[1] \in Certs(bundle)
      BY <2>2 DEF Certs
    <3> QED
      BY <1>1, <3>1, FirstFacts DEF LeafAhead, Init
<1>6. DedupeInv
  BY DEF Init, DedupeInv, Certs, NoRepeats
<1>7. ReadInv
  BY DEF Init, ReadInv
<1> QED
  BY <1>2, <1>3, <1>4, <1>5, <1>6, <1>7 DEF IInv

-----------------------------------------------------------------------------
(* The loop over the leaves *)

LEMMA SkipLeafHolds == IInv /\ SkipLeaf => IInv'
<1> SUFFICES ASSUME IInv, SkipLeaf PROVE IInv'
  OBVIOUS
<1> USE DEF IInv
<1>0. Len(bundle) \in Nat
  BY BundleFacts
<1>1. TypeOK'
  BY <1>0 DEF TypeOK, SkipLeaf
<1>2. PhaseInv'
  BY DEF PhaseInv, SkipLeaf, TypeOK
<1>3. StackInv'
  BY DEF StackInv, SkipLeaf, Above
<1>4. CollectedPathsAreReal'
  BY DEF CollectedPathsAreReal, SkipLeaf
<1>5. CompleteInv'
  <2> SUFFICES ASSUME NEW q \in PathsOf(bundle), LeafAhead(q)
               PROVE  LeafAhead(q)'
    BY DEF FirstAt, CompleteInv, Pending, AtTop, Forks, SkipLeaf
  <2>1. IsLeaf(bundle, q[1])
    BY PathsOfIsPath DEF TypeOK, IsPath, IsClimb
  <2>2. PICK i \in next..Len(bundle) : FirstAt(q[1], i)
    BY DEF LeafAhead
  <2>3. i \in next+1..Len(bundle)
    BY <2>1, <2>2, <1>0 DEF FirstAt, SkipLeaf, TypeOK
  <2> QED
    BY <2>2, <2>3 DEF FirstAt, LeafAhead, SkipLeaf
<1>6. DedupeInv'
  BY DEF DedupeInv, SkipLeaf
<1>7. ReadInv'
  BY DEF ReadInv, PhaseInv, SkipLeaf
<1> QED
  BY <1>1, <1>2, <1>3, <1>4, <1>5, <1>6, <1>7

LEMMA EndLeavesHolds == IInv /\ EndLeaves => IInv'
<1> SUFFICES ASSUME IInv, EndLeaves PROVE IInv'
  OBVIOUS
<1> USE DEF IInv
<1>1. TypeOK'
  BY DEF TypeOK, EndLeaves
<1>2. PhaseInv'
  BY DEF PhaseInv, EndLeaves
<1>3. StackInv'
  BY DEF StackInv, EndLeaves, Above
<1>4. CollectedPathsAreReal'
  BY DEF CollectedPathsAreReal, EndLeaves
<1>5. CompleteInv'
  BY DEF FirstAt, CompleteInv, Pending, LeafAhead, AtTop, Forks, EndLeaves
<1>6. DedupeInv'
  BY DEF DedupeInv, EndLeaves
<1>7. ReadInv'
  BY DEF ReadInv, EndLeaves
<1> QED
  BY <1>1, <1>2, <1>3, <1>4, <1>5, <1>6, <1>7

LEMMA PickLeafHolds == IInv /\ PickLeaf => IInv'
<1> SUFFICES ASSUME IInv, PickLeaf PROVE IInv'
  OBVIOUS
<1> USE DEF IInv
<1>0. Len(bundle) \in Nat /\ next \in 1..Len(bundle) /\ bundle[next] \in Cert
  BY BundleFacts DEF TypeOK, PickLeaf
<1>a. NewFrame(bundle[next]) \in Frame
  BY <1>0 DEF NewFrame, Frame
<1>b. /\ stack' \in Seq(Frame)
      /\ Len(stack') = 1
      /\ stack'[1] = NewFrame(bundle[next])
  BY <1>a DEF PickLeaf
<1>c. stack = <<>>
  BY DEF PhaseInv, PickLeaf
<1>1. TypeOK'
  BY <1>0, <1>b DEF TypeOK, PickLeaf
<1>2. PhaseInv'
  BY <1>b DEF PhaseInv, PickLeaf
<1>3. StackInv'
  <2>1. /\ Len(Chain(stack')) = 1
        /\ Chain(stack')[1] = bundle[next]
        /\ Chain(stack') \in Seq(Cert)
    BY <1>b, ChainFacts DEF NewFrame
  <2>2. IsClimb(bundle, Chain(stack'))
    <3>1. Certs(Chain(stack')) = {bundle[next]}
      BY <2>1 DEF Certs
    <3>2. {bundle[next]} \subseteq Certs(bundle)
      BY <1>0 DEF Certs
    <3>3. IsLeaf(bundle, bundle[next])
      BY DEF PickLeaf
    <3>4. NoRepeats(Chain(stack'))
      BY <2>1 DEF NoRepeats
    <3>5. Chain(stack') # <<>>
      <4> SUFFICES ASSUME Chain(stack') = <<>> PROVE FALSE
        OBVIOUS
      <4> QED
        BY <2>1
    <3> QED
      BY <2>1, <3>1, <3>2, <3>3, <3>4, <3>5 DEF IsClimb
  <2>3. bundle' = bundle
    BY DEF PickLeaf
  <2>4. stack'[1].next = 1 /\ stack'[1].advanced = FALSE
    BY <1>b DEF NewFrame
  <2>5. ASSUME NEW k \in 1..Len(stack')
        PROVE  /\ stack'[k].next <= Len(bundle') + 1
               /\ stack'[k].advanced <=>
                     \E i \in 1..stack'[k].next - 1 : Above(stack', k, bundle[i])
    <3>1. k = 1
      BY <1>b
    <3>2. stack'[1].next <= Len(bundle') + 1
      BY <2>3, <2>4, <1>0
    <3>3. ~stack'[1].advanced
      BY <2>4
    <3>4. 1..stack'[1].next - 1 = {}
      BY <2>4
    <3> QED
      BY <3>1, <3>2, <3>3, <3>4
  <2> QED
    BY <2>2, <2>3, <2>5 DEF StackInv
<1>4. CollectedPathsAreReal'
  BY DEF CollectedPathsAreReal, PickLeaf
<1>5. CompleteInv'
  <2> SUFFICES ASSUME NEW q \in PathsOf(bundle), LeafAhead(q)
               PROVE  Pending(q)'
    <3>1. ASSUME NEW q \in PathsOf(bundle), AtTop(q) PROVE FALSE
      <4>1. q \in Seq(Cert) /\ IsPath(bundle, q)
        BY PathsOfIsPath DEF TypeOK
      <4>2. Len(q) >= 1 /\ Len(q) = 0
        BY <1>c, <3>1, <4>1, PathFacts DEF AtTop, IsPath, TypeOK
      <4> QED
        BY <4>2
    <3>2. \A k \in 1..Len(stack) : FALSE
      BY <1>c
    <3> QED
      BY <3>1, <3>2 DEF CompleteInv, Pending, PickLeaf
  <2>1. q \in Seq(Cert) /\ IsPath(bundle, q)
    BY PathsOfIsPath DEF TypeOK
  <2>2. Len(q) \in Nat /\ Len(q) >= 1
    BY <2>1, PathFacts DEF IsPath, TypeOK
  <2>a. \A h \in 1..Len(q) : \E j \in 1..Len(bundle) : bundle[j] = q[h]
    BY <2>1, PathFacts DEF IsPath, TypeOK
  <2>3. PICK i \in next..Len(bundle) : FirstAt(q[1], i)
    BY DEF LeafAhead
  <2>4. CASE i # next
    BY <2>3, <2>4, <1>0 DEF FirstAt, LeafAhead, Pending, PickLeaf
  <2>5. CASE i = next /\ Len(q) = 1
    <3>1. AtTop(q)'
      BY <2>3, <2>5, <1>b DEF FirstAt, AtTop, Shares, NewFrame
    <3> QED
      BY <3>1 DEF Pending
  <2>6. CASE i = next /\ Len(q) # 1
    <3>0. Len(q) # 1
      BY <2>6
    <3>a. 2 \in 1..Len(q) /\ 1 < Len(q)
      <4>1. \A m \in Nat : m >= 1 /\ m # 1 => 2 \in 1..m /\ 1 < m
        OBVIOUS
      <4> QED
        BY <2>2, <3>0, <4>1
    <3>1. \E j \in 1..Len(bundle) : FirstAt(q[2], j)
      <4>1. q[2] \in Certs(bundle)
        BY <2>a, <3>a DEF Certs
      <4> QED
        BY <4>1, FirstFacts DEF TypeOK
    <3>2. Forks(q, 1)'
      BY <3>1, <3>a, <2>3, <2>6, <1>b DEF FirstAt, Forks, Shares, NewFrame, PickLeaf
    <3> QED
      BY <3>2, <1>b DEF Pending
  <2> QED
    BY <2>4, <2>5, <2>6
<1>6. DedupeInv'
  BY DEF DedupeInv, PickLeaf
<1>7. ReadInv'
  <2>1. next \in 1..next' - 1 /\ bundle' = bundle
    BY <1>0 DEF PickLeaf
  <2>2. bundle[next] = stack'[1].cert
    BY <1>b DEF NewFrame
  <2>3. 1..Len(stack') - 1 = {}
    BY <1>b
  <2> QED
    BY <2>1, <2>2, <2>3 DEF ReadInv
<1> QED
  BY <1>1, <1>2, <1>3, <1>4, <1>5, <1>6, <1>7

-----------------------------------------------------------------------------
(* walk() *)

LEMMA WalkFacts ==
  ASSUME IInv, phase = "walk"
  PROVE  /\ Len(bundle) \in Nat
         /\ Len(stack) \in Nat
         /\ Len(stack) \in 1..Len(stack)
         /\ stack \in Seq(Frame)
         /\ Top = stack[Len(stack)]
         /\ \A k \in 1..Len(stack) : /\ stack[k] \in Frame
                                    /\ stack[k].cert \in Cert
                                    /\ stack[k].next \in Nat
                                    /\ stack[k].next >= 1
                                    /\ stack[k].advanced \in BOOLEAN
         /\ IsClimb(bundle, Chain(stack))
<1>1. stack \in Seq(Frame) /\ stack # <<>>
  BY DEF IInv, TypeOK, PhaseInv
<1>2. Len(stack) \in Nat /\ Len(stack) \in 1..Len(stack)
  BY <1>1, EmptySeq, LenProperties
<1>3. \A k \in 1..Len(stack) : stack[k] \in Frame
  BY <1>1, ElementOfSeq
<1>4. \A f \in Frame : f.cert \in Cert /\ f.next \in Nat /\ f.next >= 1 /\ f.advanced \in BOOLEAN
  BY DEF Frame
<1> QED
  BY <1>1, <1>2, <1>3, <1>4, BundleFacts DEF IInv, StackInv, Top, Last

\* What the innermost call may climb to is what lies above the whole stack.
LEMMA ClimbableIsAbove ==
  ASSUME IInv, phase = "walk", NEW c
  PROVE  IsParent(Top.cert, c) /\ c \notin visited <=> Above(stack, Len(stack), c)
  BY WalkFacts, ChainFacts DEF Above, visited

\* Both depend only on the outermost calls.
LEMMA SameBelow ==
  ASSUME NEW s, NEW t, NEW n \in Nat, NEW k \in 1..n,
         \A h \in 1..n : s[h].cert = t[h].cert
  PROVE  /\ \A c : Above(s, k, c) <=> Above(t, k, c)
         /\ \A q : Shares(s, q, k) <=> Shares(t, q, k)
<1>1. k \in 1..k /\ \A h \in 1..k : h \in 1..n
  OBVIOUS
<1>2. \A h \in 1..k : s[h].cert = t[h].cert
  BY <1>1
<1> QED
  BY <1>1, <1>2 DEF Above, Shares

LEMMA SkipParentHolds == IInv /\ SkipParent => IInv'
<1> SUFFICES ASSUME IInv, SkipParent PROVE IInv'
  OBVIOUS
<1> DEFINE n == Len(stack)
<1>0. phase = "walk"
  BY DEF SkipParent, InLoop
<1>a. /\ n \in Nat
      /\ n \in 1..n
      /\ stack[n].next \in 1..Len(bundle)
      /\ Len(bundle) \in Nat
  BY <1>0, WalkFacts DEF SkipParent, InLoop
<1>b. /\ stack' \in Seq(Frame)
      /\ Len(stack') = n
      /\ \A k \in 1..n : stack'[k] = IF k = n THEN [stack[n] EXCEPT !.next = stack[n].next + 1]
                                            ELSE stack[k]
  <2>1. [stack[n] EXCEPT !.next = stack[n].next + 1] \in Frame
    BY <1>0, <1>a, WalkFacts DEF Frame
  <2>2. stack' = [stack EXCEPT ![n] = [stack[n] EXCEPT !.next = stack[n].next + 1]]
    BY DEF SkipParent
  <2> QED
    BY <2>1, <2>2, <1>0, <1>a, WalkFacts, ExceptSeq
<1>c. \A k \in 1..n : stack'[k].cert = stack[k].cert
  BY <1>0, <1>b, WalkFacts DEF Frame
<1>g. \A k \in 1..n : stack'[k].advanced = stack[k].advanced
  BY <1>0, <1>b, WalkFacts DEF Frame
<1>h. \A k \in 1..n : k # n => stack'[k].next = stack[k].next
  BY <1>0, <1>b, WalkFacts DEF Frame
<1>d. stack'[n].next = stack[n].next + 1
  BY <1>0, <1>a, <1>b, WalkFacts DEF Frame
<1>e. bundle' = bundle /\ paths' = paths /\ next' = next /\ phase' = phase
  BY DEF SkipParent
<1>f. ~Above(stack, n, bundle[stack[n].next])
  BY <1>0, ClimbableIsAbove, WalkFacts DEF SkipParent, Climbable, Candidate
<1>1. TypeOK'
  BY <1>b DEF TypeOK, SkipParent, IInv
<1>2. PhaseInv'
  <2>1. stack' # <<>>
    BY <1>a, <1>b
  <2> QED
    BY <2>1, <1>0 DEF PhaseInv, SkipParent, IInv
<1>3. StackInv'
  <2>1. Chain(stack') = Chain(stack)
    <3>1. \A k \in 1..n : Chain(stack')[k] = Chain(stack)[k]
      BY <1>b, <1>c, <1>0, WalkFacts, ChainFacts
    <3> QED
      BY <3>1, <1>b, <1>0, WalkFacts, ChainFacts, SeqEqual
  <2>2. IsClimb(bundle, Chain(stack'))
    BY <2>1, <1>0, WalkFacts
  <2>4. ASSUME NEW k \in 1..n
        PROVE  /\ stack'[k].next <= Len(bundle) + 1
               /\ stack'[k].advanced <=>
                     \E i \in 1..stack'[k].next - 1 : Above(stack', k, bundle[i])
    <3>1. /\ stack[k].next <= Len(bundle) + 1
          /\ stack[k].advanced <=> \E i \in 1..stack[k].next - 1 : Above(stack, k, bundle[i])
      BY DEF IInv, StackInv
    <3>2. \A c : Above(stack', k, c) <=> Above(stack, k, c)
      BY <1>a, <1>c, SameBelow
    <3>3. CASE k # n
      BY <3>1, <3>2, <3>3, <1>g, <1>h
    <3>4. CASE k = n
      <4>1. 1..stack'[n].next - 1 = (1..stack[n].next - 1) \cup {stack[n].next}
        BY <1>d, <1>a
      <4>2. stack'[n].next <= Len(bundle) + 1
        BY <1>d, <1>a
      <4> QED
        BY <3>1, <3>2, <3>4, <4>1, <4>2, <1>f, <1>g
    <3> QED
      BY <3>3, <3>4
  <2> QED
    BY <2>2, <2>4, <1>b, <1>e DEF StackInv
<1>4. CollectedPathsAreReal'
  BY <1>e DEF CollectedPathsAreReal, IInv
<1>5. CompleteInv'
  <2> SUFFICES ASSUME NEW q \in PathsOf(bundle), Pending(q)
               PROVE  Pending(q)'
    BY <1>e DEF CompleteInv, IInv
  <2>1. CASE LeafAhead(q)
    BY <2>1, <1>e DEF FirstAt, LeafAhead, Pending
  <2>2. CASE AtTop(q)
    BY <2>2, <1>a, <1>b, <1>c, SameBelow DEF AtTop, Pending
  <2>3. ASSUME NEW k \in 1..n, Forks(q, k)
        PROVE  Pending(q)'
    <3>0. q \in Seq(Cert) /\ IsPath(bundle, q)
      BY PathsOfIsPath DEF IInv, TypeOK
    <3>1. PICK i \in stack[k].next..Len(bundle) : FirstAt(q[k + 1], i)
      BY <2>3 DEF Forks
    <3>2. ~(k = n /\ i = stack[n].next)
      <4> SUFFICES ASSUME k = n, i = stack[n].next PROVE FALSE
        OBVIOUS
      <4>1. Len(q) \in Nat /\ n \in 1..Len(q)-1 /\ n + 1 \in 1..Len(q)
        BY <2>3, <1>a, <3>0, LenProperties DEF Forks
      <4>2. \A h \in 1..n : q[h] = stack[h].cert
        BY <2>3 DEF Forks, Shares
      <4>3. IsParent(q[n], q[n + 1])
        BY <3>0, <4>1 DEF IsPath, IsClimb
      <4>4. \A h \in 1..n : q[h] # q[n + 1]
        <5>1. NoRepeats(q)
          BY <3>0 DEF IsPath, IsClimb
        <5>2. \A h \in 1..n : h \in 1..Len(q) /\ h # n + 1
          BY <4>1, <1>a
        <5> QED
          BY <4>1, <5>1, <5>2 DEF NoRepeats
      <4>5. Above(stack, n, q[n + 1])
        BY <4>2, <4>3, <4>4, <1>a DEF Above
      <4> QED
        BY <4>5, <3>1, <1>f DEF FirstAt
    <3>3. i \in stack'[k].next..Len(bundle)
      <4>1. CASE k # n
        BY <4>1, <3>1, <1>h
      <4>2. CASE k = n
        BY <4>2, <3>1, <3>2, <1>a, <1>d
      <4> QED
        BY <4>1, <4>2
    <3>4. Shares(stack', q, k)
      BY <2>3, <1>a, <1>c, SameBelow DEF Forks
    <3>5. Forks(q, k)'
      BY <2>3, <3>1, <3>3, <3>4, <1>e DEF FirstAt, Forks
    <3> QED
      BY <3>5, <1>b DEF Pending
  <2> QED
    BY <2>1, <2>2, <2>3 DEF Pending
<1>6. DedupeInv'
  BY DEF DedupeInv, SkipParent, IInv
<1>7. ReadInv'
  <2>1. stack # <<>>
    BY <1>a
  <2>2. PICK i \in 1..next - 1 : bundle[i] = stack[1].cert
    BY <2>1 DEF IInv, ReadInv
  <2>3. bundle[i] = stack'[1].cert
    BY <1>a, <1>c, <2>2
  <2>4. ASSUME NEW k \in 1..n - 1
        PROVE  \E j \in 1..stack'[k].next - 1 : bundle[j] = stack'[k + 1].cert
    <3>1. k # n /\ k \in 1..n /\ k + 1 \in 1..n
      BY <1>a
    <3>2. stack'[k].next = stack[k].next /\ stack'[k + 1].cert = stack[k + 1].cert
      BY <3>1, <1>c, <1>h
    <3> QED
      BY <3>2 DEF IInv, ReadInv
  <2> QED
    BY <2>2, <2>3, <2>4, <1>b, <1>e DEF ReadInv
<1> QED
  BY <1>1, <1>2, <1>3, <1>4, <1>5, <1>6, <1>7 DEF IInv

\* Above a path of the bundle there is nothing.
LEMMA NothingAbovePath ==
  ASSUME IInv, phase = "walk", NEW q \in PathsOf(bundle), AtTop(q),
         NEW i \in 1..Len(bundle)
  PROVE  ~Above(stack, Len(stack), bundle[i])
<1> SUFFICES ASSUME Above(stack, Len(stack), bundle[i]) PROVE FALSE
  OBVIOUS
<1>1. q \in Seq(Cert) /\ IsPath(bundle, q)
  BY PathsOfIsPath DEF IInv, TypeOK
<1>2. Len(q) = Len(stack) /\ \A h \in 1..Len(stack) : q[h] = stack[h].cert
  BY DEF AtTop, Shares
<1>3. IsParent(Last(q), bundle[i])
  BY <1>2, WalkFacts DEF Above, Last
<1>4. bundle[i] \in Certs(q)
  BY <1>1, <1>3 DEF IsPath, Certs
<1>5. PICK h \in 1..Len(stack) : q[h] = bundle[i]
  BY <1>2, <1>4 DEF Certs
<1> QED
  BY <1>2, <1>5 DEF Above

LEMMA ClimbHolds == IInv /\ Climb => IInv'
<1> SUFFICES ASSUME IInv, Climb PROVE IInv'
  OBVIOUS
<1> DEFINE n == Len(stack)
           c == bundle[stack[n].next]
           f == [cert |-> stack[n].cert, next |-> stack[n].next + 1, advanced |-> TRUE]
           s == [stack EXCEPT ![n] = f]
<1>0. phase = "walk"
  BY DEF Climb, InLoop
<1>a. /\ n \in Nat
      /\ n \in 1..n
      /\ stack[n].next \in 1..Len(bundle)
      /\ Len(bundle) \in Nat
      /\ c \in Cert
  BY <1>0, WalkFacts, BundleFacts DEF Climb, InLoop, IInv
<1>b. /\ f \in Frame
      /\ f.cert = stack[n].cert /\ f.next = stack[n].next + 1 /\ f.advanced = TRUE
  BY <1>0, <1>a, WalkFacts DEF Frame
<1>c. /\ s \in Seq(Frame) /\ Len(s) = n
      /\ \A k \in 1..n : s[k] = IF k = n THEN f ELSE stack[k]
  BY <1>0, <1>a, <1>b, WalkFacts, ExceptSeq
<1>d. NewFrame(c) \in Frame
  BY <1>a DEF NewFrame, Frame
<1>e. /\ stack' \in Seq(Frame)
      /\ Len(stack') = n + 1
      /\ stack'[n + 1] = NewFrame(c)
      /\ \A k \in 1..n : stack'[k] = s[k]
  <2>1. stack' = Append(s, NewFrame(c))
    <3>1. Candidate = c /\ Top = stack[n]
      BY <1>0, WalkFacts DEF Candidate
    <3> QED
      BY <3>1 DEF Climb
  <2> HIDE DEF s, n, c
  <2> QED
    BY <2>1, <1>a, <1>c, <1>d
<1>f. \A k \in 1..n : stack'[k].cert = stack[k].cert
  BY <1>b, <1>c, <1>e
<1>g. \A k \in 1..n : k # n => stack'[k] = stack[k]
  BY <1>c, <1>e
<1>h. stack'[n].next = stack[n].next + 1 /\ stack'[n].advanced = TRUE
  BY <1>a, <1>b, <1>c, <1>e
<1>i. stack'[n + 1].cert = c /\ stack'[n + 1].next = 1 /\ stack'[n + 1].advanced = FALSE
  BY <1>e DEF NewFrame
<1>j. bundle' = bundle /\ paths' = paths /\ next' = next /\ phase' = phase
  BY DEF Climb
<1>k. Above(stack, n, c)
  BY <1>0, ClimbableIsAbove, WalkFacts DEF Climb, Climbable, Candidate
<1>1. TypeOK'
  BY <1>e DEF TypeOK, Climb, IInv
<1>2. PhaseInv'
  <2>1. stack' # <<>>
    <3> SUFFICES ASSUME stack' = <<>> PROVE FALSE
      OBVIOUS
    <3> QED
      BY <1>a, <1>e
  <2> QED
    BY <2>1, <1>0 DEF PhaseInv, Climb, IInv
<1> HIDE DEF s, f, c
<1>3. StackInv'
  <2>1. /\ Chain(stack') \in Seq(Cert)
        /\ Len(Chain(stack')) = n + 1
        /\ \A k \in 1..n + 1 : Chain(stack')[k] = stack'[k].cert
    BY <1>e, ChainFacts
  <2>2. /\ Len(Chain(stack)) = n
        /\ \A k \in 1..n : Chain(stack)[k] = stack[k].cert
        /\ IsClimb(bundle, Chain(stack))
    BY <1>0, WalkFacts, ChainFacts
  <2>3. \A k \in 1..n : Chain(stack')[k] = Chain(stack)[k]
    BY <1>a, <1>f, <2>1, <2>2
  <2>4. Chain(stack')[n + 1] = c
    BY <1>a, <1>i, <2>1
  <2>5. IsClimb(bundle, Chain(stack'))
    <3>1. Chain(stack') # <<>>
      <4> SUFFICES ASSUME Chain(stack') = <<>> PROVE FALSE
        OBVIOUS
      <4> QED
        BY <1>a, <2>1
    <3>2. ASSUME NEW i \in 1..n
          PROVE  IsParent(Chain(stack')[i], Chain(stack')[i + 1])
      <4>1. CASE i = n
        BY <4>1, <1>a, <1>k, <2>2, <2>3, <2>4 DEF Above
      <4>2. CASE i # n
        <5>1. i \in 1..n-1 /\ i + 1 \in 1..n
          BY <4>2, <1>a
        <5> QED
          BY <5>1, <2>2, <2>3 DEF IsClimb
      <4> QED
        BY <4>1, <4>2
    <3>3. IsLeaf(bundle, Chain(stack')[1])
      BY <1>a, <2>2, <2>3 DEF IsClimb
    <3>4. Certs(Chain(stack')) \subseteq Certs(bundle)
      <4>1. ASSUME NEW k \in 1..n + 1
            PROVE  Chain(stack')[k] \in Certs(bundle)
        <5>1. CASE k = n + 1
          BY <5>1, <2>4, <1>a DEF Certs, c
        <5>2. CASE k # n + 1
          <6>1. k \in 1..n
            BY <5>2, <1>a
          <6>2. Chain(stack)[k] \in Certs(Chain(stack))
            BY <6>1, <2>2 DEF Certs
          <6> QED
            BY <6>1, <6>2, <2>2, <2>3 DEF IsClimb
        <5> QED
          BY <5>1, <5>2
      <4> QED
        BY <4>1, <2>1 DEF Certs
    <3>5. NoRepeats(Chain(stack'))
      <4>1. \A h \in 1..n : Chain(stack')[h] # c
        BY <1>k, <2>2, <2>3 DEF Above
      <4>2. \A h, k \in 1..n : Chain(stack')[h] = Chain(stack')[k] => h = k
        BY <2>2, <2>3 DEF IsClimb, NoRepeats
      <4>3. \A h \in 1..n + 1 : h = n + 1 \/ h \in 1..n
        BY <1>a
      <4> QED
        BY <2>1, <2>4, <4>1, <4>2, <4>3 DEF NoRepeats
    <3>6. \A i \in 1..Len(Chain(stack'))-1 : IsParent(Chain(stack')[i], Chain(stack')[i + 1])
      BY <3>2, <2>1, <1>a
    <3> QED
      BY <3>1, <3>3, <3>4, <3>5, <3>6 DEF IsClimb
  <2>6. ASSUME NEW k \in 1..n + 1
        PROVE  /\ stack'[k].next <= Len(bundle) + 1
               /\ stack'[k].advanced <=>
                     \E i \in 1..stack'[k].next - 1 : Above(stack', k, bundle[i])
    <3>1. CASE k = n + 1
      <4>1. stack'[n + 1].next <= Len(bundle) + 1
        BY <1>a, <1>i
      <4>2. ~stack'[n + 1].advanced
        BY <1>i
      <4>3. 1..stack'[n + 1].next - 1 = {}
        BY <1>i
      <4> QED
        BY <3>1, <4>1, <4>2, <4>3
    <3>2. CASE k = n
      <4>1. stack'[n].next <= Len(bundle) + 1
        BY <1>a, <1>h
      <4>2. stack[n].next \in 1..stack'[n].next - 1
        BY <1>a, <1>h
      <4>3. Above(stack', n, bundle[stack[n].next])
        BY <1>a, <1>f, <1>k, SameBelow DEF c
      <4>4. stack'[n].advanced
        BY <1>h
      <4> QED
        BY <3>2, <4>1, <4>2, <4>3, <4>4
    <3>3. CASE k \in 1..n /\ k # n
      <4>1. /\ stack[k].next <= Len(bundle) + 1
            /\ stack[k].advanced <=> \E i \in 1..stack[k].next - 1 : Above(stack, k, bundle[i])
        BY <3>3 DEF IInv, StackInv
      <4>2. \A d : Above(stack', k, d) <=> Above(stack, k, d)
        BY <3>3, <1>a, <1>f, SameBelow
      <4>3. stack'[k] = stack[k]
        BY <3>3, <1>g
      <4> QED
        BY <4>1, <4>2, <4>3
    <3>4. k = n + 1 \/ k \in 1..n
      BY <1>a
    <3> QED
      BY <3>1, <3>2, <3>3, <3>4
  <2> QED
    BY <2>5, <2>6, <1>e, <1>j DEF StackInv
<1>4. CollectedPathsAreReal'
  BY <1>j DEF CollectedPathsAreReal, IInv
<1>5. CompleteInv'
  <2> SUFFICES ASSUME NEW q \in PathsOf(bundle), Pending(q)
               PROVE  Pending(q)'
    BY <1>j DEF CompleteInv, IInv
  <2>0. q \in Seq(Cert) /\ IsPath(bundle, q)
    BY PathsOfIsPath DEF IInv, TypeOK
  <2>1. CASE LeafAhead(q)
    BY <2>1, <1>j DEF FirstAt, LeafAhead, Pending
  <2>2. CASE AtTop(q)
    BY <2>2, <1>0, <1>a, <1>k, NothingAbovePath DEF c
  <2>3. ASSUME NEW k \in 1..n, Forks(q, k)
        PROVE  Pending(q)'
    <3>1. PICK i \in stack[k].next..Len(bundle) : FirstAt(q[k + 1], i)
      BY <2>3 DEF Forks
    <3>2. Shares(stack', q, k) /\ k < Len(q)
      BY <2>3, <1>a, <1>f, SameBelow DEF Forks
    <3>3. CASE k # n
      <4>1. Forks(q, k)'
        BY <3>1, <3>2, <3>3, <1>g, <1>j DEF FirstAt, Forks
      <4>2. k \in 1..Len(stack')
        BY <1>a, <1>e
      <4> QED
        BY <4>1, <4>2 DEF Pending
    <3>4. CASE k = n /\ i # stack[n].next
      <4>1. i \in stack'[k].next..Len(bundle)
        BY <3>1, <3>4, <1>a, <1>h
      <4>2. Forks(q, k)'
        BY <3>1, <3>2, <4>1, <1>j DEF FirstAt, Forks
      <4>3. k \in 1..Len(stack')
        BY <3>4, <1>a, <1>e
      <4> QED
        BY <4>2, <4>3 DEF Pending
    <3>5. CASE k = n /\ i = stack[n].next
      <4>0. q[n + 1] = c
        BY <3>1, <3>5 DEF FirstAt, c
      <4>1. Shares(stack', q, n + 1)
        <5>1. \A h \in 1..n + 1 : h = n + 1 \/ h \in 1..n
          BY <1>a
        <5> QED
          BY <5>1, <4>0, <3>2, <3>5, <1>i DEF Shares
      <4>2. CASE Len(q) = n + 1
        <5>1. AtTop(q)'
          BY <4>1, <4>2, <1>e DEF AtTop
        <5> QED
          BY <5>1 DEF Pending
      <4>3. CASE Len(q) # n + 1
        <5>0. PICK m \in Nat : m = n + 1
          BY <1>a
        <5>1. m < Len(q) /\ m + 1 \in 1..Len(q)
          BY <4>3, <5>0, <3>2, <3>5, <1>a, <2>0, LenProperties
        <5>2. \E j \in 1..Len(bundle) : FirstAt(q[m + 1], j)
          <6>1. q[m + 1] \in Certs(bundle)
            <7>1. \E j \in 1..Len(bundle) : bundle[j] = q[m + 1]
              BY <5>1, <2>0, PathFacts DEF IsPath, IInv, TypeOK
            <7> QED
              BY <7>1 DEF Certs
          <6> QED
            BY <6>1, FirstFacts DEF IInv, TypeOK
        <5>3. stack'[m].next = 1 /\ Shares(stack', q, m)
          BY <4>1, <5>0, <1>i
        <5>4. Forks(q, m)'
          BY <5>1, <5>2, <5>3, <1>j DEF FirstAt, Forks
        <5>5. m \in 1..Len(stack')
          BY <5>0, <1>a, <1>e
        <5> QED
          BY <5>4, <5>5 DEF Pending
      <4> QED
        BY <4>2, <4>3
    <3> QED
      BY <3>3, <3>4, <3>5
  <2> QED
    BY <2>1, <2>2, <2>3 DEF Pending
<1>6. DedupeInv'
  BY DEF DedupeInv, Climb, IInv
<1>7. ReadInv'
  <2>1. stack # <<>>
    BY <1>a
  <2>2. PICK i \in 1..next - 1 : bundle[i] = stack[1].cert
    BY <2>1 DEF IInv, ReadInv
  <2>3. bundle[i] = stack'[1].cert
    BY <1>a, <1>f, <2>2
  <2>4. ASSUME NEW k \in 1..n
        PROVE  \E j \in 1..stack'[k].next - 1 : bundle[j] = stack'[k + 1].cert
    <3>1. CASE k # n
      <4>1. k \in 1..n - 1 /\ k + 1 \in 1..n
        BY <3>1, <1>a
      <4>2. stack'[k].next = stack[k].next /\ stack'[k + 1].cert = stack[k + 1].cert
        BY <3>1, <4>1, <1>f, <1>g
      <4> QED
        BY <4>1, <4>2 DEF IInv, ReadInv
    <3>2. CASE k = n
      <4>1. stack[n].next \in 1..stack'[n].next - 1
        BY <1>a, <1>h
      <4>2. bundle[stack[n].next] = stack'[n + 1].cert
        BY <1>i DEF c
      <4> QED
        BY <3>2, <4>1, <4>2
    <3> QED
      BY <3>1, <3>2
  <2>5. Len(stack') - 1 = n
    BY <1>a, <1>e
  <2> QED
    BY <2>2, <2>3, <2>4, <2>5, <1>j DEF ReadInv
<1> QED
  BY <1>1, <1>2, <1>3, <1>4, <1>5, <1>6, <1>7 DEF IInv

LEMMA ReturnHolds == IInv /\ Return => IInv'
<1> SUFFICES ASSUME IInv, Return PROVE IInv'
  OBVIOUS
<1> DEFINE n == Len(stack)
<1>0. phase = "walk"
  BY DEF Return
<1>a. /\ n \in Nat
      /\ n \in 1..n
      /\ n - 1 \in Nat
      /\ stack[n].next > Len(bundle)
      /\ stack[n].next \in Nat
      /\ Len(bundle) \in Nat
  BY <1>0, WalkFacts DEF Return
<1>b. /\ stack' \in Seq(Frame)
      /\ Len(stack') = n - 1
      /\ \A k \in 1..n-1 : stack'[k] = stack[k]
  <2>1. stack' = SubSeq(stack, 1, n - 1)
    BY DEF Return
  <2>2. \A k \in 1..n-1 : stack[k] \in Frame
    BY <1>0, <1>a, WalkFacts
  <2>3. /\ SubSeq(stack, 1, n - 1) \in Seq(Frame)
        /\ Len(SubSeq(stack, 1, n - 1)) = IF 1 <= n - 1 THEN n - 1 - 1 + 1 ELSE 0
        /\ \A k \in 1..n - 1 - 1 + 1 : SubSeq(stack, 1, n - 1)[k] = stack[1 + k - 1]
    BY <2>2, <1>a, SubSeqProperties
  <2>4. \A m \in Nat : m >= 1 => /\ m - 1 - 1 + 1 = m - 1
                                 /\ (IF 1 <= m - 1 THEN m - 1 - 1 + 1 ELSE 0) = m - 1
    OBVIOUS
  <2>5. \A m \in Nat : \A k \in 1..m-1 : 1 + k - 1 = k
    OBVIOUS
  <2> HIDE DEF n
  <2>6. Len(stack') = n - 1
    BY <2>1, <2>3, <2>4, <1>a
  <2>7. \A k \in 1..n-1 : stack'[k] = stack[k]
    BY <2>1, <2>3, <2>4, <2>5, <1>a
  <2> QED
    BY <2>1, <2>3, <2>6, <2>7
<1>c. \A k \in 1..n-1 : stack'[k].cert = stack[k].cert
  BY <1>b
<1>d. bundle' = bundle /\ next' = next /\ checked' = checked /\ unique' = unique
  BY DEF Return
<1>e. /\ Chain(stack) \in Seq(Cert)
      /\ Len(Chain(stack)) = n
      /\ \A k \in 1..n : Chain(stack)[k] = stack[k].cert
      /\ IsClimb(bundle, Chain(stack))
  BY <1>0, WalkFacts, ChainFacts
<1>f. paths \in Seq(Seq(Cert)) /\ Len(paths) \in Nat
  BY LenProperties DEF IInv, TypeOK
<1>g. /\ paths' \in Seq(Seq(Cert))
      /\ Len(paths') \in Nat
      /\ Len(paths') >= Len(paths)
      /\ \A i \in 1..Len(paths) : paths'[i] = paths[i]
  BY <1>e, <1>f DEF Return
<1>h. checked = 0 /\ unique = <<>>
  BY <1>0 DEF IInv, PhaseInv
<1>i. stack[n].advanced <=> \E i \in 1..Len(bundle) : Above(stack, n, bundle[i])
  <2>1. /\ stack[n].next <= Len(bundle) + 1
        /\ stack[n].advanced <=> \E i \in 1..stack[n].next - 1 : Above(stack, n, bundle[i])
    BY <1>a DEF IInv, StackInv
  <2>2. stack[n].next - 1 = Len(bundle)
    BY <2>1, <1>a
  <2> QED
    BY <2>1, <2>2
<1>k. (n = 1 /\ phase' = "leaves" /\ stack' = <<>>) \/ (n # 1 /\ phase' = "walk" /\ stack' # <<>>)
  <2>1. CASE n = 1
    BY <2>1, <1>b DEF Return
  <2>2. CASE n # 1
    <3>1. Len(stack') # 0
      BY <2>2, <1>a, <1>b
    <3>2. stack' # <<>>
      BY <3>1
    <3> QED
      BY <2>2, <3>2 DEF Return
  <2> QED
    BY <2>1, <2>2
<1>1. TypeOK'
  BY <1>b, <1>d, <1>g, <1>h, <1>k DEF TypeOK, IInv
<1>2. PhaseInv'
  BY <1>d, <1>h, <1>k DEF PhaseInv
<1>3. StackInv'
  <2>1. ASSUME stack' # <<>>
        PROVE  IsClimb(bundle, Chain(stack'))
    <3>1. /\ Chain(stack') \in Seq(Cert)
          /\ Len(Chain(stack')) = n - 1
          /\ \A k \in 1..n-1 : Chain(stack')[k] = stack'[k].cert
      BY <1>b, ChainFacts
    <3>2. n - 1 \in 1..n-1
      <4>1. n # 1
        BY <2>1, <1>k
      <4>2. \A m \in Nat : m \in 1..m /\ m # 1 => m - 1 \in 1..m-1
        OBVIOUS
      <4> QED
        BY <4>1, <4>2, <1>a
    <3>3. \A k \in 1..n-1 : k \in 1..n /\ Chain(stack')[k] = Chain(stack)[k]
      BY <1>a, <1>c, <1>e, <3>1
    <3>4. Chain(stack') # <<>>
      <4>1. Len(Chain(stack')) # 0
        BY <3>1, <3>2, <1>a
      <4> QED
        BY <4>1
    <3>5. \A i \in 1..Len(Chain(stack'))-1 : IsParent(Chain(stack')[i], Chain(stack')[i + 1])
      <4> TAKE i \in 1..Len(Chain(stack'))-1
      <4>1. i \in 1..n-1 /\ i + 1 \in 1..n-1
        BY <3>1, <1>a
      <4> QED
        BY <4>1, <3>3, <1>e DEF IsClimb
    <3>6. IsLeaf(bundle, Chain(stack')[1])
      <4>1. 1 \in 1..n-1
        BY <3>2
      <4> QED
        BY <4>1, <3>3, <1>e DEF IsClimb
    <3>7. Certs(Chain(stack')) \subseteq Certs(bundle)
      <4>1. Certs(Chain(stack')) \subseteq Certs(Chain(stack))
        BY <3>1, <3>3, <1>e DEF Certs
      <4> QED
        BY <4>1, <1>e DEF IsClimb
    <3>8. NoRepeats(Chain(stack'))
      <4>1. NoRepeats(Chain(stack))
        BY <1>e DEF IsClimb
      <4> QED
        BY <4>1, <3>1, <3>3, <1>e DEF NoRepeats
    <3> QED
      BY <3>4, <3>5, <3>6, <3>7, <3>8 DEF IsClimb
  <2>2. ASSUME NEW k \in 1..n-1
        PROVE  /\ stack'[k].next <= Len(bundle) + 1
               /\ stack'[k].advanced <=>
                     \E i \in 1..stack'[k].next - 1 : Above(stack', k, bundle[i])
    <3>1. k \in 1..n
      BY <1>a
    <3>2. /\ stack[k].next <= Len(bundle) + 1
          /\ stack[k].advanced <=> \E i \in 1..stack[k].next - 1 : Above(stack, k, bundle[i])
      BY <3>1 DEF IInv, StackInv
    <3>3. \A c : Above(stack', k, c) <=> Above(stack, k, c)
      BY <1>a, <1>c, SameBelow
    <3>4. stack'[k] = stack[k]
      BY <1>b
    <3> QED
      BY <3>2, <3>3, <3>4
  <2> QED
    BY <2>1, <2>2, <1>b, <1>d DEF StackInv
<1>4. CollectedPathsAreReal'
  <2>1. \A i \in 1..Len(paths) : IsPath(bundle, paths[i])
    BY DEF IInv, CollectedPathsAreReal
  <2>2. CASE stack[n].advanced
    <3>1. paths' = paths
      BY <2>2, <1>0, WalkFacts DEF Return
    <3> QED
      BY <2>1, <3>1, <1>d DEF CollectedPathsAreReal
  <2>3. CASE ~stack[n].advanced
    <3>1. paths' = Append(paths, Chain(stack))
      BY <2>3, <1>0, WalkFacts DEF Return
    <3>2. /\ Len(paths') = Len(paths) + 1
          /\ paths'[Len(paths) + 1] = Chain(stack)
      BY <3>1, <1>e, <1>f
    <3>3. IsPath(bundle, Chain(stack))
      <4>1. Last(Chain(stack)) = stack[n].cert
        BY <1>a, <1>e DEF Last
      <4>2. ASSUME NEW c \in Certs(bundle), IsParent(stack[n].cert, c)
            PROVE  c \in Certs(Chain(stack))
        <5>1. ~Above(stack, n, c)
          BY <2>3, <1>i DEF Certs
        <5>2. \E h \in 1..n : stack[h].cert = c
          BY <4>2, <5>1 DEF Above
        <5> QED
          BY <5>2, <1>e DEF Certs
      <4> QED
        BY <1>e, <4>1, <4>2 DEF IsPath
    <3>4. \A i \in 1..Len(paths') : i \in 1..Len(paths) \/ i = Len(paths) + 1
      BY <3>2, <1>f
    <3> QED
      BY <2>1, <3>2, <3>3, <3>4, <1>d, <1>g DEF CollectedPathsAreReal
  <2> QED
    BY <2>2, <2>3
<1>5. CompleteInv'
  <2> SUFFICES ASSUME NEW q \in PathsOf(bundle)
               PROVE  q \in Certs(paths') \/ Pending(q)'
    BY <1>d DEF CompleteInv
  <2>0. q \in Certs(paths) \/ Pending(q)
    BY DEF IInv, CompleteInv
  <2>1. CASE q \in Certs(paths)
    <3>1. PICK i \in 1..Len(paths) : paths[i] = q
      BY <2>1 DEF Certs
    <3>2. i \in 1..Len(paths') /\ paths'[i] = q
      BY <3>1, <1>f, <1>g
    <3> QED
      BY <3>2 DEF Certs
  <2>2. CASE LeafAhead(q)
    BY <2>2, <1>d DEF FirstAt, LeafAhead, Pending
  <2>3. CASE AtTop(q)
    <3>1. ~stack[n].advanced
      BY <2>3, <1>0, <1>i, NothingAbovePath
    <3>2. paths' = Append(paths, Chain(stack))
      BY <3>1, <1>0, WalkFacts DEF Return
    <3>3. /\ Len(paths) + 1 \in 1..Len(paths')
          /\ paths'[Len(paths) + 1] = Chain(stack)
      BY <3>2, <1>e, <1>f
    <3>4. q \in Seq(Cert)
      BY PathsOfIsPath DEF IInv, TypeOK
    <3>5. q = Chain(stack)
      BY <2>3, <3>4, <1>e, SeqEqual DEF AtTop, Shares
    <3> QED
      BY <3>3, <3>5 DEF Certs
  <2>4. ASSUME NEW k \in 1..n, Forks(q, k)
        PROVE  Pending(q)'
    <3>1. PICK i \in stack[k].next..Len(bundle) : FirstAt(q[k + 1], i)
      BY <2>4 DEF Forks
    <3>2. k # n
      BY <3>1, <1>a
    <3>3. k \in 1..n-1
      BY <3>2, <1>a
    <3>4. Shares(stack', q, k) /\ k < Len(q)
      BY <2>4, <3>3, <1>a, <1>c, SameBelow DEF Forks
    <3>5. Forks(q, k)'
      BY <3>1, <3>3, <3>4, <1>b, <1>d DEF FirstAt, Forks
    <3> QED
      BY <3>3, <3>5, <1>b DEF Pending
  <2> QED
    BY <2>0, <2>1, <2>2, <2>3, <2>4 DEF Pending
<1>6. DedupeInv'
  <2>1. Certs(unique') = {} /\ {paths'[i] : i \in 1..checked'} = {}
    BY <1>d, <1>h DEF Certs
  <2>2. NoRepeats(unique')
    BY <1>d DEF IInv, DedupeInv
  <2> QED
    BY <2>1, <2>2 DEF DedupeInv
<1>7. ReadInv'
  <2>1. stack' # <<>> => stack'[1] = stack[1] /\ stack # <<>>
    <3>1. stack' # <<>> => 1 \in 1..n - 1
      <4>1. \A m \in Nat : m \in 1..m /\ m # 1 => 1 \in 1..m - 1
        OBVIOUS
      <4> QED
        BY <4>1, <1>a, <1>k
    <3> QED
      BY <3>1, <1>a, <1>b
  <2>2. ASSUME NEW k \in 1..n - 1 - 1
        PROVE  \E j \in 1..stack'[k].next - 1 : bundle[j] = stack'[k + 1].cert
    <3>1. k \in 1..n - 1 /\ k + 1 \in 1..n - 1
      BY <1>a
    <3>2. stack'[k] = stack[k] /\ stack'[k + 1] = stack[k + 1]
      BY <3>1, <1>b
    <3> QED
      BY <3>1, <3>2 DEF IInv, ReadInv
  <2> QED
    BY <2>1, <2>2, <1>b, <1>d DEF IInv, ReadInv
<1> QED
  BY <1>1, <1>2, <1>3, <1>4, <1>5, <1>6, <1>7 DEF IInv

-----------------------------------------------------------------------------
(* The loop that drops repetitions *)

LEMMA DedupeFacts ==
  ASSUME IInv, phase = "dedupe", checked < Len(paths)
  PROVE  /\ Len(paths) \in Nat
         /\ checked \in Nat
         /\ checked + 1 \in 1..Len(paths)
         /\ paths[checked + 1] \in Seq(Cert)
         /\ unique \in Seq(Seq(Cert))
         /\ Len(unique) \in Nat
         /\ {paths[i] : i \in 1..checked + 1}
               = {paths[i] : i \in 1..checked} \cup {paths[checked + 1]}
<1>1. /\ paths \in Seq(Seq(Cert))
      /\ unique \in Seq(Seq(Cert))
      /\ checked \in 0..Len(paths)
  BY DEF IInv, TypeOK
<1>2. Len(paths) \in Nat /\ Len(unique) \in Nat
  BY <1>1, LenProperties
<1>3. checked \in Nat /\ checked + 1 \in 1..Len(paths)
  BY <1>1, <1>2
<1>4. 1..checked + 1 = (1..checked) \cup {checked + 1}
  BY <1>3
<1> QED
  BY <1>1, <1>2, <1>3, <1>4, ElementOfSeq

LEMMA KeepHolds == IInv /\ Keep => IInv'
<1> SUFFICES ASSUME IInv, Keep PROVE IInv'
  OBVIOUS
<1> DEFINE x == paths[checked + 1]
<1>0. phase = "dedupe" /\ checked < Len(paths)
  BY DEF Keep
<1>a. /\ bundle' = bundle /\ phase' = phase /\ next' = next /\ stack' = stack
      /\ paths' = paths /\ checked' = checked + 1 /\ unique' = Append(unique, x)
      /\ x \notin Certs(unique)
  BY DEF Keep
<1>b. /\ unique' \in Seq(Seq(Cert))
      /\ Len(unique') = Len(unique) + 1
      /\ unique'[Len(unique) + 1] = x
      /\ \A i \in 1..Len(unique) : unique'[i] = unique[i]
  BY <1>0, <1>a, DedupeFacts
<1>c. \A i \in 1..Len(unique') : i \in 1..Len(unique) \/ i = Len(unique) + 1
  BY <1>0, <1>b, DedupeFacts
<1>1. TypeOK'
  <2>1. checked' \in 0..Len(paths')
    BY <1>0, <1>a, DedupeFacts
  <2> QED
    BY <2>1, <1>a, <1>b DEF TypeOK, IInv
<1>2. PhaseInv'
  BY <1>0, <1>a DEF PhaseInv, IInv
<1>3. StackInv'
  BY <1>a DEF StackInv, IInv, Above
<1>4. CollectedPathsAreReal'
  BY <1>a DEF CollectedPathsAreReal, IInv
<1>5. CompleteInv'
  <2>1. bundle' = bundle /\ next' = next /\ stack' = stack /\ paths' = paths
    BY <1>a
  <2>2. ASSUME NEW q, Pending(q)
        PROVE  Pending(q)'
    <3>1. LeafAhead(q) => LeafAhead(q)'
      BY <2>1 DEF LeafAhead, FirstAt
    <3>2. AtTop(q) => AtTop(q)'
      BY <2>1 DEF AtTop, Shares
    <3>3. (\E k \in 1..Len(stack) : Forks(q, k)) => (\E k \in 1..Len(stack) : Forks(q, k))'
      BY <2>1 DEF Forks, Shares, FirstAt
    <3> QED
      BY <2>2, <3>1, <3>2, <3>3 DEF Pending
  <2> QED
    BY <2>1, <2>2 DEF CompleteInv, IInv
<1>6. DedupeInv'
  <2>1. Certs(unique') = Certs(unique) \cup {x}
    <3>1. ASSUME NEW y \in Certs(unique') PROVE y \in Certs(unique) \cup {x}
      <4>1. PICK i \in 1..Len(unique') : y = unique'[i]
        BY DEF Certs
      <4> QED
        BY <4>1, <1>b, <1>c DEF Certs
    <3>2. ASSUME NEW y \in Certs(unique) PROVE y \in Certs(unique')
      <4>1. PICK i \in 1..Len(unique) : y = unique[i]
        BY DEF Certs
      <4>2. i \in 1..Len(unique') /\ y = unique'[i]
        BY <4>1, <1>0, <1>b, DedupeFacts
      <4> QED
        BY <4>2 DEF Certs
    <3>3. x \in Certs(unique')
      <4>1. Len(unique) + 1 \in 1..Len(unique')
        BY <1>0, <1>b, DedupeFacts
      <4> QED
        BY <4>1, <1>b DEF Certs
    <3> QED
      BY <3>1, <3>2, <3>3
  <2>2. Certs(unique') = {paths'[i] : i \in 1..checked'}
    BY <2>1, <1>0, <1>a, DedupeFacts DEF IInv, DedupeInv
  <2>3. NoRepeats(unique')
    <3>1. \A i \in 1..Len(unique) : unique[i] # x
      BY <1>a DEF Certs
    <3>2. NoRepeats(unique)
      BY DEF IInv, DedupeInv
    <3> QED
      BY <3>1, <3>2, <1>b, <1>c DEF NoRepeats
  <2> QED
    BY <2>2, <2>3 DEF DedupeInv
<1>7. ReadInv'
  BY <1>a DEF ReadInv, IInv
<1> QED
  BY <1>1, <1>2, <1>3, <1>4, <1>5, <1>6, <1>7 DEF IInv

LEMMA DropHolds == IInv /\ Drop => IInv'
<1> SUFFICES ASSUME IInv, Drop PROVE IInv'
  OBVIOUS
<1>0. phase = "dedupe" /\ checked < Len(paths)
  BY DEF Drop
<1>a. /\ bundle' = bundle /\ phase' = phase /\ next' = next /\ stack' = stack
      /\ paths' = paths /\ checked' = checked + 1 /\ unique' = unique
      /\ paths[checked + 1] \in Certs(unique)
  BY DEF Drop
<1>1. TypeOK'
  <2>1. checked' \in 0..Len(paths')
    BY <1>0, <1>a, DedupeFacts
  <2> QED
    BY <2>1, <1>a DEF TypeOK, IInv
<1>2. PhaseInv'
  BY <1>0, <1>a DEF PhaseInv, IInv
<1>3. StackInv'
  BY <1>a DEF StackInv, IInv, Above
<1>4. CollectedPathsAreReal'
  BY <1>a DEF CollectedPathsAreReal, IInv
<1>5. CompleteInv'
  BY <1>a DEF FirstAt, CompleteInv, IInv, Pending, LeafAhead, AtTop, Shares, Forks
<1>6. DedupeInv'
  BY <1>0, <1>a, DedupeFacts DEF IInv, DedupeInv
<1>7. ReadInv'
  BY <1>a DEF ReadInv, IInv
<1> QED
  BY <1>1, <1>2, <1>3, <1>4, <1>5, <1>6, <1>7 DEF IInv

LEMMA FinishHolds == IInv /\ Finish => IInv'
<1> SUFFICES ASSUME IInv, Finish PROVE IInv'
  OBVIOUS
<1> USE DEF IInv
<1>1. TypeOK'
  BY DEF TypeOK, Finish
<1>2. PhaseInv'
  BY DEF PhaseInv, Finish
<1>3. StackInv'
  BY DEF StackInv, Finish, Above
<1>4. CollectedPathsAreReal'
  BY DEF CollectedPathsAreReal, Finish
<1>5. CompleteInv'
  BY DEF FirstAt, CompleteInv, Pending, LeafAhead, AtTop, Shares, Forks, Finish
<1>6. DedupeInv'
  BY DEF DedupeInv, Finish
<1>7. ReadInv'
  BY DEF ReadInv, Finish
<1> QED
  BY <1>1, <1>2, <1>3, <1>4, <1>5, <1>6, <1>7

LEMMA StutterHolds == IInv /\ UNCHANGED vars => IInv'
  BY DEF vars, IInv, TypeOK, PhaseInv, StackInv, Above, CollectedPathsAreReal,
         CompleteInv, Pending, LeafAhead, AtTop, Shares, Forks, FirstAt, ReadInv,
         DedupeInv

-----------------------------------------------------------------------------
(* The theorems *)

LEMMA Inductive == IInv /\ [Next]_vars => IInv'
  BY SkipLeafHolds, PickLeafHolds, EndLeavesHolds, SkipParentHolds, ClimbHolds,
     ReturnHolds, KeepHolds, DropHolds, FinishHolds, StutterHolds DEF Next

\* The invariant holds in every reachable state, for every bundle.
LEMMA Invariance == Spec => []IInv
  BY InitHolds, Inductive, PTL DEF Spec

\* The search is type correct.
THEOREM TypeCorrect == Spec => []TypeOK
<1>1. IInv => TypeOK
  BY DEF IInv
<1> QED
  BY <1>1, Invariance, PTL

\* Soundness: what walk() collects are paths of the bundle.
THEOREM Soundness == Spec => []CollectedPathsAreReal
<1>1. IInv => CollectedPathsAreReal
  BY DEF IInv
<1> QED
  BY <1>1, Invariance, PTL

\* Once the last loop has looked at everything, the result is complete.
LEMMA AllDelivered ==
  ASSUME IInv, phase \in {"dedupe", "done"}, checked = Len(paths)
  PROVE  Certs(unique) = PathsOf(bundle)
<1>1. Certs(unique) = Certs(paths)
  BY DEF IInv, DedupeInv, Certs
<1>2. ASSUME NEW q \in Certs(paths) PROVE q \in PathsOf(bundle)
  <2>1. PICK i \in 1..Len(paths) : q = paths[i]
    BY DEF Certs
  <2>2. IsPath(bundle, q) /\ q \in Seq(Cert)
    BY <2>1, ElementOfSeq DEF IInv, TypeOK, CollectedPathsAreReal
  <2> QED
    BY <2>2, PathsOfIsPath DEF IInv, TypeOK
<1>3. ASSUME NEW q \in PathsOf(bundle) PROVE q \in Certs(paths)
  <2>1. q \in Certs(paths) \/ Pending(q)
    BY DEF IInv, CompleteInv
  <2>2. stack = <<>> /\ next > Len(bundle)
    BY DEF IInv, PhaseInv
  <2>3. Len(stack) = 0
    BY <2>2
  <2>4. ~LeafAhead(q)
    BY <2>2, BundleFacts DEF LeafAhead, IInv, TypeOK
  <2>5. ~AtTop(q)
    <3>1. q \in Seq(Cert) /\ IsPath(bundle, q)
      BY PathsOfIsPath DEF IInv, TypeOK
    <3>2. Len(q) >= 1
      BY <3>1, PathFacts DEF IsPath, IInv, TypeOK
    <3> QED
      BY <2>3, <3>2 DEF AtTop
  <2>6. ~\E k \in 1..Len(stack) : Forks(q, k)
    BY <2>3
  <2> QED
    BY <2>1, <2>4, <2>5, <2>6 DEF Pending
<1> QED
  BY <1>1, <1>2, <1>3

\* Completeness: build_paths returns every path of the bundle, whatever its
\* order, its repetitions and its cross-signed loops, and nothing else.
THEOREM Completeness == Spec => []NothingLost
<1>1. IInv => NothingLost
  BY AllDelivered DEF NothingLost, IInv, PhaseInv
<1> QED
  BY <1>1, Invariance, PTL

-----------------------------------------------------------------------------
(* The order of the result                                                 *)
(*                                                                         *)
(* The search meets the paths in the order in which their certificates are *)
(* read: whenever one is collected, all that come before it have been.     *)
(* Only first copies count.  Second copies in the bundle make the search   *)
(* come by again, which is why the paths collected are not sorted; their   *)
(* first occurrences are.                                                  *)

\* p and q part at their k-th certificate, which p reads first.
PartAt(p, q, k) ==
    /\ k \in 1..Len(p) /\ k <= Len(q)
    /\ \A h \in 1..k-1 : p[h] = q[h]
    /\ ReadAt(p[k]) < ReadAt(q[k])

Before(p, q) == \E k \in 1..Len(p) : PartAt(p, q, k)

CollectedInOrder ==
    \A j \in 1..Len(paths) : \A q \in PathsOf(bundle) :
        Before(q, paths[j]) => \E i \in 1..j-1 : paths[i] = q

OrderInv ==
    /\ CollectedInOrder
    /\ \A i, j \in 1..Len(unique) : i < j => Before(unique[i], unique[j])

\* Where a path of the bundle stands in it.
LEMMA ReadFacts ==
  ASSUME bundle \in Seq(Cert), NEW q \in PathsOf(bundle)
  PROVE  /\ q \in Seq(Cert) /\ IsPath(bundle, q) /\ Len(q) \in Nat /\ Len(q) >= 1
         /\ \A k \in 1..Len(q) : /\ ReadAt(q[k]) \in Nat
                                 /\ bundle[ReadAt(q[k])] = q[k]
                                 /\ \A i \in 1..Len(bundle) :
                                        bundle[i] = q[k] => ReadAt(q[k]) <= i
                                 /\ \A i \in 1..Len(bundle) :
                                        FirstAt(q[k], i) => i = ReadAt(q[k])
<1>1. q \in Seq(Cert) /\ IsPath(bundle, q)
  BY PathsOfIsPath
<1>2. /\ Len(q) \in Nat /\ Len(q) >= 1
      /\ \A k \in 1..Len(q) : \E j \in 1..Len(bundle) : bundle[j] = q[k]
  BY <1>1, PathFacts DEF IsPath
<1>3. \A k \in 1..Len(q) : q[k] \in Certs(bundle)
  BY <1>2 DEF Certs
<1>4. Len(bundle) \in Nat
  BY LenProperties
<1>5. ASSUME NEW k \in 1..Len(q)
      PROVE  /\ ReadAt(q[k]) \in Nat
             /\ bundle[ReadAt(q[k])] = q[k]
             /\ \A i \in 1..Len(bundle) : bundle[i] = q[k] => ReadAt(q[k]) <= i
             /\ \A i \in 1..Len(bundle) : FirstAt(q[k], i) => i = ReadAt(q[k])
  <2>1. /\ ReadAt(q[k]) \in 1..Len(bundle)
        /\ FirstAt(q[k], ReadAt(q[k]))
        /\ \A i \in 1..Len(bundle) : bundle[i] = q[k] => ReadAt(q[k]) <= i
        /\ \A i \in 1..Len(bundle) : FirstAt(q[k], i) => i = ReadAt(q[k])
    BY <1>3, FirstFacts
  <2> QED
    BY <1>4, <2>1 DEF FirstAt
<1> QED
  BY <1>1, <1>2, <1>5

\* Neither of two paths is a part of the other, so one comes first.
LEMMA OneIsBefore ==
  ASSUME bundle \in Seq(Cert), NEW p \in PathsOf(bundle), NEW q \in PathsOf(bundle), p # q
  PROVE  Before(p, q) \/ Before(q, p)
<1> DEFINE D == {k \in 1..Len(p) : k <= Len(q) /\ p[k] # q[k]}
<1>1. /\ p \in Seq(Cert) /\ IsPath(bundle, p) /\ Len(p) \in Nat /\ Len(p) >= 1
      /\ q \in Seq(Cert) /\ IsPath(bundle, q) /\ Len(q) \in Nat /\ Len(q) >= 1
  BY ReadFacts
<1>2. ASSUME NEW a \in PathsOf(bundle), NEW b \in PathsOf(bundle),
             a \in Seq(Cert), IsPath(bundle, a), Len(a) \in Nat, Len(a) >= 1,
             b \in Seq(Cert), IsPath(bundle, b), Len(b) \in Nat,
             Len(a) < Len(b), \A k \in 1..Len(a) : a[k] = b[k]
      PROVE  FALSE
  <2>1. Len(a) \in 1..Len(b)-1 /\ Len(a) \in 1..Len(a) /\ Len(a) + 1 \in 1..Len(b)
    BY <1>2
  <2>2. IsParent(b[Len(a)], b[Len(a) + 1])
    BY <1>2, <2>1 DEF IsPath, IsClimb
  <2>3. b[Len(a) + 1] \in Certs(bundle)
    BY <1>2, <2>1 DEF IsPath, IsClimb, Certs
  <2>4. Last(a) = b[Len(a)]
    BY <1>2, <2>1 DEF Last
  <2>5. b[Len(a) + 1] \in Certs(a)
    BY <1>2, <2>2, <2>3, <2>4 DEF IsPath
  <2>6. PICK h \in 1..Len(a) : a[h] = b[Len(a) + 1]
    BY <2>5 DEF Certs
  <2>7. h \in 1..Len(b) /\ h # Len(a) + 1 /\ b[h] = b[Len(a) + 1]
    BY <1>2, <2>6
  <2> QED
    BY <1>2, <2>1, <2>7 DEF IsPath, IsClimb, NoRepeats
<1>3. D # {}
  <2> SUFFICES ASSUME D = {} PROVE FALSE
    OBVIOUS
  <2>1. CASE Len(p) < Len(q)
    BY <1>1, <1>2, <2>1
  <2>2. CASE Len(q) < Len(p)
    <3>1. \A k \in 1..Len(q) : k \in 1..Len(p) /\ k <= Len(q)
      BY <1>1, <2>2
    <3>2. \A k \in 1..Len(q) : q[k] = p[k]
      BY <3>1
    <3> QED
      BY <1>1, <1>2, <2>2, <3>2
  <2>3. CASE Len(p) = Len(q)
    <3>1. \A k \in 1..Len(p) : p[k] = q[k]
      BY <1>1, <2>3
    <3> QED
      BY <1>1, <2>3, <3>1, SeqEqual
  <2> QED
    BY <1>1, <2>1, <2>2, <2>3
<1>4. PICK k \in D : \A j \in D : k <= j
  <2>1. D \in SUBSET Nat
    BY <1>1
  <2> HIDE DEF D
  <2> QED
    BY <1>3, <2>1, Least
<1>5. k \in 1..Len(p) /\ k \in 1..Len(q) /\ k \in Nat /\ p[k] # q[k]
  BY <1>1, <1>4
<1>6. \A h \in 1..k-1 : p[h] = q[h]
  <2> TAKE h \in 1..k-1
  <2>1. h \in 1..Len(p) /\ h <= Len(q) /\ ~(k <= h)
    BY <1>1, <1>5
  <2> QED
    BY <1>4, <2>1
<1>7. /\ ReadAt(p[k]) \in Nat /\ ReadAt(q[k]) \in Nat
      /\ bundle[ReadAt(p[k])] = p[k] /\ bundle[ReadAt(q[k])] = q[k]
  BY <1>5, ReadFacts
<1>8. ReadAt(p[k]) < ReadAt(q[k]) \/ ReadAt(q[k]) < ReadAt(p[k])
  BY <1>5, <1>7
<1> HIDE DEF D
<1>9. PartAt(p, q, k) \/ PartAt(q, p, k)
  BY <1>1, <1>5, <1>6, <1>8 DEF PartAt
<1> QED
  BY <1>5, <1>9 DEF Before

\* Two paths part at one place only.
LEMMA PartOnce ==
  ASSUME NEW p, NEW q, NEW m \in Nat, m >= 1,
         \A h \in 1..m-1 : p[h] = q[h], ReadAt(p[m]) < ReadAt(q[m]),
         ReadAt(p[m]) \in Nat, ReadAt(q[m]) \in Nat,
         Len(q) \in Nat, \A k \in 1..Len(q) : ReadAt(q[k]) \in Nat
  PROVE  ~Before(q, p)
<1> SUFFICES ASSUME NEW k \in 1..Len(q), PartAt(q, p, k) PROVE FALSE
  BY DEF Before
<1>0. ReadAt(q[k]) \in Nat /\ ReadAt(q[k]) < ReadAt(p[k]) /\ \A h \in 1..k-1 : q[h] = p[h]
  BY DEF PartAt
<1>1. CASE k < m
  <2>1. p[k] = q[k]
    BY <1>1
  <2> QED
    BY <1>0, <2>1
<1>2. CASE k = m
  BY <1>0, <1>2
<1>3. CASE k > m
  <2>1. q[m] = p[m]
    BY <1>0, <1>3
  <2> QED
    BY <2>1
<1> QED
  BY <1>1, <1>2, <1>3

LEMMA OrderInit == Init => OrderInv
  BY DEF Init, OrderInv, CollectedInOrder

\* Nothing that comes before the chain of a call that ends is still ahead.
LEMMA ReturnInOrder ==
  ASSUME IInv, Return, ~Top.advanced, NEW q \in PathsOf(bundle), Before(q, Chain(stack))
  PROVE  q \in Certs(paths)
<1> DEFINE n == Len(stack)
           p == Chain(stack)
<1>0. phase = "walk" /\ bundle \in Seq(Cert) /\ stack # <<>> /\ Len(bundle) \in Nat
  BY BundleFacts DEF Return, IInv, TypeOK, PhaseInv
<1>1. /\ n \in Nat /\ n \in 1..n /\ stack[n].next > Len(bundle)
      /\ Len(p) = n /\ \A k \in 1..n : p[k] = stack[k].cert
      /\ \A k \in 1..n : stack[k].next \in Nat
      /\ Certs(p) \subseteq Certs(bundle)
  BY <1>0, WalkFacts, ChainFacts DEF Return, IsClimb
<1>2. /\ q \in Seq(Cert) /\ Len(q) \in Nat /\ Len(q) >= 1
      /\ \A k \in 1..Len(q) : /\ ReadAt(q[k]) \in Nat
                              /\ \A i \in 1..Len(bundle) :
                                     FirstAt(q[k], i) => i = ReadAt(q[k])
  BY <1>0, ReadFacts
<1>3. \A k \in 1..n : /\ ReadAt(p[k]) \in Nat
                      /\ \A i \in 1..Len(bundle) : bundle[i] = p[k] => ReadAt(p[k]) <= i
  <2> TAKE k \in 1..n
  <2>1. p[k] \in Certs(bundle)
    BY <1>1 DEF Certs
  <2> QED
    BY <1>0, <2>1, FirstFacts
<1> SUFFICES ASSUME q \notin Certs(paths) PROVE FALSE
  OBVIOUS
<1>4. Pending(q)
  BY DEF IInv, CompleteInv
<1> HIDE DEF p
<1>5. Before(q, p)
  BY DEF p
<1>6. CASE LeafAhead(q)
  <2>1. PICK i \in next..Len(bundle) : FirstAt(q[1], i)
    BY <1>6 DEF LeafAhead
  <2>2. next \in Nat /\ next >= 1 /\ next <= Len(bundle) + 1
    BY <1>0 DEF IInv, TypeOK
  <2>3. PICK j \in 1..next - 1 : bundle[j] = stack[1].cert
    BY <1>0 DEF IInv, ReadInv
  <2>4. i \in 1..Len(bundle) /\ j \in 1..Len(bundle) /\ j < i /\ 1 \in 1..n /\ 1 \in 1..Len(q)
    BY <1>0, <1>1, <1>2, <2>1, <2>2
  <2>5. ReadAt(q[1]) = i /\ ReadAt(p[1]) <= j /\ ReadAt(p[1]) \in Nat /\ ReadAt(q[1]) \in Nat
    BY <1>1, <1>2, <1>3, <2>1, <2>3, <2>4
  <2>6. ReadAt(p[1]) < ReadAt(q[1])
    BY <2>4, <2>5
  <2>7. PICK m \in Nat : m = 1
    OBVIOUS
  <2>8. m >= 1 /\ \A h \in 1..m-1 : p[h] = q[h]
    BY <2>7
  <2>9. \A k \in 1..Len(q) : ReadAt(q[k]) \in Nat
    BY <1>2
  <2>10. ReadAt(p[m]) < ReadAt(q[m]) /\ ReadAt(p[m]) \in Nat /\ ReadAt(q[m]) \in Nat
    BY <2>5, <2>6, <2>7
  <2>11. ~Before(q, p)
    BY <1>2, <2>7, <2>8, <2>9, <2>10, PartOnce
  <2> QED
    BY <1>5, <2>11
<1>7. CASE AtTop(q)
  <2>1. Len(q) = n /\ \A h \in 1..n : q[h] = p[h]
    BY <1>1, <1>7 DEF AtTop, Shares
  <2>2. PICK k \in 1..Len(q) : PartAt(q, p, k)
    BY <1>5 DEF Before
  <2> QED
    BY <1>2, <2>1, <2>2 DEF PartAt
<1>8. ASSUME NEW k \in 1..n, Forks(q, k)
      PROVE  FALSE
  <2>1. PICK i \in stack[k].next..Len(bundle) : FirstAt(q[k + 1], i)
    BY <1>8 DEF Forks
  <2>2. k < n /\ k \in Nat /\ stack[k].next \in Nat
    BY <1>0, <1>1, <2>1
  <2>3. k \in 1..n-1 /\ k + 1 \in 1..n
    BY <1>1, <2>2
  <2>4. PICK j \in 1..stack[k].next - 1 : bundle[j] = stack[k + 1].cert
    BY <2>3 DEF IInv, ReadInv
  <2>5. k + 1 \in 1..Len(q) /\ \A h \in 1..k : q[h] = stack[h].cert
    BY <1>2, <1>8, <2>2 DEF Forks, Shares
  <2>6. stack[k].next <= Len(bundle) + 1 /\ stack[k].next >= 1
    BY <1>0, <1>1, WalkFacts DEF IInv, StackInv
  <2>7. i \in 1..Len(bundle) /\ j \in 1..Len(bundle) /\ j < i
    BY <1>0, <2>1, <2>2, <2>4, <2>6
  <2>8. /\ ReadAt(q[k + 1]) = i /\ ReadAt(p[k + 1]) <= j
        /\ ReadAt(p[k + 1]) \in Nat /\ ReadAt(q[k + 1]) \in Nat
    BY <1>1, <1>2, <1>3, <2>1, <2>3, <2>4, <2>5, <2>7
  <2>9. ReadAt(p[k + 1]) < ReadAt(q[k + 1])
    BY <2>7, <2>8
  <2>10. PICK m \in Nat : m = k + 1
    BY <2>2
  <2>11. m >= 1 /\ \A h \in 1..m-1 : p[h] = q[h]
    BY <1>1, <2>2, <2>3, <2>5, <2>10
  <2> QED
    BY <1>2, <1>5, <2>8, <2>9, <2>10, <2>11, PartOnce
<1> QED
  BY <1>4, <1>6, <1>7, <1>8 DEF Pending

LEMMA OrderHolds == IInv /\ OrderInv /\ [Next]_vars => OrderInv'
<1> SUFFICES ASSUME IInv, OrderInv, [Next]_vars PROVE OrderInv'
  OBVIOUS
<1>0. bundle \in Seq(Cert) /\ Len(paths) \in Nat /\ Len(unique) \in Nat
  BY LenProperties DEF IInv, TypeOK
<1>b. bundle' = bundle
  BY DEF Next, vars, SkipLeaf, PickLeaf, EndLeaves, SkipParent, Climb, Return, Keep, Drop, Finish
<1>s. \A p, q : Before(p, q)' <=> Before(p, q)
  BY <1>b DEF Before, PartAt, ReadAt
<1>1. CASE UNCHANGED <<bundle, paths, unique>>
  BY <1>1, <1>s DEF OrderInv, CollectedInOrder
<1>2. CASE Return
  <2>1. unique' = unique
    BY <1>2 DEF Return
  <2>2. CASE Top.advanced
    BY <1>1, <1>2, <2>1, <2>2, <1>b DEF Return
  <2>3. CASE ~Top.advanced
    <3>1. paths' = Append(paths, Chain(stack))
      BY <1>2, <2>3 DEF Return
    <3>2. /\ Len(paths') = Len(paths) + 1
          /\ paths'[Len(paths) + 1] = Chain(stack)
          /\ \A i \in 1..Len(paths) : paths'[i] = paths[i]
      <4>1. paths \in Seq(Seq(Cert)) /\ Chain(stack) \in Seq(Cert)
        BY ChainFacts DEF IInv, TypeOK
      <4> QED
        BY <3>1, <4>1
    <3>3. ASSUME NEW j \in 1..Len(paths'), NEW q \in PathsOf(bundle), Before(q, paths'[j])
          PROVE  \E i \in 1..j-1 : paths'[i] = q
      <4>1. CASE j \in 1..Len(paths)
        <5>1. PICK i \in 1..j-1 : paths[i] = q
          BY <3>2, <3>3, <4>1 DEF OrderInv, CollectedInOrder
        <5>2. i \in 1..Len(paths)
          BY <1>0, <4>1
        <5> QED
          BY <3>2, <5>1, <5>2
      <4>2. CASE j = Len(paths) + 1
        <5>1. q \in Certs(paths)
          BY <1>2, <2>3, <3>2, <3>3, <4>2, ReturnInOrder
        <5>2. PICK i \in 1..Len(paths) : paths[i] = q
          BY <5>1 DEF Certs
        <5>3. i \in 1..j-1
          BY <1>0, <4>2
        <5> QED
          BY <3>2, <5>2, <5>3
      <4>3. j \in 1..Len(paths) \/ j = Len(paths) + 1
        <5>1. Len(paths) \in Nat
          BY <1>0
        <5>2. j \in 1..Len(paths) + 1
          BY <3>2
        <5> QED
          BY <5>1, <5>2
      <4> QED
        BY <4>1, <4>2, <4>3
    <3> QED
      BY <3>3, <2>1, <1>b, <1>s DEF OrderInv, CollectedInOrder
  <2> QED
    BY <2>2, <2>3
<1>3. CASE Keep
  <2> DEFINE x == paths[checked + 1]
  <2>0. phase = "dedupe" /\ checked < Len(paths)
    BY <1>3 DEF Keep
  <2>1. paths' = paths /\ unique' = Append(unique, x) /\ x \notin Certs(unique)
    BY <1>3 DEF Keep
  <2>2. /\ Len(unique') = Len(unique) + 1
        /\ unique'[Len(unique) + 1] = x
        /\ \A i \in 1..Len(unique) : unique'[i] = unique[i]
    BY <2>0, <2>1, DedupeFacts
  <2>3. ASSUME NEW k \in 1..Len(paths)
        PROVE  paths[k] \in PathsOf(bundle)
    <3>1. IsPath(bundle, paths[k]) /\ paths[k] \in Seq(Cert)
      BY ElementOfSeq DEF IInv, TypeOK, CollectedPathsAreReal
    <3> QED
      BY <1>0, <3>1, PathsOfIsPath
  <2>4. checked + 1 \in 1..Len(paths) /\ checked \in Nat
    BY <2>0, DedupeFacts
  <2>5. Certs(unique) = {paths[k] : k \in 1..checked}
    BY DEF IInv, DedupeInv
  <2>6. ASSUME NEW i \in 1..Len(unique)
        PROVE  Before(unique[i], x)
    <3>1. unique[i] \in Certs(unique)
      BY DEF Certs
    <3>2. PICK k \in 1..checked : unique[i] = paths[k]
      BY <2>5, <3>1
    <3>3. k \in 1..Len(paths)
      BY <1>0, <2>4
    <3>4. ~Before(x, unique[i])
      <4> SUFFICES ASSUME Before(x, unique[i]) PROVE FALSE
        OBVIOUS
      <4>1. PICK h \in 1..k-1 : paths[h] = x
        BY <2>3, <2>4, <3>2, <3>3 DEF OrderInv, CollectedInOrder
      <4>2. h \in 1..checked
        BY <2>4
      <4>3. x \in Certs(unique)
        BY <2>5, <4>1, <4>2
      <4> QED
        BY <2>1, <4>3
    <3>5. unique[i] # x
      BY <2>1, <3>1
    <3> HIDE DEF x
    <3>6. x \in PathsOf(bundle) /\ unique[i] \in PathsOf(bundle)
      BY <2>3, <2>4, <3>2, <3>3 DEF x
    <3> QED
      BY <1>0, <3>4, <3>5, <3>6, OneIsBefore
  <2> HIDE DEF x
  <2>7. ASSUME NEW i \in 1..Len(unique'), NEW j \in 1..Len(unique'), i < j
        PROVE  Before(unique'[i], unique'[j])
    <3>1. i \in 1..Len(unique)
      BY <1>0, <2>2, <2>7
    <3>2. CASE j \in 1..Len(unique)
      BY <2>2, <2>7, <3>1, <3>2 DEF OrderInv
    <3>3. CASE j = Len(unique) + 1
      BY <2>2, <2>6, <3>1, <3>3
    <3> QED
      BY <1>0, <2>2, <3>2, <3>3
  <2> QED
    BY <2>1, <2>7, <1>b, <1>s DEF OrderInv, CollectedInOrder
<1>4. CASE SkipLeaf \/ PickLeaf \/ EndLeaves \/ SkipParent \/ Climb \/ Drop \/ Finish
  BY <1>1, <1>4 DEF SkipLeaf, PickLeaf, EndLeaves, SkipParent, Climb, Drop, Finish
<1>5. CASE UNCHANGED vars
  BY <1>1, <1>5 DEF vars
<1> QED
  BY <1>2, <1>3, <1>4, <1>5 DEF Next

\* Where two results part, the earlier one goes on with the certificate read
\* first, whatever the bundle repeats: the chain the invalidator takes is the
\* first in this order that verifies.
THEOREM Ordered == Spec => []ResultInReadingOrder
<1>1. OrderInv => ResultInReadingOrder
  BY DEF OrderInv, Before, PartAt, ResultInReadingOrder
<1> QED
  BY <1>1, OrderInit, OrderHolds, Invariance, PTL DEF Spec

\* The recursion is no deeper than the bundle has distinct certificates.
THEOREM BoundedRecursion == Spec => []RecursionBounded
<1>1. IInv => RecursionBounded
  <2> SUFFICES ASSUME IInv PROVE RecursionBounded
    OBVIOUS
  <2>0. bundle \in Seq(Cert) /\ stack \in Seq(Frame)
    BY DEF IInv, TypeOK
  <2>1. CASE stack = <<>>
    BY <2>0, <2>1, BundleIsFinite DEF RecursionBounded
  <2>2. CASE stack # <<>>
    <3>1. /\ Certs(Chain(stack)) \subseteq Certs(bundle)
          /\ NoRepeats(Chain(stack))
      BY <2>2 DEF IInv, StackInv, IsClimb
    <3> QED
      BY <3>1, <2>0, ChainFacts, BundleIsFinite, RepeatFreeIsShort DEF RecursionBounded
  <2> QED
    BY <2>1, <2>2
<1> QED
  BY <1>1, Invariance, PTL

\* PathPromise reads the same definition of a path.
LEMMA SamePaths == Promise!PathsOf(bundle) = PathsOf(bundle)
  BY DEF PathsOf, Stacks, Leaves, Authorities, IsPath, IsClimb, IsLeaf, IsParent,
         is_ca, Parses, Certs, Last, NoRepeats, IssuersOf,
         Promise!PathsOf, Promise!Stacks, Promise!Leaves, Promise!Authorities,
         Promise!IsPath, Promise!IsClimb, Promise!IsLeaf, Promise!IsParent,
         Promise!is_ca, Promise!Parses, Promise!Certs, Promise!Last,
         Promise!NoRepeats, Promise!IssuersOf

LEMMA SameCerts == \A s : Promise!Certs(s) = Certs(s)
  BY DEF Certs, Promise!Certs

LEMMA StepRefines == IInv /\ [Next]_vars => [Promise!Next]_(Promise!vars)
<1> SUFFICES ASSUME IInv, [Next]_vars PROVE [Promise!Next]_(Promise!vars)
  OBVIOUS
<1>1. CASE Keep
  <2>1. phase = "dedupe" /\ checked < Len(paths)
    BY <1>1 DEF Keep
  <2>2. paths[checked + 1] \in PathsOf(bundle)
    <3>1. IsPath(bundle, paths[checked + 1])
      BY <2>1, DedupeFacts DEF IInv, CollectedPathsAreReal
    <3> QED
      BY <3>1, <2>1, DedupeFacts, PathsOfIsPath DEF IInv, TypeOK
  <2>3. paths[checked + 1] \in Promise!PathsOf(bundle) \ Promise!Certs(unique)
    BY <2>2, <1>1, SamePaths, SameCerts DEF Keep
  <2>4. Promise!Deliver
    BY <2>1, <2>3, <1>1 DEF Promise!Deliver, Keep
  <2> QED
    BY <2>4 DEF Promise!Next
<1>2. CASE Finish
  <2>1. Certs(unique) = PathsOf(bundle)
    BY <1>2, AllDelivered DEF Finish
  <2>2. Promise!Finish
    BY <2>1, <1>2, SamePaths, SameCerts DEF Promise!Finish, Finish
  <2> QED
    BY <2>2 DEF Promise!Next
<1>3. CASE SkipLeaf \/ PickLeaf \/ EndLeaves \/ SkipParent \/ Climb \/ Return \/ Drop
  BY <1>3 DEF SkipLeaf, PickLeaf, EndLeaves, SkipParent, InLoop, Climb, Return, Drop,
              Promise!vars
<1>4. CASE UNCHANGED vars
  BY <1>4 DEF vars, Promise!vars
<1> QED
  BY <1>1, <1>2, <1>3, <1>4 DEF Next

\* build_paths keeps the promise stated by PathPromise: every step of the
\* search delivers one new path, ends a complete call, or changes nothing the
\* caller can see.
THEOREM Refinement == Spec => KeepsPromise
<1>1. Init => Promise!Init
  BY DEF Init, Promise!Init
<1> QED
  BY <1>1, Invariance, StepRefines, PTL DEF Spec, KeepsPromise, Promise!Spec
=============================================================================
