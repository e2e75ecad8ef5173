---------------------------- MODULE PathBuilding ----------------------------
(***************************************************************************)
(* chains.build_paths: the depth-first search that turns an unordered      *)
(* bundle into paths.  Three loops follow one another: over the leaves,    *)
(* under each leaf the recursion walk(), and over the collected paths to   *)
(* drop repetitions.  The recursion is a stack of frames, one per active   *)
(* call of walk(); `visited` is the set of certificates on the stack,      *)
(* which is what the code passes down as visited | {parent_fp}.            *)
(*                                                                         *)
(* subject_map[name] lists the bundle's certificates of that name in       *)
(* bundle order, so a loop over it is a scan of the bundle that skips the  *)
(* other names; the list of leaves is the bundle scanned for leaves.       *)
(*                                                                         *)
(* A definition introduced as a "slip" is not part of the specification:   *)
(* it is a way the code could have got the definition after it wrong,      *)
(* which a property below must notice.                                     *)
(***************************************************************************)
EXTENDS Paths

CONSTANT Bundles   \* the bundles the call may be given

ASSUME BundleAssumption == Bundles \subseteq Seq(Cert)

VARIABLES
    bundle,  \* the argument `certs`
    phase,   \* "leaves", "walk", "dedupe" or "done"
    next,    \* index of the next candidate leaf
    stack,   \* active calls of walk(), the leaf's first
    paths,   \* the paths collected, repetitions included
    checked, \* how many of them the last loop has looked at
    unique   \* the result

vars == <<bundle, phase, next, stack, paths, checked, unique>>

Frame == [cert : Cert, next : Nat \ {0}, advanced : BOOLEAN]

\* Slip: counting the candidates from 0.
NewFrameFromZero(c) == [cert |-> c, next |-> 0, advanced |-> FALSE]

NewFrame(c) == [cert |-> c, next |-> 1, advanced |-> FALSE]

\* chain + [current]
Chain(s) == [i \in 1..Len(s) |-> s[i].cert]

visited == Certs(Chain(stack))

Top == Last(stack)

Init ==
    /\ bundle \in Bundles
    /\ phase = "leaves"
    /\ next = 1
    /\ stack = <<>>
    /\ paths = <<>>
    /\ checked = 0
    /\ unique = <<>>

-----------------------------------------------------------------------------
(* The loop over the leaves *)

SkipLeaf ==
    /\ phase = "leaves"
    /\ next <= Len(bundle)
    /\ ~IsLeaf(bundle, bundle[next])
    /\ next' = next + 1
    /\ UNCHANGED <<bundle, phase, stack, paths, checked, unique>>

PickLeaf ==
    /\ phase = "leaves"
    /\ next <= Len(bundle)
    /\ IsLeaf(bundle, bundle[next])
    /\ next' = next + 1
    /\ stack' = <<NewFrame(bundle[next])>>
    /\ phase' = "walk"
    /\ UNCHANGED <<bundle, paths, checked, unique>>

EndLeaves ==
    /\ phase = "leaves"
    /\ next > Len(bundle)
    /\ phase' = "dedupe"
    /\ UNCHANGED <<bundle, next, stack, paths, checked, unique>>

-----------------------------------------------------------------------------
(* walk() *)

\* Slip: the candidates are tried from the last one read.
CandidateBackwards == bundle[Len(bundle) + 1 - Top.next]

\* The parent the innermost call looks at next, and whether it climbs to it.
Candidate == bundle[Top.next]

\* Slips: any namesake is a parent; nothing is remembered as visited; what an
\* earlier path visited stays visited (the set is shared, not copied).
ClimbableNonCA == Subject[Candidate] = Issuer[Top.cert] /\ Candidate \notin visited

ClimbableAgain == IsParent(Top.cert, Candidate)

ClimbableOnce ==
    /\ IsParent(Top.cert, Candidate)
    /\ Candidate \notin visited \cup UNION {Certs(q) : q \in Certs(paths)}

Climbable == IsParent(Top.cert, Candidate) /\ Candidate \notin visited

InLoop == phase = "walk" /\ Top.next <= Len(bundle)

\* Slip: an unsuitable parent is not stepped over.
SkipParentStuck ==
    /\ InLoop
    /\ ~Climbable
    /\ UNCHANGED vars

SkipParent ==
    /\ InLoop
    /\ ~Climbable
    /\ stack' = [stack EXCEPT ![Len(stack)].next = @ + 1]
    /\ UNCHANGED <<bundle, phase, next, paths, checked, unique>>

\* The recursive call.
Climb ==
    /\ InLoop
    /\ Climbable
    /\ LET caller == [cert |-> Top.cert, next |-> Top.next + 1, advanced |-> TRUE]
       IN  stack' = Append([stack EXCEPT ![Len(stack)] = caller],
                           NewFrame(Candidate))
    /\ UNCHANGED <<bundle, phase, next, paths, checked, unique>>

\* The innermost call returns; it collects its path if no parent was climbed.
Return ==
    /\ phase = "walk"
    /\ Top.next > Len(bundle)
    /\ paths' = IF Top.advanced THEN paths ELSE Append(paths, Chain(stack))
    /\ stack' = SubSeq(stack, 1, Len(stack) - 1)
    /\ phase' = IF Len(stack) = 1 THEN "leaves" ELSE "walk"
    /\ UNCHANGED <<bundle, next, checked, unique>>

-----------------------------------------------------------------------------
(* The loop that drops repetitions: `seen` is the set of paths in unique.  *)

\* Slip: `seen` is never asked.
KeepAlways ==
    /\ phase = "dedupe"
    /\ checked < Len(paths)
    /\ unique' = Append(unique, paths[checked + 1])
    /\ checked' = checked + 1
    /\ UNCHANGED <<bundle, phase, next, stack, paths>>

Keep ==
    /\ phase = "dedupe"
    /\ checked < Len(paths)
    /\ paths[checked + 1] \notin Certs(unique)
    /\ unique' = Append(unique, paths[checked + 1])
    /\ checked' = checked + 1
    /\ UNCHANGED <<bundle, phase, next, stack, paths>>

Drop ==
    /\ phase = "dedupe"
    /\ checked < Len(paths)
    /\ paths[checked + 1] \in Certs(unique)
    /\ checked' = checked + 1
    /\ UNCHANGED <<bundle, phase, next, stack, paths, unique>>

Finish ==
    /\ phase = "dedupe"
    /\ checked = Len(paths)
    /\ phase' = "done"
    /\ UNCHANGED <<bundle, next, stack, paths, checked, unique>>

-----------------------------------------------------------------------------

Next ==
    \/ SkipLeaf \/ PickLeaf \/ EndLeaves
    \/ SkipParent \/ Climb \/ Return
    \/ Keep \/ Drop \/ Finish

\* The call is one thread of control: it runs as long as it can.
Spec == Init /\ [][Next]_vars /\ WF_vars(Next)

-----------------------------------------------------------------------------
(* Properties *)

TypeOK ==
    /\ bundle \in Seq(Cert)
    /\ phase \in {"leaves", "walk", "dedupe", "done"}
    /\ next \in 1..Len(bundle)+1
    /\ stack \in Seq(Frame)
    /\ paths \in Seq(Seq(Cert))
    /\ checked \in 0..Len(paths)
    /\ unique \in Seq(Seq(Cert))

\* Whatever walk() collects is a path of the bundle: it starts at a leaf,
\* every link is a CA bearing the name of the issuer, it passes through no
\* certificate twice, and it stops only where the bundle has nothing further
\* to offer.  A prefix collected on the way back from a deeper call, or a
\* climb onto a non-CA namesake, would break it.
CollectedPathsAreReal == \A i \in 1..Len(paths) : IsPath(bundle, paths[i])

\* However the bundle is shuffled, whatever cross-signed loop or repeated
\* block it holds, the call returns with every path of the bundle and with
\* nothing else.
NothingLost == phase = "done" => Certs(unique) = PathsOf(bundle)

\* The position at which c is first read.
ReadAt(c) == CHOOSE i \in 1..Len(bundle) :
                bundle[i] = c /\ \A j \in 1..i-1 : bundle[j] # c

\* Where two results part, the earlier one continues with the certificate
\* that was read first.  invalidate.find_trusted_chain returns the first
\* result that verifies, so this order decides which chain is corrupted.
ResultInReadingOrder ==
    \A i, j \in 1..Len(unique) : i < j =>
        \E k \in 1..Len(unique[i]) :
            /\ k <= Len(unique[j])
            /\ \A h \in 1..k-1 : unique[i][h] = unique[j][h]
            /\ ReadAt(unique[i][k]) < ReadAt(unique[j][k])

\* The recursion of walk() is never deeper than the bundle has certificates,
\* cross-signed loops included: "visited fingerprints stop a cross-signed or
\* self-issued certificate from looping forever" (chains.py:90).
RecursionBounded == Len(stack) <= Cardinality(Certs(bundle))

\* The call returns.
Terminates == <>(phase = "done")

\* The search keeps the promise of PathPromise: its last loop delivers the
\* paths, and it is done only when none is missing.
Promise == INSTANCE PathPromise
               WITH delivered <- unique, finished <- (phase = "done")

KeepsPromise == Promise!Spec
=============================================================================
