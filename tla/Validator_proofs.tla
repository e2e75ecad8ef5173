-------------------------- MODULE Validator_proofs --------------------------
(***************************************************************************)
(* Proofs about the two halves of validate.main: the scan, for every       *)
(* directory tree (where the search for a pin goes, and which pin it       *)
(* finds), and the report, for every list of scenarios and findings.       *)
(***************************************************************************)
EXTENDS Scan, Report, SequenceTheorems, FiniteSetTheorems, TLAPS

-----------------------------------------------------------------------------
(* Directories *)

LEMMA DirIsSeq ==
    ASSUME NEW d \in Dirs
    PROVE  d \in Seq(STRING) /\ Len(d) \in Nat
  BY ScanAssumption, LenProperties

LEMMA DirnameIsDir ==
    ASSUME NEW d \in Dirs
    PROVE  dirname(d) \in Dirs
  BY ScanAssumption DEF dirname

\* dirname drops the last name and keeps the others.
LEMMA DirnameIsPrefix ==
    ASSUME NEW d \in Dirs, d # <<>>
    PROVE  /\ Len(dirname(d)) = Len(d) - 1
           /\ \A i \in 1..Len(d)-1 : dirname(d)[i] = d[i]
  <1>1. d \in Seq(STRING) /\ Len(d) \in Nat \ {0}
    BY DirIsSeq, EmptySeq
  <1>2. \A i \in 1..Len(d)-1 : d[i] \in STRING
    BY <1>1, ElementOfSeq
  <1>3. dirname(d) = SubSeq(d, 1, Len(d) - 1)
    BY DEF dirname
  <1>4. /\ Len(SubSeq(d, 1, Len(d)-1)) = IF 1 <= Len(d)-1 THEN Len(d)-1-1+1 ELSE 0
        /\ \A i \in 1..Len(d)-1-1+1 : SubSeq(d, 1, Len(d)-1)[i] = d[1+i-1]
    BY <1>1, <1>2, SubSeqProperties
  <1>5. Len(dirname(d)) = Len(d) - 1
    <2>1. Len(dirname(d)) = IF 1 <= Len(d)-1 THEN Len(d)-1-1+1 ELSE 0
      BY <1>3, <1>4
    <2>2. \A n \in Nat \ {0} : (IF 1 <= n-1 THEN n-1-1+1 ELSE 0) = n - 1
      OBVIOUS
    <2>3. Len(d) \in Nat \ {0}
      BY <1>1
    <2> QED  BY <2>1, <2>2, <2>3, Zenon
  <1>6. ASSUME NEW i \in 1..Len(d)-1
        PROVE  dirname(d)[i] = d[i]
    <2>1. i \in 1..Len(d)-1-1+1 /\ 1+i-1 = i
      BY <1>1
    <2>2. SubSeq(d, 1, Len(d)-1)[i] = d[1+i-1]
      BY <1>4, <2>1
    <2> QED  BY <1>3, <2>1, <2>2
  <1> QED  BY <1>5, <1>6

LEMMA WithinSelf ==
    ASSUME NEW d \in Dirs
    PROVE  Within(d, d)
  BY DirIsSeq DEF Within

LEMMA WithinTrans ==
    ASSUME NEW a \in Dirs, NEW b \in Dirs, NEW c \in Dirs,
           Within(a, b), Within(b, c)
    PROVE  Within(a, c)
  BY DirIsSeq DEF Within

LEMMA WithinDirname ==
    ASSUME NEW d \in Dirs
    PROVE  Within(dirname(d), d)
  <1>1. CASE d = <<>>
    BY <1>1, WithinSelf DEF dirname
  <1>2. CASE d # <<>>
    BY <1>2, DirnameIsPrefix, DirnameIsDir, DirIsSeq DEF Within
  <1> QED  BY <1>1, <1>2

\* Two directories on the way to a third that are equally deep are the same.
LEMMA SameDepth ==
    ASSUME NEW a \in Dirs, NEW b \in Dirs, NEW c \in Dirs,
           Within(a, c), Within(b, c), Len(a) = Len(b)
    PROVE  a = b
  <1>1. \A i \in 1..Len(a) : a[i] = b[i]
    BY DirIsSeq DEF Within
  <1> QED  BY <1>1, DirIsSeq, SeqEqual

\* What lies strictly below top has a parent that is still within top.
LEMMA ParentStaysWithin ==
    ASSUME NEW top \in Dirs, NEW d \in Dirs, Within(top, d), d # top
    PROVE  Within(top, dirname(d))
  <1>1. Len(top) < Len(d)
    <2>1. Len(top) # Len(d)
      BY SameDepth, WithinSelf
    <2> QED  BY <2>1, DirIsSeq DEF Within
  <1>2. d # <<>>
    BY <1>1, DirIsSeq, EmptySeq
  <1> QED  BY <1>1, <1>2, DirnameIsPrefix, DirIsSeq DEF Within

-----------------------------------------------------------------------------
(* The invariant *)

\* The cases the promises below are about.
Plain == ~IsSplit(target) \/ isfile

\* For a file there is one scenario, the directory it lies in.
FileInv == isfile => todo \subseteq {target} /\ scenario = target

\* Every scenario, and the directory the search has reached, is in the target.
InsideInv ==
    Plain => /\ Within(target, candidate)
             /\ Within(target, scenario)
             /\ \A s \in todo : Within(target, s)

\* What was read and found lies in the target.
ReadInv ==
    Plain => \A a \in analysed : \A d \in a.read \cup a.pin : Within(target, d)

\* The search has climbed straight up from the scenario and left no pin behind.
SearchInv ==
    phase = "search" =>
        /\ Within(candidate, scenario)
        /\ \A d \in pinned : Within(d, scenario) => Len(d) <= Len(candidate)

IInv == TypeOK /\ FileInv /\ InsideInv /\ ReadInv /\ SearchInv /\ NearestPin

-----------------------------------------------------------------------------

LEMMA ScenariosAreDirs ==
    ASSUME TypeOK, NEW s \in discover_scenarios(target)
    PROVE  s \in Dirs
  BY DirnameIsDir DEF TypeOK, discover_scenarios

LEMMA ScenariosAreInside ==
    ASSUME TypeOK, ~IsSplit(target), NEW s \in discover_scenarios(target)
    PROVE  Within(target, s)
  <1>1. PICK d \in holding :
            Within(target, d) /\ s = IF IsSplit(d) THEN dirname(d) ELSE d
    BY DEF discover_scenarios
  <1>2. d \in Dirs /\ target \in Dirs
    BY DEF TypeOK
  <1>3. CASE IsSplit(d)
    BY <1>1, <1>2, <1>3, ParentStaysWithin
  <1> QED  BY <1>1, <1>3

\* What a scenario inside the target makes the analysis read is inside it.
LEMMA ReadIsInside ==
    ASSUME TypeOK, Within(target, scenario), NEW d \in discover_chain_files(scenario)
    PROVE  Within(target, d)
  <1>1. CASE isfile
    BY <1>1, WithinSelf DEF discover_chain_files, TypeOK
  <1>2. CASE ~isfile
    BY <1>2, WithinTrans DEF discover_chain_files, TypeOK
  <1> QED  BY <1>1, <1>2

LEMMA ReadAreDirs ==
    ASSUME TypeOK
    PROVE  discover_chain_files(scenario) \in SUBSET Dirs
  BY DEF discover_chain_files, TypeOK

\* The pins a search for s may use, and the ones among them that it must.
Above(s) == {d \in pinned : Within(d, s) /\ Within(target, d)}

Nearest(s) == {d \in Above(s) : \A e \in Above(s) : Len(e) <= Len(d)}

LEMMA FoundIsNearest ==
    ASSUME TypeOK, SearchInv, phase = "search", Within(target, candidate),
           candidate \in pinned
    PROVE  Nearest(scenario) = {candidate}
  <1>1. candidate \in Above(scenario)
    BY DEF Above, SearchInv
  <1>2. \A e \in Above(scenario) : Len(e) <= Len(candidate)
    BY DEF Above, SearchInv
  <1>3. ASSUME NEW d \in Nearest(scenario)
        PROVE  d = candidate
    <2>1. d \in Dirs /\ candidate \in Dirs /\ scenario \in Dirs
      BY DEF Nearest, Above, TypeOK
    <2>2. Len(candidate) <= Len(d) /\ Len(d) <= Len(candidate)
      BY <1>1, <1>2 DEF Nearest
    <2>3. Len(d) = Len(candidate)
      BY <2>1, <2>2, DirIsSeq
    <2>4. Within(d, scenario) /\ Within(candidate, scenario)
      BY DEF Nearest, Above, SearchInv
    <2> QED  BY <2>1, <2>3, <2>4, SameDepth
  <1> QED  BY <1>1, <1>2, <1>3 DEF Nearest

LEMMA NoneIsNearest ==
    ASSUME TypeOK, SearchInv, phase = "search", Within(target, candidate),
           candidate \notin pinned,
           candidate = target \/ dirname(candidate) = candidate
    PROVE  Nearest(scenario) = {}
  <1>1. candidate \in Dirs /\ target \in Dirs /\ scenario \in Dirs
    BY DEF TypeOK
  <1>2. candidate = target
    <2>1. CASE dirname(candidate) = candidate
      <3>1. candidate = <<>>
        BY <1>1, <2>1, DirnameIsPrefix, DirIsSeq
      <3>2. Len(target) = 0
        BY <1>1, <3>1, DirIsSeq, EmptySeq DEF Within
      <3> QED  BY <1>1, <3>1, <3>2, DirIsSeq, EmptySeq
    <2> QED  BY <2>1
  <1>3. ASSUME NEW d \in Above(scenario)
        PROVE  FALSE
    <2>1. d \in Dirs /\ d \in pinned
      BY DEF Above, TypeOK
    <2>2. Len(d) <= Len(candidate) /\ Within(target, d) /\ Within(d, scenario)
      BY DEF Above, SearchInv
    <2>3. Len(d) = Len(candidate)
      BY <1>1, <1>2, <2>1, <2>2, DirIsSeq DEF Within
    <2>4. d = candidate
      BY <1>1, <2>1, <2>2, <2>3, SameDepth DEF SearchInv
    <2> QED  BY <2>1, <2>4
  <1> QED  BY <1>3 DEF Nearest

-----------------------------------------------------------------------------
(* The invariant holds *)

LEMMA InitHolds == Init => IInv
  <1> SUFFICES ASSUME Init PROVE IInv
    OBVIOUS
  <1>1. TypeOK
    BY DEF Init, TypeOK
  <1>2. target \in Dirs
    BY DEF Init
  <1> QED
    BY <1>1, <1>2, WithinSelf
    DEF Init, IInv, FileInv, InsideInv, ReadInv, SearchInv, NearestPin

\* A record of an analysis keeps what is promised of the records.
LEMMA AnalyseKeeps ==
    ASSUME IInv, NEW searched \in BOOLEAN, NEW pin \in SUBSET Dirs,
           Analyse(searched, pin),
           Plain => \A d \in pin : Within(target, d),
           searched /\ Plain => pin = Nearest(scenario)
    PROVE  IInv'
  <1> DEFINE new == [scenario |-> scenario, searched |-> searched, pin |-> pin,
                     read |-> discover_chain_files(scenario)]
  <1>1. analysed' = analysed \cup {new}
    BY DEF Analyse
  <1>2. /\ phase' = "pick"
        /\ UNCHANGED <<holding, pinned, target, isfile, todo, scenario, candidate>>
    BY DEF Analyse
  <1>3. new \in [scenario : Dirs, searched : BOOLEAN, pin : SUBSET Dirs, read : SUBSET Dirs]
    BY ReadAreDirs DEF IInv, TypeOK
  <1>4. new.searched = searched /\ new.scenario = scenario /\ new.pin = pin
        /\ new.read = discover_chain_files(scenario)
    OBVIOUS
  <1> HIDE DEF new
  <1>5. TypeOK'
    BY <1>1, <1>2, <1>3 DEF IInv, TypeOK
  <1>6. FileInv' /\ InsideInv' /\ SearchInv'
    BY <1>2 DEF IInv, FileInv, InsideInv, SearchInv, Plain, IsSplit, Within
  <1>7. ReadInv'
    <2>1. ASSUME Plain, NEW a \in analysed', NEW d \in a.read \cup a.pin
          PROVE  Within(target, d)
      <3>1. CASE a \in analysed
        BY <2>1, <3>1 DEF IInv, ReadInv
      <3>2. CASE a = new
        <4>1. Within(target, scenario)
          BY <2>1 DEF IInv, InsideInv
        <4> QED  BY <1>4, <2>1, <3>2, <4>1, ReadIsInside DEF IInv
      <3> QED  BY <1>1, <3>1, <3>2
    <2>2. Plain' <=> Plain
      BY <1>2 DEF Plain, IsSplit
    <2>3. target' = target
      BY <1>2
    <2> QED  BY <2>1, <2>2, <2>3 DEF ReadInv, Within
  <1>8. NearestPin'
    <2>1. ASSUME Plain, NEW a \in analysed', a.searched
          PROVE  a.pin = Nearest(a.scenario)
      <3>1. CASE a \in analysed
        BY <2>1, <3>1 DEF IInv, NearestPin, Plain, Nearest, Above
      <3>2. CASE a = new
        BY <1>4, <2>1, <3>2
      <3> QED  BY <1>1, <3>1, <3>2
    <2>2. target' = target /\ pinned' = pinned /\ isfile' = isfile
      BY <1>2
    <2> QED  BY <2>1, <2>2 DEF NearestPin, Plain, Nearest, Above, Within, IsSplit
  <1> QED  BY <1>5, <1>6, <1>7, <1>8 DEF IInv

LEMMA NextKeeps == IInv /\ [Next]_vars => IInv'
  <1> SUFFICES ASSUME IInv, [Next]_vars PROVE IInv'
    OBVIOUS
  <1> USE DEF IInv
  <1>1. CASE Discover
    <2>1. TypeOK'
      BY <1>1, ScenariosAreDirs DEF Discover, TypeOK
    <2>2. FileInv'
      BY <1>1 DEF Discover, FileInv
    <2>3. InsideInv'
      <3>1. CASE isfile
        BY <1>1, <3>1, WithinSelf DEF Discover, InsideInv, Plain, Within, IsSplit, TypeOK
      <3>2. CASE ~isfile /\ ~IsSplit(target)
        <4>1. todo' = discover_scenarios(target) /\ UNCHANGED <<target, scenario, candidate>>
          BY <1>1, <3>2 DEF Discover
        <4>2. \A x \in todo' : Within(target, x)
          BY <3>2, <4>1, ScenariosAreInside
        <4> QED  BY <3>2, <4>1, <4>2 DEF InsideInv, Plain, Within
      <3>3. CASE ~isfile /\ IsSplit(target)
        BY <1>1, <3>3 DEF Discover, InsideInv, Plain, IsSplit
      <3> QED  BY <3>1, <3>2, <3>3
    <2>4. ReadInv' /\ SearchInv' /\ NearestPin'
      BY <1>1 DEF Discover, ReadInv, SearchInv, NearestPin, Plain, Within, IsSplit
    <2> QED  BY <2>1, <2>2, <2>3, <2>4
  <1>2. CASE Pick
    <2>1. PICK s \in todo : todo' = todo \ {s} /\ scenario' = s
      BY <1>2 DEF Pick
    <2>2. phase' = "load" /\ UNCHANGED <<holding, pinned, target, isfile, candidate, analysed>>
      BY <1>2 DEF Pick
    <2>3. TypeOK' /\ FileInv'
      BY <2>1, <2>2 DEF TypeOK, FileInv
    <2>4. InsideInv' /\ SearchInv'
      BY <2>1, <2>2 DEF InsideInv, SearchInv, Plain
    <2>5. ReadInv' /\ NearestPin'
      <3>1. ReadInv'  BY <2>2 DEF ReadInv, Plain
      <3>2. NearestPin'  BY <2>2 DEF NearestPin
      <3> QED  BY <3>1, <3>2
    <2> QED  BY <2>3, <2>4, <2>5
  <1>3. CASE Search
    <2>1. /\ candidate' = scenario /\ phase' = "search"
          /\ UNCHANGED <<holding, pinned, target, isfile, todo, scenario, analysed>>
      BY <1>3 DEF Search
    <2>2. TypeOK' /\ FileInv' /\ InsideInv'
      BY <2>1 DEF TypeOK, FileInv, InsideInv, Plain
    <2>3. SearchInv'
      <3>1. scenario \in Dirs /\ pinned \subseteq Dirs
        BY DEF TypeOK
      <3>2. Within(scenario, scenario)
        BY <3>1, WithinSelf
      <3>3. \A d \in pinned : Within(d, scenario) => Len(d) <= Len(scenario)
        BY DEF Within
      <3> QED  BY <2>1, <3>2, <3>3 DEF SearchInv
    <2>4. ReadInv' /\ NearestPin'
      <3>1. ReadInv'  BY <2>1 DEF ReadInv, Plain
      <3>2. NearestPin'  BY <2>1 DEF NearestPin
      <3> QED  BY <3>1, <3>2
    <2> QED  BY <2>2, <2>3, <2>4
  <1>4. CASE NothingToJudge
    <2>1. Analyse(FALSE, {})
      BY <1>4 DEF NothingToJudge
    <2> QED  BY <2>1, AnalyseKeeps
  <1>5. CASE PinFound
    <2>1. phase = "search" /\ candidate \in pinned /\ Analyse(TRUE, {candidate})
      BY <1>5 DEF PinFound
    <2>2. {candidate} \in SUBSET Dirs
      BY DEF TypeOK
    <2>3. Plain => Within(target, candidate)
      BY DEF InsideInv
    <2>4. Plain => {candidate} = Nearest(scenario)
      BY <2>1, <2>3, FoundIsNearest
    <2> QED  BY <2>1, <2>2, <2>3, <2>4, AnalyseKeeps
  <1>6. CASE GiveUp
    <2>1. /\ phase = "search" /\ candidate \notin pinned
          /\ candidate = target \/ dirname(candidate) = candidate
          /\ Analyse(TRUE, {})
      BY <1>6 DEF GiveUp
    <2>2. Plain => {} = Nearest(scenario)
      BY <2>1, NoneIsNearest DEF InsideInv
    <2> QED  BY <2>1, <2>2, AnalyseKeeps
  <1>7. CASE Climb
    <2>1. /\ phase = "search" /\ candidate \notin pinned /\ candidate # target
          /\ dirname(candidate) # candidate
          /\ candidate' = dirname(candidate)
          /\ UNCHANGED <<holding, pinned, target, isfile, phase, todo, scenario, analysed>>
      BY <1>7 DEF Climb
    <2>2. candidate \in Dirs /\ target \in Dirs /\ scenario \in Dirs /\ pinned \subseteq Dirs
      BY DEF TypeOK
    <2>3. dirname(candidate) \in Dirs /\ candidate # <<>>
      BY <2>1, <2>2, DirnameIsDir DEF dirname
    <2>4. TypeOK' /\ FileInv'
      BY <2>1, <2>3 DEF TypeOK, FileInv
    <2>5. InsideInv'
      <3>1. Plain => Within(target, dirname(candidate))
        BY <2>1, <2>2, ParentStaysWithin DEF InsideInv
      <3> QED  BY <2>1, <3>1 DEF InsideInv, Plain
    <2>6. SearchInv'
      <3>1. Within(candidate, scenario)
        BY <2>1 DEF SearchInv
      <3>2. Within(dirname(candidate), scenario)
        BY <2>2, <2>3, <3>1, WithinDirname, WithinTrans
      <3>3. ASSUME NEW d \in pinned, Within(d, scenario)
            PROVE  Len(d) <= Len(dirname(candidate))
        <4>1. Len(d) <= Len(candidate)
          BY <2>1, <3>3 DEF SearchInv
        <4>2. Len(d) # Len(candidate)
          BY <2>1, <2>2, <3>1, <3>3, SameDepth
        <4>3. Len(dirname(candidate)) = Len(candidate) - 1
          BY <2>2, <2>3, DirnameIsPrefix
        <4> QED  BY <2>2, <4>1, <4>2, <4>3, DirIsSeq
      <3> QED  BY <2>1, <3>2, <3>3 DEF SearchInv
    <2>7. ReadInv' /\ NearestPin'
      <3>1. ReadInv'  BY <2>1 DEF ReadInv, Plain
      <3>2. NearestPin'  BY <2>1 DEF NearestPin
      <3> QED  BY <3>1, <3>2
    <2> QED  BY <2>4, <2>5, <2>6, <2>7
  <1>8. CASE Finish
    <2>1. /\ phase' = "done"
          /\ holding' = holding /\ pinned' = pinned /\ target' = target
          /\ isfile' = isfile /\ todo' = todo
          /\ scenario' = scenario /\ candidate' = candidate /\ analysed' = analysed
      BY <1>8 DEF Finish
    <2>2. TypeOK' /\ FileInv' /\ InsideInv' /\ SearchInv'
      BY <2>1 DEF TypeOK, FileInv, InsideInv, SearchInv, Plain
    <2>3. ReadInv'
      BY <2>1 DEF ReadInv, Plain
    <2>4. NearestPin'
      BY <2>1 DEF NearestPin
    <2> QED  BY <2>2, <2>3, <2>4
  <1>9. CASE UNCHANGED vars
    <2>1. /\ holding' = holding /\ pinned' = pinned /\ target' = target
          /\ isfile' = isfile /\ phase' = phase /\ todo' = todo
          /\ scenario' = scenario /\ candidate' = candidate /\ analysed' = analysed
      BY <1>9 DEF vars
    <2>2. TypeOK' /\ FileInv' /\ InsideInv'
      BY <2>1 DEF TypeOK, FileInv, InsideInv, Plain
    <2>3. ReadInv'
      BY <2>1 DEF ReadInv, Plain
    <2>4. SearchInv'
      BY <2>1 DEF SearchInv
    <2>5. NearestPin'
      BY <2>1 DEF NearestPin
    <2> QED  BY <2>2, <2>3, <2>4, <2>5
  <1> QED
    BY <1>1, <1>2, <1>3, <1>4, <1>5, <1>6, <1>7, <1>8, <1>9 DEF Next

LEMMA Invariance == Spec => []IInv
  BY InitHolds, NextKeeps, PTL DEF Spec

-----------------------------------------------------------------------------

\* Type correctness of the scan, for every directory tree.
THEOREM TypeCorrect == Spec => []TypeOK
  <1>1. IInv => TypeOK
    BY DEF IInv
  <1> QED  BY <1>1, Invariance, PTL

\* Whatever the tree holds, a target not named like a part of the split
\* layout is judged by its own certificates and its own pins: the search
\* never climbs above it and nothing outside is read (find_pin_file's
\* ceiling, discover_scenarios, discover_chain_files).
THEOREM Confinement == Spec => []NeverOutside
  <1>1. IInv => NeverOutside
    BY DEF IInv, NeverOutside, InsideInv, ReadInv, Plain
  <1> QED  BY <1>1, Invariance, PTL

\* The pin used is the one nearest to the scenario, and a scenario goes
\* unpinned only when no directory up to the target holds one.
THEOREM PinIsNearest == Spec => []NearestPin
  <1>1. IInv => NearestPin
    BY DEF IInv
  <1> QED  BY <1>1, Invariance, PTL

-----------------------------------------------------------------------------
(* Nothing is left out, and no chain is cut apart                          *)
(*                                                                         *)
(* The scenarios discovered are at any time those still to do, the one at  *)
(* hand and those analysed; and an analysis has read all of its scenario.  *)

AtHand == IF phase \in {"load", "search"} THEN {scenario} ELSE {}

Accounted ==
    phase # "discover" =>
        discover_scenarios(target) = todo \cup AtHand \cup {a.scenario : a \in analysed}

AllRead == \A a \in analysed : a.read = {h \in holding : Within(a.scenario, h)}

CoverInv ==
    /\ phase = "discover" => analysed = {}
    /\ phase = "done" => todo = {}
    /\ ~isfile => Accounted /\ AllRead

LEMMA InitCovers == Init => CoverInv
  BY DEF Init, CoverInv, Accounted, AllRead

LEMMA AnalyseCovers ==
    ASSUME CoverInv, phase \in {"load", "search"},
           NEW searched, NEW pin, Analyse(searched, pin)
    PROVE  CoverInv'
  <1> DEFINE new == [scenario |-> scenario, searched |-> searched, pin |-> pin,
                     read |-> discover_chain_files(scenario)]
  <1>1. /\ analysed' = analysed \cup {new} /\ phase' = "pick"
        /\ UNCHANGED <<holding, target, isfile, todo, scenario>>
    BY DEF Analyse
  <1>2. new.scenario = scenario /\ new.read = discover_chain_files(scenario)
    OBVIOUS
  <1> HIDE DEF new
  <1>3. ASSUME ~isfile
        PROVE  Accounted'
    <2>1. discover_scenarios(target) = todo \cup {scenario} \cup {a.scenario : a \in analysed}
      BY <1>3 DEF CoverInv, Accounted, AtHand
    <2>2. {a.scenario : a \in analysed \cup {new}} =
              {scenario} \cup {a.scenario : a \in analysed}
      BY <1>2
    <2> QED  BY <1>1, <2>1, <2>2 DEF Accounted, AtHand, discover_scenarios
  <1>4. ASSUME ~isfile
        PROVE  AllRead'
    <2>1. new.read = {h \in holding : Within(new.scenario, h)}
      BY <1>2, <1>4 DEF discover_chain_files
    <2> QED  BY <1>1, <1>4, <2>1 DEF CoverInv, AllRead
  <1> QED  BY <1>1, <1>3, <1>4 DEF CoverInv

LEMMA NextCovers == CoverInv /\ [Next]_vars => CoverInv'
  <1> SUFFICES ASSUME CoverInv, [Next]_vars PROVE CoverInv'
    OBVIOUS
  <1> USE DEF CoverInv
  <1>1. CASE Discover
    BY <1>1 DEF Discover, Accounted, AtHand, AllRead, discover_scenarios
  <1>2. CASE Pick
    <2>1. PICK s \in todo : todo' = todo \ {s} /\ scenario' = s
      BY <1>2 DEF Pick
    <2>2. /\ phase = "pick" /\ phase' = "load"
          /\ UNCHANGED <<holding, target, isfile, analysed>>
      BY <1>2 DEF Pick
    <2>3. ~isfile => Accounted'
      BY <2>1, <2>2 DEF Accounted, AtHand, discover_scenarios
    <2>4. ~isfile => AllRead'
      BY <2>2 DEF AllRead
    <2> QED  BY <2>2, <2>3, <2>4
  <1>3. CASE Search
    BY <1>3 DEF Search, Accounted, AtHand, AllRead, discover_scenarios
  <1>4. CASE NothingToJudge
    BY <1>4, AnalyseCovers DEF NothingToJudge
  <1>5. CASE PinFound
    BY <1>5, AnalyseCovers DEF PinFound
  <1>6. CASE GiveUp
    BY <1>6, AnalyseCovers DEF GiveUp
  <1>7. CASE Climb
    BY <1>7 DEF Climb, Accounted, AtHand, AllRead, discover_scenarios
  <1>8. CASE Finish
    BY <1>8 DEF Finish, Accounted, AtHand, AllRead, discover_scenarios
  <1>9. CASE UNCHANGED vars
    BY <1>9 DEF vars, Accounted, AtHand, AllRead, discover_scenarios
  <1> QED
    BY <1>1, <1>2, <1>3, <1>4, <1>5, <1>6, <1>7, <1>8, <1>9 DEF Next

LEMMA Covering == Spec => []CoverInv
  BY InitCovers, NextCovers, PTL DEF Spec

\* Every certificate file below a directory given as the target ends up in
\* some scenario's analysis: folding the split layout loses none.
THEOREM AllIsRead == Spec => []NothingOverlooked
  <1>1. TypeOK /\ CoverInv => NothingOverlooked
    <2> SUFFICES ASSUME TypeOK, CoverInv, phase = "done", ~isfile,
                        NEW d \in holding, Within(target, d)
                 PROVE  \E a \in analysed : d \in a.read
      BY DEF NothingOverlooked
    <2> DEFINE s == IF IsSplit(d) THEN dirname(d) ELSE d
    <2>1. s \in discover_scenarios(target)
      BY DEF discover_scenarios
    <2>2. PICK a \in analysed : a.scenario = s
      BY <2>1 DEF CoverInv, Accounted, AtHand
    <2>3. Within(s, d)
      BY WithinSelf, WithinDirname DEF TypeOK
    <2>4. d \in a.read
      BY <2>2, <2>3 DEF CoverInv, AllRead
    <2> QED  BY <2>4
  <1> QED  BY <1>1, TypeCorrect, Covering, PTL

\* The parts of a chain in the split layout are read together or not at all,
\* whatever the target and wherever the chain lies (discover_scenarios folds
\* each part into the parent it shares with the others).
THEOREM SplitChainsAreWhole == Spec => []SplitChainsStayWhole
  <1>1. TypeOK /\ CoverInv => SplitChainsStayWhole
    <2> SUFFICES ASSUME TypeOK, CoverInv, ~isfile,
                        \A h \in holding : IsSplit(h) => ~IsSplit(dirname(h)),
                        NEW a \in analysed, NEW d \in a.read, NEW e \in holding,
                        IsSplit(d), IsSplit(e), dirname(d) = dirname(e)
                 PROVE  e \in a.read
      BY DEF SplitChainsStayWhole
    <2>1. a.read = {h \in holding : Within(a.scenario, h)}
      BY DEF CoverInv, AllRead
    <2>2. a.scenario \in discover_scenarios(target)
      BY DEF CoverInv, Accounted
    <2>3. PICK h \in holding : a.scenario = IF IsSplit(h) THEN dirname(h) ELSE h
      BY <2>2 DEF discover_scenarios
    <2>4. a.scenario \in Dirs /\ d \in Dirs /\ e \in Dirs
      BY <2>1, <2>3, DirnameIsDir DEF TypeOK
    <2>5. a.scenario # d
      BY <2>3
    <2>6. Within(a.scenario, dirname(e))
      BY <2>1, <2>4, <2>5, ParentStaysWithin
    <2>7. Within(a.scenario, e)
      BY <2>4, <2>6, DirnameIsDir, WithinDirname, WithinTrans
    <2> QED  BY <2>1, <2>7
  <1> QED  BY <1>1, TypeCorrect, Covering, PTL

-----------------------------------------------------------------------------
(* The report: grouping                                                    *)

\* The elements of a sequence, of one grown by an element, and of two joined.
LEMMA ElementsAre ==
    ASSUME NEW T, NEW s \in Seq(T)
    PROVE  \A x : x \in SX!ToSet(s) <=> \E i \in 1..Len(s) : s[i] = x
  <1>1. DOMAIN s = 1..Len(s)
    OBVIOUS
  <1> QED  BY <1>1 DEF SX!ToSet

Families(F) == [family : Class, results : Seq(F)]

\* No family comes up twice.
Apart(g) == \A i, j \in 1..Len(g) : g[i].family = g[j].family => i = j

\* h is g with f added at the end of its family, the m-th.
Joined(g, f, h, m) ==
    /\ m \in 1..Len(g) /\ Len(h) = Len(g)
    /\ g[m].family = f.class /\ h[m].family = f.class
    /\ h[m].results = Append(g[m].results, f)
    /\ \A i \in 1..Len(g) : i # m => h[i] = g[i]

\* h is g with a family for f alone.
Founded(g, f, h) ==
    /\ Len(h) = Len(g) + 1
    /\ h[Len(h)].family = f.class /\ h[Len(h)].results = <<f>>
    /\ \A i \in 1..Len(g) : h[i] = g[i] /\ g[i].family # f.class

\* Grouped adds the finding to its family, or founds one.
LEMMA GroupedFacts ==
    ASSUME NEW F, NEW g \in Seq(Families(F)), NEW f \in F, f.class \in Class, Apart(g)
    PROVE  /\ Grouped(g, f) \in Seq(Families(F))
           /\ Founded(g, f, Grouped(g, f)) \/ \E m : Joined(g, f, Grouped(g, f), m)
  <1> DEFINE h == Grouped(g, f)
  <1>0. /\ Len(g) \in Nat
        /\ \A i \in 1..Len(g) : g[i] \in Families(F) /\ g[i].results \in Seq(F)
      <2>1. \A i \in 1..Len(g) : g[i] \in Families(F)
        OBVIOUS
      <2> QED  BY <2>1 DEF Families
  <1>1. CASE \E m \in 1..Len(g) : g[m].family = f.class
    <2>1. PICK m \in 1..Len(g) : g[m].family = f.class
      BY <1>1
    <2>2. h = [i \in 1..Len(g) |->
                  IF g[i].family = f.class
                  THEN [g[i] EXCEPT !.results = Append(g[i].results, f)] ELSE g[i]]
      BY <1>1 DEF Grouped, Family
    <2>3. \A i \in 1..Len(g) : i # m => g[i].family # f.class
      BY <2>1 DEF Apart
    <2>4. \A i \in 1..Len(g) : i # m => h[i] = g[i]
      BY <2>2, <2>3
    <2>5. h[m] = [g[m] EXCEPT !.results = Append(g[m].results, f)]
      BY <2>1, <2>2
    <2>6. h[m] \in Families(F) /\ h[m].family = f.class /\ h[m].results = Append(g[m].results, f)
      <3> DEFINE q == Append(g[m].results, f)
      <3>1. q \in Seq(F) /\ g[m] \in Families(F)
        BY <1>0, <2>1
      <3> HIDE DEF q
      <3>2. h[m] = [g[m] EXCEPT !.results = q]
        BY <2>5 DEF q
      <3> HIDE DEF h
      <3>3. h[m] \in Families(F) /\ h[m].family = g[m].family /\ h[m].results = q
        BY <3>1, <3>2 DEF Families
      <3> QED  BY <2>1, <3>3 DEF q
    <2>7. \A i \in 1..Len(g) : h[i] \in Families(F)
      BY <1>0, <2>4, <2>6
    <2>8. h = [i \in 1..Len(g) |-> h[i]]
      BY <2>2
    <2> HIDE DEF h
    <2>9. h \in Seq(Families(F)) /\ Len(h) = Len(g)
      BY <1>0, <2>7, <2>8
    <2>10. Joined(g, f, h, m)
      BY <2>1, <2>4, <2>6, <2>9 DEF Joined
    <2> QED  BY <2>9, <2>10 DEF h
  <1>2. CASE ~\E m \in 1..Len(g) : g[m].family = f.class
    <2> DEFINE new == [family |-> f.class, results |-> <<f>>]
    <2>1. h = Append(g, new)
      BY <1>2 DEF Grouped, Family
    <2>2. new \in Families(F) /\ new.family = f.class /\ new.results = <<f>>
      BY DEF Families
    <2> HIDE DEF new, h
    <2>3. /\ h \in Seq(Families(F)) /\ Len(h) = Len(g) + 1 /\ h[Len(h)] = new
          /\ \A i \in 1..Len(g) : h[i] = g[i]
      BY <2>1, <2>2
    <2>4. Founded(g, f, h)
      BY <2>2, <2>3, <1>2 DEF Founded
    <2> QED  BY <2>3, <2>4 DEF h
  <1> QED  BY <1>1, <1>2

\* In the order of the analysis.
Sorted(q) == \A k, l \in 1..Len(q) : k < l => Before(q[k], q[l])

\* The families g hold the findings M, each once, in order and where it belongs.
Holds(g, M) ==
    /\ Apart(g)
    /\ \A i \in 1..Len(g) :
          /\ Len(g[i].results) > 0
          /\ Sorted(g[i].results)
          /\ \A k \in 1..Len(g[i].results) :
                g[i].results[k].class = g[i].family /\ g[i].results[k] \in M
    /\ \A f \in M : \E i \in 1..Len(g) : \E k \in 1..Len(g[i].results) :
          g[i].results[k] = f

\* The families hold what the loops of build_family_groups have come to.
GroupedInv ==
    /\ scenarios \in Found
    /\ done \in 0..Len(scenarios) /\ nth \in Nat
    /\ stage \notin {"target", "analyse", "refused"} => done = Len(scenarios)
    /\ grouped \in Seq(Families(AllFindings))
    /\ Holds(grouped, {f \in AllFindings : Met(f)})

\* One more finding, later than all others.
LEMMA HoldsMore ==
    ASSUME NEW F, NEW g \in Seq(Families(F)), NEW M \in SUBSET F, NEW f \in F,
           f.class \in Class, Holds(g, M), \A x \in M : Before(x, f)
    PROVE  Holds(Grouped(g, f), M \cup {f})
  <1> DEFINE h == Grouped(g, f)
             M1 == M \cup {f}
             Fine(fam) == /\ Len(fam.results) > 0
                          /\ Sorted(fam.results)
                          /\ \A k \in 1..Len(fam.results) :
                                fam.results[k].class = fam.family /\ fam.results[k] \in M1
             Has(p, x) == \E i \in 1..Len(p) : \E k \in 1..Len(p[i].results) :
                             p[i].results[k] = x
  <1>0. /\ Len(g) \in Nat /\ Apart(g)
        /\ \A i \in 1..Len(g) : g[i].results \in Seq(F) /\ Fine(g[i])
        /\ \A x \in M : Has(g, x)
    <2>1. \A i \in 1..Len(g) : g[i] \in Families(F)
      OBVIOUS
    <2> QED  BY <2>1 DEF Families, Holds
  <1>1. h \in Seq(Families(F)) /\ (Founded(g, f, h) \/ \E m : Joined(g, f, h, m))
    BY <1>0, GroupedFacts
  <1> HIDE DEF h
  <1>2. SUFFICES Apart(h) /\ (\A i \in 1..Len(h) : Fine(h[i])) /\ \A x \in M1 : Has(h, x)
    BY DEF Holds, h
  <1>3. CASE Founded(g, f, h)
    <2>1. /\ Len(h) = Len(g) + 1 /\ h[Len(h)].family = f.class
          /\ h[Len(h)].results = <<f>>
          /\ \A i \in 1..Len(g) : h[i] = g[i] /\ g[i].family # f.class
      BY <1>3 DEF Founded
    <2>2. \A i \in 1..Len(h) : i \in 1..Len(g) \/ i = Len(h)
      BY <2>1, <1>0
    <2>3. Apart(h)
      BY <1>0, <2>1, <2>2 DEF Apart
    <2>4. Fine(h[Len(h)])
      <3>1. Len(<<f>>) = 1 /\ <<f>>[1] = f
        OBVIOUS
      <3>2. Sorted(<<f>>)
        BY <3>1 DEF Sorted
      <3>3. h[Len(h)].results[1] = f /\ Len(h[Len(h)].results) = 1
        BY <2>1, <3>1
      <3>4. \A k \in 1..Len(h[Len(h)].results) : k = 1
        BY <3>3
      <3> QED  BY <2>1, <3>2, <3>3, <3>4
    <2>5. \A i \in 1..Len(h) : Fine(h[i])
      <3> HIDE DEF Fine
      <3> QED  BY <1>0, <2>1, <2>2, <2>4
    <2>6. Has(h, f)
      <3>1. Len(h) \in 1..Len(h) /\ 1 \in 1..Len(h[Len(h)].results)
            /\ h[Len(h)].results[1] = f
        BY <1>0, <2>1
      <3> QED  BY <3>1
    <2>7. \A x \in M : Has(h, x)
      <3>1. \A i \in 1..Len(g) : i \in 1..Len(h) /\ h[i] = g[i]
        BY <1>0, <2>1
      <3> QED  BY <1>0, <3>1
    <2> QED  BY <2>3, <2>5, <2>6, <2>7
  <1>4. CASE \E m : Joined(g, f, h, m)
    <2>1. PICK m : /\ m \in 1..Len(g) /\ Len(h) = Len(g)
                   /\ g[m].family = f.class /\ h[m].family = f.class
                   /\ h[m].results = Append(g[m].results, f)
                   /\ \A i \in 1..Len(g) : i # m => h[i] = g[i]
      BY <1>4 DEF Joined
    <2> DEFINE q == g[m].results
               r == Append(q, f)
    <2>2. /\ q \in Seq(F) /\ Len(q) \in Nat /\ r \in Seq(F) /\ Len(r) = Len(q) + 1
          /\ r[Len(r)] = f /\ \A k \in 1..Len(q) : r[k] = q[k]
      BY <1>0, <2>1
    <2>3. /\ Sorted(q)
          /\ \A k \in 1..Len(q) : q[k].class = f.class /\ q[k] \in M
      BY <2>1 DEF Holds
    <2>4. h[m].results = r
      BY <2>1
    <2> HIDE DEF q, r
    <2>5. \A k \in 1..Len(r) : k \in 1..Len(q) \/ k = Len(r)
      BY <2>2
    <2>6. Sorted(r)
      <3> SUFFICES ASSUME NEW k \in 1..Len(r), NEW l \in 1..Len(r), k < l
                   PROVE  Before(r[k], r[l])
        BY DEF Sorted
      <3>1. k \in 1..Len(q)
        BY <2>2
      <3>2. CASE l \in 1..Len(q)
        BY <3>1, <3>2, <2>2, <2>3 DEF Sorted
      <3>3. CASE l = Len(r)
        <4>1. r[k] = q[k] /\ q[k] \in M /\ r[l] = f
          BY <3>1, <3>3, <2>2, <2>3
        <4> QED  BY <4>1
      <3> QED  BY <3>2, <3>3, <2>5
    <2>7. \A k \in 1..Len(r) : r[k].class = f.class /\ r[k] \in M1
      BY <2>2, <2>3, <2>5
    <2>8. Fine(h[m])
      <3>1. Len(r) > 0
        BY <2>2
      <3> QED  BY <2>1, <2>4, <2>6, <2>7, <3>1
    <2>9. \A i \in 1..Len(h) : Fine(h[i])
      <3> HIDE DEF Fine
      <3> QED  BY <1>0, <2>1, <2>8
    <2>10. Apart(h)
      BY <1>0, <2>1 DEF Apart
    <2>11. Has(h, f)
      <3>1. m \in 1..Len(h) /\ Len(r) \in 1..Len(r)
        BY <2>1, <2>2
      <3> QED  BY <3>1, <2>2, <2>4
    <2>12. ASSUME NEW x \in M PROVE Has(h, x)
      <3>1. PICK i \in 1..Len(g) : \E k \in 1..Len(g[i].results) : g[i].results[k] = x
        BY <1>0
      <3>2. CASE i # m
        BY <3>1, <3>2, <2>1
      <3>3. CASE i = m
        <4>1. PICK k \in 1..Len(q) : q[k] = x
          BY <3>1, <3>3 DEF q
        <4>2. k \in 1..Len(r) /\ r[k] = x
          BY <4>1, <2>2
        <4> QED  BY <4>2, <2>1, <2>4
      <3> QED  BY <3>2, <3>3
    <2> QED  BY <2>9, <2>10, <2>11, <2>12
  <1> QED  BY <1>1, <1>3, <1>4

\* The findings are known by their scenario and their place in it.
LEMMA FindingFacts ==
    ASSUME scenarios \in Found
    PROVE  /\ Len(scenarios) \in Nat
           /\ \A s \in 1..Len(scenarios) : scenarios[s].classes \in Seq(Class)
           /\ \A s \in 1..Len(scenarios) : \A i \in 1..Len(scenarios[s].classes) :
                 Finding(s, i) \in AllFindings
           /\ \A f \in AllFindings :
                 /\ f.scenario \in 1..Len(scenarios)
                 /\ f.nth \in 1..Len(scenarios[f.scenario].classes)
                 /\ f = Finding(f.scenario, f.nth)
                 /\ f.class \in Class
  <1>1. scenarios \in Seq(SX!ToSet(scenarios))
    BY ReportAssumption
  <1>2. Len(scenarios) \in Nat
    BY <1>1
  <1>3. \A s \in 1..Len(scenarios) : scenarios[s].classes \in Seq(Class)
    BY ReportAssumption
  <1>4. ASSUME NEW s \in 1..Len(scenarios), NEW i \in 1..Len(scenarios[s].classes)
        PROVE  Finding(s, i) \in AllFindings
    <2> DEFINE x == <<s, i>>
    <2>1. x \in UNION {{t} \X (1..Len(scenarios[t].classes)) : t \in 1..Len(scenarios)}
      OBVIOUS
    <2>2. Finding(s, i) = Finding(x[1], x[2])
      OBVIOUS
    <2> HIDE DEF x
    <2> QED  BY <2>1, <2>2 DEF AllFindings
  <1>5. ASSUME NEW f \in AllFindings
        PROVE  /\ f.scenario \in 1..Len(scenarios)
               /\ f.nth \in 1..Len(scenarios[f.scenario].classes)
               /\ f = Finding(f.scenario, f.nth)
               /\ f.class \in Class
    <2>1. PICK x \in UNION {{t} \X (1..Len(scenarios[t].classes)) : t \in 1..Len(scenarios)} :
                 f = Finding(x[1], x[2])
      BY DEF AllFindings
    <2>2. x[1] \in 1..Len(scenarios) /\ x[2] \in 1..Len(scenarios[x[1]].classes)
      BY <2>1
    <2>3. f.scenario = x[1] /\ f.nth = x[2] /\ f.class = scenarios[x[1]].classes[x[2]]
      BY <2>1 DEF Finding
    <2>4. scenarios[x[1]].classes[x[2]] \in Class
      BY <2>2, <1>3
    <2> QED  BY <2>1, <2>2, <2>3, <2>4
  <1> QED  BY <1>2, <1>3, <1>4, <1>5

LEMMA GroupedInit == MainInit => GroupedInv
  <1> SUFFICES ASSUME MainInit PROVE GroupedInv
    OBVIOUS
  <1>1. scenarios \in Found /\ done = 0 /\ nth = 0 /\ grouped = <<>> /\ stage = "target"
    BY DEF MainInit
  <1>2. /\ Len(scenarios) \in Nat
        /\ \A f \in AllFindings :
              f.scenario \in 1..Len(scenarios)
              /\ f.nth \in 1..Len(scenarios[f.scenario].classes)
    BY <1>1, FindingFacts
  <1>3. \A f \in AllFindings : f.scenario >= 1 /\ f.nth >= 1
    BY <1>2
  <1>4. \A f \in AllFindings : ~Met(f)
    BY <1>1, <1>2, <1>3 DEF Met
  <1>5. {f \in AllFindings : Met(f)} = {}
    BY <1>4
  <1>6. grouped \in Seq(Families(AllFindings)) /\ Len(grouped) = 0
    BY <1>1
  <1>7. Holds(grouped, {})
    BY <1>6 DEF Holds, Apart
  <1>8. Holds(grouped, {f \in AllFindings : Met(f)})
    BY <1>5, <1>7
  <1>9. done \in 0..Len(scenarios) /\ nth \in Nat
    BY <1>1, <1>2
  <1> QED  BY <1>1, <1>6, <1>8, <1>9 DEF GroupedInv

LEMMA GroupedNext == GroupedInv /\ [MainNext]_everything => GroupedInv'
  <1> SUFFICES ASSUME GroupedInv, [MainNext]_everything PROVE GroupedInv'
    OBVIOUS
  <1>0. /\ scenarios \in Found /\ done \in 0..Len(scenarios) /\ nth \in Nat
        /\ grouped \in Seq(Families(AllFindings))
        /\ Holds(grouped, {f \in AllFindings : Met(f)})
        /\ Len(scenarios) \in Nat
        /\ \A s \in 1..Len(scenarios) : scenarios[s].classes \in Seq(Class)
    BY FindingFacts DEF GroupedInv
  <1>1. UNCHANGED scenarios
    BY DEF MainNext, ResolveTarget, GroupFinding, NextScenario, EndScenarios, PrintConsole,
           WriteReport, FailToWrite, WriteNothing, PrintPayload, GoTo, options, everything
  <1>2. AllFindings' = AllFindings
    BY <1>1 DEF AllFindings, Finding, variant_name
  <1>3. CASE GroupFinding
    <2> DEFINE f == Finding(done + 1, nth + 1)
               M == {x \in AllFindings : Met(x)}
    <2>1. /\ stage = "analyse" /\ done < Len(scenarios)
          /\ nth < Len(scenarios[done + 1].classes)
          /\ grouped' = Grouped(grouped, f)
          /\ nth' = nth + 1 /\ UNCHANGED <<stage, done>>
      BY <1>3 DEF GroupFinding
    <2>2. done + 1 \in 1..Len(scenarios) /\ nth + 1 \in 1..Len(scenarios[done + 1].classes)
      BY <1>0, <2>1
    <2>3. f \in AllFindings /\ f.class \in Class
      BY <1>0, <2>2, FindingFacts
    <2>4. f.scenario = done + 1 /\ f.nth = nth + 1
      BY DEF Finding
    <2> HIDE DEF f
    <2>5. \A x \in AllFindings : /\ x.scenario \in Nat /\ x.nth \in Nat
                                /\ x = Finding(x.scenario, x.nth)
      BY <1>0, FindingFacts
    <2>6. \A x \in M : Before(x, f)
      BY <1>0, <2>4, <2>5 DEF Met, Before
    <2>7. {x \in AllFindings' : Met(x)'} = M \cup {f}
      <3>1. \A x \in AllFindings :
               Met(x)' <=> x.scenario <= done \/ (x.scenario = done + 1 /\ x.nth <= nth + 1)
        BY <2>1 DEF Met
      <3>2. \A x \in AllFindings : Met(x)' <=> Met(x) \/ (x.scenario = done + 1 /\ x.nth = nth + 1)
        BY <3>1, <2>5, <1>0 DEF Met
      <3>3. \A x \in AllFindings : (x.scenario = done + 1 /\ x.nth = nth + 1) <=> x = f
        BY <2>4, <2>5 DEF f
      <3> QED  BY <1>2, <2>3, <3>2, <3>3
    <2>8. Holds(Grouped(grouped, f), M \cup {f})
      <3>1. M \in SUBSET AllFindings /\ Holds(grouped, M)
        BY <1>0
      <3> HIDE DEF M
      <3> QED  BY <1>0, <2>3, <2>6, <3>1, HoldsMore
    <2>9. Grouped(grouped, f) \in Seq(Families(AllFindings))
      <3>1. Apart(grouped)
        BY <1>0 DEF Holds
      <3> QED  BY <1>0, <2>3, <3>1, GroupedFacts
    <2>10. /\ Holds(grouped', {x \in AllFindings' : Met(x)'})
           /\ grouped' \in Seq(Families(AllFindings'))
      BY <1>2, <2>1, <2>7, <2>8, <2>9
    <2> QED  BY <1>0, <1>1, <2>1, <2>10 DEF GroupedInv
  <1>4. CASE NextScenario
    <2>1. /\ stage = "analyse" /\ done < Len(scenarios)
          /\ nth = Len(scenarios[done + 1].classes)
          /\ done' = done + 1 /\ nth' = 0 /\ UNCHANGED <<stage, grouped>>
      BY <1>4 DEF NextScenario
    <2>2. \A x \in AllFindings : /\ x.scenario \in Nat /\ x.nth \in Nat /\ x.nth >= 1
                                /\ x.nth <= Len(scenarios[x.scenario].classes)
      BY <1>0, FindingFacts
    <2>3. \A x \in AllFindings : Met(x)' <=> Met(x)
      <3> TAKE x \in AllFindings
      <3>1. Met(x)' <=> x.scenario <= done + 1 \/ (x.scenario = done + 1 + 1 /\ x.nth <= 0)
        BY <2>1 DEF Met
      <3>2. x.scenario = done + 1 => x.nth <= nth
        BY <2>1, <2>2
      <3> QED  BY <3>1, <3>2, <2>2, <1>0 DEF Met
    <2>4. {x \in AllFindings' : Met(x)'} = {x \in AllFindings : Met(x)}
      BY <1>2, <2>3
    <2>5. done' \in 0..Len(scenarios) /\ nth' \in Nat
      BY <1>0, <2>1
    <2>6. /\ Holds(grouped', {x \in AllFindings' : Met(x)'})
          /\ grouped' \in Seq(Families(AllFindings'))
      BY <1>0, <1>2, <2>1, <2>4
    <2> QED  BY <1>0, <1>1, <2>1, <2>5, <2>6 DEF GroupedInv
  <1>5. CASE ~GroupFinding /\ ~NextScenario
    <2>1. UNCHANGED <<done, nth, grouped>>
      BY <1>5 DEF MainNext, ResolveTarget, EndScenarios, PrintConsole,
             WriteReport, FailToWrite, WriteNothing, PrintPayload, everything
    <2>2. stage' \notin {"target", "analyse", "refused"} => done = Len(scenarios)
      BY <1>5 DEF GroupedInv, MainNext, ResolveTarget, EndScenarios, PrintConsole,
             WriteReport, FailToWrite, WriteNothing, PrintPayload, GoTo, everything
    <2>3. {x \in AllFindings' : Met(x)'} = {x \in AllFindings : Met(x)}
      BY <1>2, <2>1 DEF Met
    <2> QED  BY <1>0, <1>1, <1>2, <2>1, <2>2, <2>3 DEF GroupedInv
  <1> QED  BY <1>3, <1>4, <1>5

\* Every finding of the analysis is in the report once, in the family of its
\* classification, in the order found (build_family_groups).
THEOREM EachFindingReported == MainSpec => []EveryFindingOnce
  <1>1. GroupedInv => EveryFindingOnce
    <2> SUFFICES ASSUME GroupedInv PROVE EveryFindingOnce
      OBVIOUS
    <2> DEFINE M == {f \in AllFindings : Met(f)}
    <2>0. /\ grouped \in Seq(Families(AllFindings)) /\ Holds(grouped, M)
          /\ scenarios \in Found
      BY DEF GroupedInv
    <2>1. \A i \in 1..Len(grouped) : grouped[i].results \in Seq(AllFindings)
      <3>1. \A i \in 1..Len(grouped) : grouped[i] \in Families(AllFindings)
        BY <2>0
      <3> QED  BY <3>1 DEF Families
    <2>2. ASSUME NEW i \in 1..Len(grouped)
          PROVE  \A x : x \in SX!ToSet(grouped[i].results)
                          <=> \E k \in 1..Len(grouped[i].results) : grouped[i].results[k] = x
      <3> DEFINE r == grouped[i].results
      <3>1. r \in Seq(AllFindings)
        BY <2>1
      <3> HIDE DEF r
      <3>2. \A x : x \in SX!ToSet(r) <=> \E k \in 1..Len(r) : r[k] = x
        BY <3>1, ElementsAre
      <3> QED  BY <3>2 DEF r
    <2>3. UNION {SX!ToSet(grouped[i].results) : i \in 1..Len(grouped)} = M
      <3>1. ASSUME NEW x, x \in UNION {SX!ToSet(grouped[i].results) : i \in 1..Len(grouped)}
            PROVE  x \in M
        <4>1. PICK i \in 1..Len(grouped) : x \in SX!ToSet(grouped[i].results)
          BY <3>1
        <4>2. PICK k \in 1..Len(grouped[i].results) : grouped[i].results[k] = x
          BY <4>1, <2>2
        <4> HIDE DEF M
        <4> QED  BY <4>2, <2>0 DEF Holds
      <3>2. ASSUME NEW x \in M
            PROVE  x \in UNION {SX!ToSet(grouped[i].results) : i \in 1..Len(grouped)}
        <4>1. PICK i \in 1..Len(grouped) : \E k \in 1..Len(grouped[i].results) :
                     grouped[i].results[k] = x
          BY <2>0 DEF Holds
        <4>2. x \in SX!ToSet(grouped[i].results)
          BY <4>1, <2>2
        <4> QED  BY <4>2
      <3> HIDE DEF M
      <3> QED  BY <3>1, <3>2
    <2>4. ASSUME NEW i \in 1..Len(grouped), NEW j \in 1..Len(grouped),
                 NEW k \in 1..Len(grouped[i].results), NEW l \in 1..Len(grouped[j].results)
          PROVE  LET f == grouped[i].results[k]
                     g == grouped[j].results[l]
                 IN  /\ f = g => i = j /\ k = l
                     /\ (f.class = g.class) <=> (i = j)
                     /\ i = j /\ k < l => Before(f, g)
      <3> DEFINE f == grouped[i].results[k]
                 g == grouped[j].results[l]
      <3>1. f.class = grouped[i].family /\ g.class = grouped[j].family /\ f \in AllFindings
        BY <2>0 DEF Holds
      <3>2. (f.class = g.class) <=> (i = j)
        BY <2>0, <3>1 DEF Holds, Apart
      <3>3. i = j => /\ (k < l => Before(f, g)) /\ (l < k => Before(g, f))
        BY <2>0 DEF Holds, Sorted
      <3>4. ~Before(f, f)
        <4>1. f.scenario \in Int /\ f.nth \in Int
          BY <2>0, <3>1, FindingFacts
        <4> HIDE DEF f
        <4> QED  BY <4>1 DEF Before
      <3>5. k \in Int /\ l \in Int
        OBVIOUS
      <3> HIDE DEF f, g
      <3>6. f = g => i = j /\ k = l
        BY <3>2, <3>3, <3>4, <3>5
      <3> QED  BY <3>2, <3>3, <3>6 DEF f, g
    <2> QED  BY <2>3, <2>4 DEF EveryFindingOnce
  <1> QED  BY <1>1, GroupedInit, GroupedNext, PTL DEF MainSpec

-----------------------------------------------------------------------------
(* The report: counts                                                      *)

\* Sum is a recursive function; over one summand its equation is solved at
\* sight.
LEMMA SumOfOne ==
    ASSUME NEW c, NEW n \in Nat
    PROVE  Sum([x \in {c} |-> n]) = n
  <1> DEFINE counts == [x \in {c} |-> n]
             Equation(f) == f = [S \in SUBSET DOMAIN counts |->
                                   IF S = {} THEN 0
                                   ELSE LET d == CHOOSE x \in S : TRUE
                                        IN  counts[d] + f[S \ {d}]]
             total == CHOOSE f : Equation(f)
  <1>1. Sum(counts) = total[DOMAIN counts]
    BY DEF Sum
  <1>2. DOMAIN counts = {c} /\ counts[c] = n
    OBVIOUS
  <1>3. \E f : Equation(f)
    <2> DEFINE f == [S \in SUBSET {c} |-> IF S = {} THEN 0 ELSE n]
    <2>1. ASSUME NEW S \in SUBSET {c}
          PROVE  f[S] = IF S = {} THEN 0
                        ELSE LET d == CHOOSE x \in S : TRUE IN counts[d] + f[S \ {d}]
      <3>1. CASE S = {}
        BY <3>1
      <3>2. CASE S # {}
        <4>1. S = {c} /\ (CHOOSE x \in S : TRUE) = c /\ S \ {c} = {}
          BY <3>2
        <4>2. f[{}] = 0 /\ f[S] = n
          BY <3>2
        <4> QED  BY <3>2, <4>1, <4>2, <1>2
      <3> QED  BY <3>1, <3>2
    <2>2. f = [S \in SUBSET {c} |-> f[S]]
      OBVIOUS
    <2> HIDE DEF f, counts
    <2>3. Equation(f)
      BY <2>1, <2>2, <1>2
    <2> QED  BY <2>3
  <1>4. Equation(total)
    <2> HIDE DEF Equation
    <2> QED  BY <1>3
  <1> HIDE DEF total, counts
  <1>5. \A S \in SUBSET {c} :
           total[S] = IF S = {} THEN 0
                      ELSE LET d == CHOOSE x \in S : TRUE IN counts[d] + total[S \ {d}]
    BY <1>2, <1>4
  <1>6. total[{}] = 0
    BY <1>5
  <1>7. (CHOOSE x \in {c} : TRUE) = c /\ {c} \ {c} = {} /\ {c} # {}
    OBVIOUS
  <1>8. total[{c}] = counts[c] + total[{}]
    BY <1>5, <1>7
  <1> QED  BY <1>1, <1>2, <1>6, <1>8 DEF counts

\* Counting findings of one class.
LEMMA CountOfOneClass ==
    ASSUME NEW F, NEW r \in Seq(F), NEW c, Len(r) > 0, \A k \in 1..Len(r) : r[k].class = c
    PROVE  Counter(r) = [x \in {c} |-> Len(r)]
  <1>1. Len(r) \in Nat /\ 1 \in 1..Len(r)
    OBVIOUS
  <1>2. {r[i].class : i \in 1..Len(r)} = {c}
    BY <1>1
  <1>3. {i \in 1..Len(r) : r[i].class = c} = 1..Len(r)
    OBVIOUS
  <1>4. Cardinality(1..Len(r)) = Len(r)
    BY <1>1, FS_Interval
  <1>5. Counter(r) = [x \in {c} |-> Cardinality({i \in 1..Len(r) : r[i].class = x})]
    BY <1>2 DEF Counter
  <1> QED  BY <1>3, <1>4, <1>5

\* A list without repetitions has as many members as places.
LEMMA ListCounts ==
    ASSUME NEW F, NEW r \in Seq(F), \A k, l \in 1..Len(r) : r[k] = r[l] => k = l
    PROVE  Cardinality({r[k] : k \in 1..Len(r)}) = Len(r)
  <1> DEFINE T == {r[k] : k \in 1..Len(r)}
             b == [k \in 1..Len(r) |-> r[k]]
  <1>1. Len(r) \in Nat
    OBVIOUS
  <1>2. b \in [1..Len(r) -> T] /\ (\A k, l \in 1..Len(r) : b[k] = b[l] => k = l)
        /\ \A t \in T : \E k \in 1..Len(r) : b[k] = t
    OBVIOUS
  <1> HIDE DEF T, b
  <1>3. ExistsBijection(1..Len(r), T)
    <2>1. b \in Injection(1..Len(r), T) /\ b \in Surjection(1..Len(r), T)
      BY <1>2 DEF Injection, Surjection, IsInjective
    <2> QED  BY <2>1 DEF ExistsBijection, Bijection
  <1>4. Cardinality(T) = Len(r)
    BY <1>1, <1>3, FS_CountingElements
  <1> QED  BY <1>4 DEF T

\* Every family counts for its class what all findings together have of it.
LEMMA FamilyCounts ==
    ASSUME GroupedInv, stage = "json", NEW i \in 1..Len(grouped)
    PROVE  /\ Counter(grouped[i].results) = [x \in {grouped[i].family} |-> Len(grouped[i].results)]
           /\ Len(grouped[i].results) \in Nat
           /\ Cardinality({f \in AllFindings : f.class = grouped[i].family})
                = Len(grouped[i].results)
           /\ \E f \in AllFindings : f.class = grouped[i].family
  <1> DEFINE r == grouped[i].results
             c == grouped[i].family
             M == {f \in AllFindings : Met(f)}
  <1>0. /\ grouped \in Seq(Families(AllFindings)) /\ Holds(grouped, M)
        /\ scenarios \in Found /\ done = Len(scenarios)
    BY DEF GroupedInv
  <1>1. /\ \A j \in 1..Len(grouped) : grouped[j] \in Families(AllFindings)
        /\ r \in Seq(AllFindings)
    <2>1. \A j \in 1..Len(grouped) : grouped[j] \in Families(AllFindings)
      BY <1>0
    <2>2. grouped[i] \in Families(AllFindings)
      BY <2>1
    <2> QED  BY <2>1, <2>2 DEF Families
  <1>2. M = AllFindings
    <2>1. \A f \in AllFindings : f.scenario \in 1..Len(scenarios)
      BY <1>0, FindingFacts
    <2> QED  BY <1>0, <2>1 DEF Met
  <1> HIDE DEF M
  <1>3. /\ Len(r) > 0 /\ Sorted(r)
        /\ \A k \in 1..Len(r) : r[k].class = c /\ r[k] \in AllFindings
    BY <1>0, <1>2 DEF Holds
  <1>4. \A k, l \in 1..Len(r) : r[k] = r[l] => k = l
    <2> SUFFICES ASSUME NEW k \in 1..Len(r), NEW l \in 1..Len(r), r[k] = r[l], k < l
                 PROVE  FALSE
      OBVIOUS
    <2>1. Before(r[k], r[l])
      BY <1>3 DEF Sorted
    <2>2. r[k].scenario \in Int /\ r[k].nth \in Int
      BY <1>0, <1>3, FindingFacts
    <2> HIDE DEF r
    <2> QED  BY <2>1, <2>2 DEF Before
  <1>5. {f \in AllFindings : f.class = c} = {r[k] : k \in 1..Len(r)}
    <2>1. ASSUME NEW f \in AllFindings, f.class = c PROVE \E k \in 1..Len(r) : r[k] = f
      <3>1. PICK j \in 1..Len(grouped) : \E k \in 1..Len(grouped[j].results) :
                   grouped[j].results[k] = f
        BY <1>0, <1>2 DEF Holds
      <3>2. grouped[j].family = c
        BY <1>0, <2>1, <3>1 DEF Holds
      <3>3. j = i
        BY <1>0, <3>2 DEF Holds, Apart
      <3> QED  BY <3>1, <3>3
    <2> HIDE DEF r, c
    <2> QED  BY <1>3, <2>1
  <1> HIDE DEF r, c
  <1>6. Counter(r) = [x \in {c} |-> Len(r)]
    BY <1>1, <1>3, CountOfOneClass
  <1>7. Cardinality({r[k] : k \in 1..Len(r)}) = Len(r)
    BY <1>1, <1>4, ListCounts
  <1>8. Len(r) \in Nat /\ 1 \in 1..Len(r)
    BY <1>1, <1>3
  <1>9. \E f \in AllFindings : f.class = c
    BY <1>3, <1>8
  <1> QED  BY <1>5, <1>6, <1>7, <1>8, <1>9 DEF r, c

\* What a family's Counter is: its class alone.
JustOne(c, n) == [x \in {c} |-> n]

\* The totals of families that count one class each, no two the same.
SizeByFamily(n, fam, size) ==
    [c \in {fam[i] : i \in 1..n} |-> size[CHOOSE i \in 1..n : fam[i] = c]]

LEMMA TotalsOfApart ==
    ASSUME NEW n \in Nat, NEW fam, NEW size, NEW counts,
           Len(counts) = n,
           \A i \in 1..n : counts[i] = JustOne(fam[i], size[i]) /\ size[i] \in Nat,
           \A i, j \in 1..n : fam[i] = fam[j] => i = j
    PROVE  Totals(counts) = SizeByFamily(n, fam, size)
  <1>1. Len(counts) = n
    OBVIOUS
  <1>2. \A i \in 1..n : DOMAIN counts[i] = {fam[i]} /\ counts[i][fam[i]] = size[i]
    <2>1. ASSUME NEW i \in 1..n
          PROVE  DOMAIN counts[i] = {fam[i]} /\ counts[i][fam[i]] = size[i]
      <3>1. counts[i] = JustOne(fam[i], size[i])
        OBVIOUS
      <3> QED  BY ONLY <3>1 DEF JustOne
    <2> QED  BY <2>1
  <1>3. UNION {DOMAIN counts[i] : i \in 1..Len(counts)} = {fam[i] : i \in 1..n}
    BY <1>1, <1>2
  <1>4. ASSUME NEW c \in {fam[i] : i \in 1..n}
        PROVE  Sum([i \in {j \in 1..Len(counts) : c \in DOMAIN counts[j]} |-> counts[i][c]])
                 = size[CHOOSE i \in 1..n : fam[i] = c]
    <2> DEFINE m == CHOOSE i \in 1..n : fam[i] = c
    <2>1. m \in 1..n /\ fam[m] = c
      OBVIOUS
    <2> HIDE DEF m
    <2>2. {j \in 1..Len(counts) : c \in DOMAIN counts[j]} = {m}
      BY <1>1, <1>2, <2>1
    <2>3. [i \in {m} |-> counts[i][c]] = [i \in {m} |-> size[m]]
      BY <1>2, <2>1
    <2>4. Sum([i \in {m} |-> size[m]]) = size[m]
      BY <2>1, SumOfOne
    <2> QED  BY <2>2, <2>3, <2>4 DEF m
  <1> QED  BY <1>3, <1>4 DEF Totals, SizeByFamily

\* The summaries of the JSON report count the findings it lists
\* (build_json_report).
THEOREM CountsAgree == MainSpec => []SummariesAgree
  <1>1. GroupedInv => SummariesAgree
    <2> SUFFICES ASSUME GroupedInv, stage = "json" PROVE SummariesAgree
      BY DEF SummariesAgree
    <2> DEFINE report == build_json_report
               counts == [i \in 1..Len(grouped) |-> Counter(grouped[i].results)]
               n == Len(grouped)
               fam == [i \in 1..n |-> grouped[i].family]
               size == [i \in 1..n |-> Len(grouped[i].results)]
               count(c) == Cardinality({f \in AllFindings : f.class = c})
    <2>1. /\ n \in Nat /\ Apart(grouped)
          /\ Holds(grouped, {f \in AllFindings : Met(f)})
          /\ scenarios \in Found /\ done = Len(scenarios)
      BY DEF GroupedInv, Holds
    <2>2. \A i \in 1..n : /\ Counter(grouped[i].results) = [x \in {fam[i]} |-> size[i]]
                         /\ size[i] \in Nat
                         /\ count(fam[i]) = size[i]
                         /\ \E f \in AllFindings : f.class = fam[i]
      BY FamilyCounts
    <2>3. counts = [i \in 1..n |-> [x \in {fam[i]} |-> size[i]]]
      BY <2>2
    <2>4. \A i, j \in 1..n : fam[i] = fam[j] => i = j
      BY <2>1 DEF Apart
    <2>5. Totals(counts) = [c \in {fam[i] : i \in 1..n} |-> size[CHOOSE i \in 1..n : fam[i] = c]]
      <3>1. /\ n \in Nat /\ Len(counts) = n
            /\ \A i \in 1..n : counts[i] = JustOne(fam[i], size[i]) /\ size[i] \in Nat
        <4>1. Len(counts) = n /\ n \in Nat /\ \A i \in 1..n : size[i] \in Nat
          BY <2>1, <2>2
        <4>2. ASSUME NEW i \in 1..n PROVE counts[i] = JustOne(fam[i], size[i])
          <5>1. Counter(grouped[i].results) = [x \in {fam[i]} |-> size[i]]
            BY <2>2
          <5>2. counts[i] = Counter(grouped[i].results)
            OBVIOUS
          <5> HIDE DEF fam, size, counts
          <5> QED  BY ONLY <5>1, <5>2 DEF JustOne
        <4> HIDE DEF fam, size, counts, n
        <4> QED  BY <4>1, <4>2
      <3> HIDE DEF fam, size, counts, n
      <3>2. Totals(counts) = SizeByFamily(n, fam, size)
        BY <2>4, <3>1, TotalsOfApart
      <3> QED  BY <3>2 DEF SizeByFamily
    <2>6. {fam[i] : i \in 1..n} = {f.class : f \in AllFindings}
      <3>1. ASSUME NEW f \in AllFindings PROVE \E i \in 1..n : fam[i] = f.class
        <4>1. Met(f)
          BY <2>1, FindingFacts DEF Met
        <4>2. PICK i \in 1..n : \E k \in 1..Len(grouped[i].results) : grouped[i].results[k] = f
          BY <2>1, <4>1 DEF Holds
        <4>3. grouped[i].family = f.class
          BY <2>1, <4>2 DEF Holds
        <4> QED  BY <4>3
      <3>2. ASSUME NEW i \in 1..n PROVE fam[i] \in {f.class : f \in AllFindings}
        BY <2>2
      <3> HIDE DEF fam, n
      <3> QED  BY <3>1, <3>2
    <2>7. ASSUME NEW c \in {fam[i] : i \in 1..n}
          PROVE  size[CHOOSE i \in 1..n : fam[i] = c] = count(c)
      <3> HIDE DEF fam, size, n, count
      <3>1. PICK i \in 1..n : fam[i] = c
        OBVIOUS
      <3>2. (CHOOSE j \in 1..n : fam[j] = c) \in 1..n
            /\ fam[CHOOSE j \in 1..n : fam[j] = c] = c
        BY <3>1
      <3> QED  BY <2>2, <3>2
    <2>8. Totals(counts) = [c \in {f.class : f \in AllFindings} |-> count(c)]
      <3> DEFINE A == {fam[i] : i \in 1..n}
                 largest(c) == size[CHOOSE i \in 1..n : fam[i] = c]
      <3>1. Totals(counts) = [c \in A |-> largest(c)] /\ A = {f.class : f \in AllFindings}
        BY <2>5, <2>6
      <3>2. \A c \in A : largest(c) = count(c)
        BY <2>7
      <3> HIDE DEF A, largest, counts, count
      <3>3. Totals(counts) = [c \in A |-> count(c)]
        BY <3>1, <3>2
      <3> QED  BY <3>1, <3>3
    <2>9. /\ report.summary = Totals(counts)
          /\ Len(report.families) = n
          /\ \A i \in 1..n : /\ report.families[i].summary = counts[i]
                             /\ report.families[i].results = grouped[i].results
      BY <2>1 DEF build_json_report
    <2> HIDE DEF report
    <2>10. ASSUME NEW i \in 1..n
           PROVE  Sum(report.families[i].summary) = Len(report.families[i].results)
      <3>1. Sum([x \in {fam[i]} |-> size[i]]) = size[i]
        <4> HIDE DEF fam, size
        <4> QED  BY <2>2, SumOfOne
      <3>2. report.families[i].summary = [x \in {fam[i]} |-> size[i]]
        BY <2>3, <2>9
      <3> QED  BY <2>9, <3>1, <3>2
    <2> QED  BY <2>8, <2>9, <2>10 DEF SummariesAgree, report
  <1> QED  BY <1>1, GroupedInit, GroupedNext, PTL DEF MainSpec

-----------------------------------------------------------------------------
(* The report: output                                                      *)

\* The lines main prints.
Line == {"prompt", "found", "family report", "notice", "payload"}

\* What has been printed and written at each stage.
OutputInv ==
    /\ typed \in {"", Target, "missing"}
    /\ json \in BOOLEAN /\ json_only \in BOOLEAN
    /\ json_out \in {NoFile, "", Destination}
    /\ stage \in {"target", "analyse", "refused", "console", "json", "payload",
                  "done", "failed"}
    /\ stdout \in Seq(Line) /\ stderr \in Seq(Line)
    /\ "payload" \in SX!ToSet(stdout) => stage = "done"
    /\ "notice" \in SX!ToSet(stdout) \cup SX!ToSet(stderr) => stage \in {"payload", "done"}
    /\ json_only /\ typed # "" =>
          /\ stage = "done" => stdout = <<"payload">>
          /\ stage # "done" => stdout = <<>>
    /\ stage \in {"target", "analyse", "refused", "console", "json"} => DOMAIN files = {}
    /\ stage \in {"json", "payload", "failed"} => json \/ json_only \/ json_out # NoFile

\* What the files hold, and where the report has gone.
FilesInv ==
    /\ DOMAIN files \subseteq {ReportPath}
    /\ json_only /\ json_out = NoFile => DOMAIN files = {}
    /\ stage \in {"payload", "done"} =>
          /\ json_out # NoFile => ReportPath \in DOMAIN files
          /\ \A f \in DOMAIN files : files[f] = <<build_json_report>>
    /\ stage = "payload" /\ ~json_only => DOMAIN files # {}
    /\ stage = "done" /\ (json \/ json_only \/ json_out # NoFile) =>
          ("payload" \in SX!ToSet(stdout) \/ DOMAIN files # {})

LEMMA ElementsAppended ==
    ASSUME NEW T, NEW s \in Seq(T), NEW x \in T
    PROVE  /\ Append(s, x) \in Seq(T)
           /\ \A y : y \in SX!ToSet(Append(s, x)) <=> y \in SX!ToSet(s) \/ y = x
  <1> DEFINE t == Append(s, x)
  <1>1. /\ t \in Seq(T) /\ Len(s) \in Nat /\ Len(t) = Len(s) + 1
        /\ t[Len(s) + 1] = x /\ \A i \in 1..Len(s) : t[i] = s[i]
    OBVIOUS
  <1> HIDE DEF t
  <1>2. \A y : y \in SX!ToSet(t) <=> \E i \in 1..Len(t) : t[i] = y
    BY <1>1, ElementsAre
  <1>3. \A y : y \in SX!ToSet(s) <=> \E i \in 1..Len(s) : s[i] = y
    BY ElementsAre
  <1>4. \A i \in 1..Len(t) : i \in 1..Len(s) \/ i = Len(s) + 1
    BY <1>1
  <1>5. \A i \in 1..Len(s) : i \in 1..Len(t)
    BY <1>1
  <1>6. Len(s) + 1 \in 1..Len(t)
    BY <1>1
  <1>7. \A y : y \in SX!ToSet(t) <=> y \in SX!ToSet(s) \/ y = x
    BY <1>1, <1>2, <1>3, <1>4, <1>5, <1>6
  <1> QED  BY <1>1, <1>7 DEF t

LEMMA ElementsJoined ==
    ASSUME NEW T, NEW s \in Seq(T), NEW t \in Seq(T)
    PROVE  /\ s \o t \in Seq(T)
           /\ \A y : y \in SX!ToSet(s \o t) <=> y \in SX!ToSet(s) \/ y \in SX!ToSet(t)
  <1> DEFINE u == s \o t
  <1>1. /\ u \in Seq(T) /\ Len(s) \in Nat /\ Len(t) \in Nat /\ Len(u) = Len(s) + Len(t)
        /\ \A i \in 1..Len(u) : u[i] = IF i <= Len(s) THEN s[i] ELSE t[i - Len(s)]
    OBVIOUS
  <1> HIDE DEF u
  <1>2. \A y : y \in SX!ToSet(u) <=> \E i \in 1..Len(u) : u[i] = y
    BY <1>1, ElementsAre
  <1>3. \A y : y \in SX!ToSet(s) <=> \E i \in 1..Len(s) : s[i] = y
    BY ElementsAre
  <1>4. \A y : y \in SX!ToSet(t) <=> \E i \in 1..Len(t) : t[i] = y
    BY ElementsAre
  <1>5. \A i \in 1..Len(s) : i \in 1..Len(u) /\ u[i] = s[i]
    BY <1>1
  <1>6. \A i \in 1..Len(t) : i + Len(s) \in 1..Len(u) /\ u[i + Len(s)] = t[i]
    BY <1>1
  <1>7. \A i \in 1..Len(u) :
           \/ i \in 1..Len(s) /\ u[i] = s[i]
           \/ i - Len(s) \in 1..Len(t) /\ u[i] = t[i - Len(s)]
    <2> TAKE i \in 1..Len(u)
    <2>1. CASE i <= Len(s)
      <3>1. i \in 1..Len(s) /\ u[i] = s[i]
        BY <1>1, <2>1
      <3> QED  BY <3>1
    <2>2. CASE ~(i <= Len(s))
      <3>1. i - Len(s) \in 1..Len(t)
        BY <1>1, <2>2
      <3> QED  BY <1>1, <2>2, <3>1
    <2> QED  BY <2>1, <2>2
  <1>8. ASSUME NEW y
        PROVE  y \in SX!ToSet(u) <=> y \in SX!ToSet(s) \/ y \in SX!ToSet(t)
    <2>1. y \in SX!ToSet(u) => y \in SX!ToSet(s) \/ y \in SX!ToSet(t)
      BY <1>2, <1>3, <1>4, <1>7
    <2>2. y \in SX!ToSet(s) => y \in SX!ToSet(u)
      BY <1>2, <1>3, <1>5
    <2>3. y \in SX!ToSet(t) => y \in SX!ToSet(u)
      BY <1>2, <1>4, <1>6
    <2> QED  BY <2>1, <2>2, <2>3
  <1> QED  BY <1>1, <1>8 DEF u

LEMMA NoElements == <<>> \in Seq(Line) /\ \A x : x \notin SX!ToSet(<<>>)
  <1>1. <<>> \in Seq(Line) /\ Len(<<>>) = 0
    OBVIOUS
  <1>2. \A x : x \in SX!ToSet(<<>>) <=> \E i \in 1..Len(<<>>) : <<>>[i] = x
    BY <1>1, ElementsAre
  <1> QED  BY <1>1, <1>2

LEMMA OutputInit == MainInit => OutputInv /\ FilesInv
  <1> SUFFICES ASSUME MainInit PROVE OutputInv /\ FilesInv
    OBVIOUS
  <1>1. stdout = <<>> /\ stderr = <<>> /\ DOMAIN files = {}
    BY DEF MainInit
  <1>2. /\ stdout \in Seq(Line) /\ stderr \in Seq(Line)
        /\ \A x : x \notin SX!ToSet(stdout) /\ x \notin SX!ToSet(stderr)
    BY <1>1, NoElements
  <1> QED  BY <1>1, <1>2 DEF MainInit, OutputInv, FilesInv

LEMMA OutputNext ==
    OutputInv /\ FilesInv /\ GroupedInv /\ [MainNext]_everything => OutputInv' /\ FilesInv'
  <1> SUFFICES ASSUME OutputInv, FilesInv, GroupedInv, [MainNext]_everything
               PROVE  OutputInv' /\ FilesInv'
    OBVIOUS
  <1>1. CASE ResolveTarget
    <2>1. /\ stage = "target" /\ stage' \in {"analyse", "refused"} /\ UNCHANGED options
          /\ UNCHANGED <<stderr, files>>
          /\ stdout' = IF typed = "" THEN <<"prompt">> ELSE <<>>
      BY <1>1 DEF ResolveTarget, GoTo
    <2>2. /\ stdout' \in Seq(Line) /\ (typed # "" => stdout' = <<>>)
          /\ "payload" \notin SX!ToSet(stdout') /\ "notice" \notin SX!ToSet(stdout')
      <3>1. CASE typed = ""
        <4> DEFINE line == <<"prompt">>
        <4>1. line \in Seq(Line) /\ Len(line) = 1 /\ line[1] = "prompt"
          BY DEF Line
        <4> HIDE DEF line
        <4>2. \A x : x \in SX!ToSet(line) <=> \E i \in 1..Len(line) : line[i] = x
          BY <4>1, ElementsAre
        <4>3. "payload" \notin SX!ToSet(line) /\ "notice" \notin SX!ToSet(line)
          BY <4>1, <4>2
        <4>4. stdout' = line
          BY <2>1, <3>1 DEF line
        <4> QED  BY <3>1, <4>1, <4>3, <4>4
      <3>2. CASE typed # ""
        <4>1. stdout' = <<>>
          BY <2>1, <3>2
        <4> QED  BY <4>1, NoElements
      <3> QED  BY <3>1, <3>2
    <2>4. OutputInv'
      BY <2>1, <2>2 DEF OutputInv, options
    <2>5. FilesInv'
      BY <2>1 DEF OutputInv, FilesInv, ReportPath, options
    <2> QED  BY <2>4, <2>5
  <1>2. CASE GroupFinding
    <2>1. stage = "analyse" /\ UNCHANGED <<options, stage, stdout, stderr, files>>
      BY <1>2 DEF GroupFinding
    <2> QED  BY <2>1 DEF OutputInv, FilesInv, ReportPath, options
  <1>3. CASE NextScenario \/ EndScenarios
    <2>1. /\ stage = "analyse" /\ stage' \in {"analyse", "console"}
          /\ UNCHANGED <<options, stdout, stderr, files>>
      BY <1>3 DEF NextScenario, EndScenarios, GoTo
    <2> QED  BY <2>1 DEF OutputInv, FilesInv, ReportPath, options
  <1>4. CASE PrintConsole
    <2> DEFINE lines == [i \in 1..Len(grouped) |-> "family report"]
    <2>1. /\ stage = "console"
          /\ stage' = IF json \/ json_only \/ json_out # NoFile THEN "json" ELSE "done"
          /\ UNCHANGED <<options, stderr, files>>
          /\ stdout' = IF json_only THEN stdout ELSE Append(stdout, "found") \o lines
      BY <1>4 DEF PrintConsole, GoTo
    <2>2. lines \in Seq(Line) /\ \A x \in SX!ToSet(lines) : x = "family report"
      <3>1. Len(grouped) \in Nat
        BY DEF GroupedInv
      <3>2. lines \in Seq(Line) /\ Len(lines) = Len(grouped)
        BY <3>1 DEF Line
      <3>3. \A x : x \in SX!ToSet(lines) <=> \E i \in 1..Len(lines) : lines[i] = x
        BY <3>2, ElementsAre
      <3>4. \A i \in 1..Len(lines) : lines[i] = "family report"
        BY <3>2
      <3> HIDE DEF lines
      <3> QED  BY <3>2, <3>3, <3>4
    <2> HIDE DEF lines
    <2>3. /\ stdout' \in Seq(Line)
          /\ "payload" \notin SX!ToSet(stdout') /\ "notice" \notin SX!ToSet(stdout')
      <3>0. /\ stdout \in Seq(Line)
            /\ "payload" \notin SX!ToSet(stdout) /\ "notice" \notin SX!ToSet(stdout)
        BY <2>1 DEF OutputInv
      <3> DEFINE first == Append(stdout, "found")
      <3>1. /\ first \in Seq(Line)
            /\ "payload" \notin SX!ToSet(first) /\ "notice" \notin SX!ToSet(first)
        <4>1. "found" \in Line /\ "found" # "payload" /\ "found" # "notice"
          BY DEF Line
        <4> QED  BY <3>0, <4>1, ElementsAppended
      <3> HIDE DEF first
      <3>2. /\ first \o lines \in Seq(Line)
            /\ "payload" \notin SX!ToSet(first \o lines)
            /\ "notice" \notin SX!ToSet(first \o lines)
        BY <3>1, <2>2, ElementsJoined
      <3> QED  BY <2>1, <3>0, <3>2 DEF first
    <2>4. OutputInv'
      BY <2>1, <2>3 DEF OutputInv, options
    <2>5. FilesInv'
      BY <2>1 DEF OutputInv, FilesInv, ReportPath, options
    <2> QED  BY <2>4, <2>5
  <1>5. CASE WriteReport
    <2> DEFINE path == ReportPath
               content == <<build_json_report>>
    <2>1. /\ stage = "json" /\ Writes /\ stage' = "payload" /\ UNCHANGED <<options, grouped>>
          /\ files' = [f \in DOMAIN files \cup {path} |-> IF f = path THEN content ELSE files[f]]
          /\ stdout' = IF json_only THEN stdout ELSE Append(stdout, "notice")
          /\ stderr' = IF json_only THEN Append(stderr, "notice") ELSE stderr
      BY <1>5 DEF WriteReport, Write, GoTo
    <2>2. /\ DOMAIN files = {} /\ stdout \in Seq(Line) /\ stderr \in Seq(Line)
          /\ "payload" \notin SX!ToSet(stdout)
      BY <2>1 DEF OutputInv
    <2>3. /\ stdout' \in Seq(Line) /\ stderr' \in Seq(Line)
          /\ "payload" \notin SX!ToSet(stdout')
      <3>1. "notice" \in Line /\ "notice" # "payload"
        BY DEF Line
      <3>2. /\ Append(stdout, "notice") \in Seq(Line) /\ Append(stderr, "notice") \in Seq(Line)
            /\ "payload" \notin SX!ToSet(Append(stdout, "notice"))
        BY <2>2, <3>1, ElementsAppended
      <3> QED  BY <2>1, <2>2, <3>2
    <2>4. DOMAIN files' = {path} /\ files'[path] = content
      <3> HIDE DEF path, content
      <3> QED  BY <2>1, <2>2
    <2>5. content = (<<build_json_report>>)'
      BY <2>1 DEF build_json_report
    <2>6. path = ReportPath /\ ReportPath' = ReportPath
      BY <2>1 DEF ReportPath, options
    <2>7. json_only => json_out # NoFile
      BY <2>1 DEF Writes
    <2> HIDE DEF path, content
    <2>8. OutputInv'
      <3>1. json_only /\ typed # "" => stdout' = <<>>
        BY <2>1 DEF OutputInv
      <3> QED  BY <2>1, <2>3, <3>1 DEF OutputInv, options
    <2>9. FilesInv'
      BY <2>1, <2>4, <2>5, <2>6, <2>7 DEF FilesInv, options
    <2> QED  BY <2>8, <2>9
  <1>6. CASE FailToWrite
    <2> DEFINE path == ReportPath
    <2>1. /\ stage = "json" /\ Writes /\ stage' = "failed"
          /\ UNCHANGED <<options, grouped, stdout, stderr>>
          /\ \/ UNCHANGED files
             \/ files' = [f \in DOMAIN files \cup {path} |-> IF f = path THEN <<>> ELSE files[f]]
      BY <1>6 DEF FailToWrite, Write, GoTo
    <2>2. DOMAIN files = {}
      BY <2>1 DEF OutputInv
    <2>3. DOMAIN files' \subseteq {path}
      <3> HIDE DEF path
      <3> QED  BY <2>1, <2>2
    <2>4. path = ReportPath /\ ReportPath' = ReportPath
      BY <2>1 DEF ReportPath, options
    <2>5. json_only => json_out # NoFile
      BY <2>1 DEF Writes
    <2> HIDE DEF path
    <2>6. OutputInv'
      BY <2>1 DEF OutputInv, options
    <2>7. FilesInv'
      BY <2>1, <2>3, <2>4, <2>5 DEF FilesInv, options
    <2> QED  BY <2>6, <2>7
  <1>7. CASE WriteNothing
    <2>1. /\ stage = "json" /\ ~Writes /\ stage' = "payload"
          /\ UNCHANGED <<options, grouped, stdout, stderr, files>>
      BY <1>7 DEF WriteNothing, GoTo
    <2>2. DOMAIN files = {} /\ json_only /\ json_out = NoFile
      BY <2>1 DEF OutputInv, Writes
    <2> QED  BY <2>1, <2>2 DEF OutputInv, FilesInv, ReportPath, options
  <1>8. CASE PrintPayload
    <2>1. /\ stage = "payload" /\ stage' = "done" /\ UNCHANGED <<options, grouped, stderr, files>>
          /\ stdout' = IF json_only THEN Append(stdout, "payload") ELSE stdout
      BY <1>8 DEF PrintPayload, GoTo
    <2>2. /\ stdout \in Seq(Line) /\ "payload" \in Line
          /\ json_only /\ typed # "" => stdout = <<>>
      BY <2>1 DEF OutputInv, Line
    <2>3. /\ stdout' \in Seq(Line)
          /\ json_only => "payload" \in SX!ToSet(stdout')
      BY <2>1, <2>2, ElementsAppended
    <2>4. json_only /\ typed # "" => stdout' = <<"payload">>
      <3>1. Append(<<>>, "payload") = <<"payload">>
        OBVIOUS
      <3> QED  BY <2>1, <2>2, <3>1
    <2>5. OutputInv'
      BY <2>1, <2>3, <2>4 DEF OutputInv, options
    <2>6. (<<build_json_report>>)' = <<build_json_report>>
      BY <2>1 DEF build_json_report
    <2>7. FilesInv'
      BY <2>1, <2>3, <2>6 DEF FilesInv, ReportPath, options
    <2> QED  BY <2>5, <2>7
  <1>9. CASE UNCHANGED everything
    BY <1>9 DEF OutputInv, FilesInv, ReportPath, everything, options, build_json_report
  <1> QED
    BY <1>1, <1>2, <1>3, <1>4, <1>5, <1>6, <1>7, <1>8, <1>9 DEF MainNext

LEMMA OutputAlways == MainSpec => [](GroupedInv /\ OutputInv /\ FilesInv)
  BY GroupedInit, GroupedNext, OutputInit, OutputNext, PTL DEF MainSpec

LEMMA OneLine ==
    /\ \A k \in 1..Len(<<"payload">>) : <<"payload">>[k] = "payload" /\ k = 1
    /\ \A k \in 1..Len(<<>>) : FALSE
  OBVIOUS

\* --json-only keeps standard output to the payload, and writes no file that
\* was not asked for (validate.main).
THEOREM OnlyThePayload == MainSpec => []PayloadAlone
  <1>1. OutputInv /\ FilesInv => PayloadAlone
    <2> SUFFICES ASSUME OutputInv, FilesInv, json_only, typed # "" PROVE PayloadAlone
      BY DEF PayloadAlone
    <2>1. /\ stage = "done" => stdout = <<"payload">>
          /\ stage # "done" => stdout = <<>>
      BY DEF OutputInv
    <2>2. ASSUME NEW i \in 1..Len(stdout) PROVE stdout[i] = "payload" /\ i = 1
      <3>1. CASE stage = "done"
        <4>1. stdout = <<"payload">>
          BY <2>1, <3>1
        <4> QED  BY ONLY <4>1, OneLine, i \in 1..Len(stdout)
      <3>2. CASE stage # "done"
        <4>1. stdout = <<>>
          BY <2>1, <3>2
        <4> QED  BY ONLY <4>1, OneLine, i \in 1..Len(stdout)
      <3> QED  BY <3>1, <3>2
    <2>3. DOMAIN files \subseteq IF json_out = NoFile THEN {} ELSE {ReportPath}
      BY DEF FilesInv
    <2> QED  BY <2>1, <2>2, <2>3 DEF PayloadAlone
  <1> QED  BY <1>1, OutputAlways, PTL

\* A run that ends well has delivered the report where it was asked for, and
\* one that fails claims nothing (validate.main).
THEOREM ReportIsDelivered == MainSpec => []DeliveredOrFailed
  <1>1. OutputInv /\ FilesInv => DeliveredOrFailed
    <2> SUFFICES ASSUME OutputInv, FilesInv PROVE DeliveredOrFailed
      OBVIOUS
    <2>1. stage = "done" =>
             /\ json \/ json_only \/ json_out # NoFile =>
                 ("payload" \in SX!ToSet(stdout) \/ DOMAIN files # {})
             /\ json_out # NoFile => ReportPath \in DOMAIN files
             /\ \A f \in DOMAIN files : files[f] = <<build_json_report>>
      BY DEF FilesInv
    <2>2. ASSUME stage = "failed"
          PROVE  "payload" \notin SX!ToSet(stdout) /\ "notice" \notin SX!ToSet(stdout \o stderr)
      <3>1. /\ stdout \in Seq(Line) /\ stderr \in Seq(Line)
            /\ "payload" \notin SX!ToSet(stdout)
            /\ "notice" \notin SX!ToSet(stdout) /\ "notice" \notin SX!ToSet(stderr)
        BY <2>2 DEF OutputInv
      <3> QED  BY <3>1, ElementsJoined
    <2> QED  BY <2>1, <2>2 DEF DeliveredOrFailed
  <1> QED  BY <1>1, OutputAlways, PTL
=============================================================================
