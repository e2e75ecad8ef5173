--------------------------- MODULE Loading_proofs ---------------------------
(***************************************************************************)
(* Proofs about what the invalidator reads, for every file system, every   *)
(* command line and all passwords.                                         *)
(***************************************************************************)
EXTENDS Loading, SequenceTheorems, WellFoundedInduction, TLAPS

-----------------------------------------------------------------------------
(* A path's password is asked for once                                     *)
(*                                                                         *)
(* OneQuestionPerPath is not inductive: that nobody is asked again depends *)
(* on what the answer left behind.  It either opened the container, and is *)
(* then among the settings, or it ended the run.                           *)

ByReader(a) == a.who = "getpass"

Answered == \A a \in asked : ByReader(a) => phase = "refused" \/ a.path \in DOMAIN settings

Inv == OneQuestionPerPath /\ Answered

\* Settings are never forgotten.
LEMMA KeepKeeps ==
    ASSUME NEW setting, Keep(setting)
    PROVE  DOMAIN settings' = DOMAIN settings \cup {path}
  BY DEF Keep

LEMMA SettleSettles ==
    ASSUME NEW tried, Settle(tried)
    PROVE  /\ phase' = "refused" \/ path \in DOMAIN settings'
           /\ phase' = "refused" \/ DOMAIN settings \subseteq DOMAIN settings'
  <1>1. CASE tried = {}
    BY <1>1 DEF Settle, GoTo
  <1>2. CASE tried # {}
    <2>1. PICK setting \in tried : Keep(setting)
      BY <1>2 DEF Settle
    <2> QED  BY <2>1, KeepKeeps
  <1> QED  BY <1>1, <1>2

\* A step that asks nobody keeps the invariant if it forgets no settings.
LEMMA QuietStep ==
    ASSUME Inv, phase # "refused",
           \A a \in asked' : ByReader(a) => a \in asked,
           phase' = "refused" \/ DOMAIN settings \subseteq DOMAIN settings'
    PROVE  Inv'
  BY DEF Inv, OneQuestionPerPath, Answered, ByReader

LEMMA InitInv == Init => Inv
  BY DEF Init, Inv, OneQuestionPerPath, Answered

LEMMA NextInv == Inv /\ [Next]_vars => Inv'
  <1> SUFFICES ASSUME Inv, [Next]_vars
               PROVE  Inv'
    OBVIOUS
  <1>1. CASE Take
    BY <1>1, QuietStep DEF Take
  <1>2. CASE CannotRead
    BY <1>2, QuietStep DEF CannotRead
  <1>3. CASE ReadText
    BY <1>3, QuietStep DEF ReadText, TakenFor
  <1>4. CASE Sniff
    BY <1>4, QuietStep DEF Sniff
  <1>5. CASE Recall
    BY <1>5, QuietStep DEF Recall
  <1>6. CASE OpenUnasked
    <2>1. phase = "settings" /\ UNCHANGED asked
      BY <1>6 DEF OpenUnasked
    <2>2. PICK tried : Settle(tried)
      BY <1>6 DEF OpenUnasked
    <2> QED  BY <2>1, <2>2, SettleSettles, QuietStep
  <1>7. CASE AskPassword
    <2>1. phase = "settings" /\ path \notin DOMAIN settings /\ Note("getpass")
      BY <1>7 DEF AskPassword
    <2>2. PICK answer \in Password : Settle(Try(answer))
      BY <1>7 DEF AskPassword
    <2>3. /\ phase' = "refused" \/ path \in DOMAIN settings'
          /\ phase' = "refused" \/ DOMAIN settings \subseteq DOMAIN settings'
      BY <2>2, SettleSettles
    <2> DEFINE question == [who |-> "getpass", path |-> path, reading |-> reading]
    <2>4. asked' = asked \cup {question} /\ question.path = path
      BY <2>1 DEF Note
    <2>5. \A a \in asked : ByReader(a) => a.path # path
      BY <2>1 DEF Inv, Answered
    <2> HIDE DEF question
    <2>6. Answered'
      BY <2>1, <2>3, <2>4 DEF Inv, Answered, ByReader
    <2>7. OneQuestionPerPath'
      BY <2>4, <2>5 DEF Inv, OneQuestionPerPath, ByReader
    <2> QED  BY <2>6, <2>7 DEF Inv
  <1>8. CASE Extract
    BY <1>8, QuietStep DEF Extract, TakenFor
  <1>9. CASE ReadSingle
    BY <1>9, QuietStep DEF ReadSingle, TakenFor
  <1>10. CASE PassOver
    BY <1>10, QuietStep DEF PassOver
  <1>11. CASE AskAtTerminal
    <2>1. phase # "refused" /\ UNCHANGED settings
      BY <1>11 DEF AskAtTerminal
    <2>2. PICK who \in {"x509", "pkey"} : Note(who)
      BY <1>11 DEF AskAtTerminal
    <2>3. \A a \in asked' : ByReader(a) => a \in asked
      BY <2>2 DEF Note, ByReader
    <2> QED  BY <2>1, <2>3, QuietStep
  <1>12. CASE EndReading
    BY <1>12, QuietStep DEF EndReading
  <1>13. CASE UNCHANGED vars
    BY <1>13 DEF vars, Inv, OneQuestionPerPath, Answered, ByReader
  <1> QED
    BY <1>1, <1>2, <1>3, <1>4, <1>5, <1>6, <1>7, <1>8, <1>9, <1>10, <1>11, <1>12, <1>13
    DEF Next

\* Whatever the command is given, the reader asks for the password of one path
\* at most once, in all its readings together.
THEOREM AskedOnce == Spec => []OneQuestionPerPath
  <1>1. Inv => OneQuestionPerPath
    BY DEF Inv
  <1> QED  BY InitInv, NextInv, <1>1, PTL DEF Spec

-----------------------------------------------------------------------------
(* What each reading reads                                                 *)
(*                                                                         *)
(* Neither EverythingRead nor OwnMaterialReached is inductive: both speak  *)
(* of the end.  The invariant is an account of all three readings at any   *)
(* moment: what is still to come has given nothing yet, what is behind has *)
(* given what it is.  It needs to know what the way to each phase says of  *)
(* the file at hand.                                                       *)

Due(n) == IF n = 3 THEN UNION {gather_files(<<p>>) : p \in sibling}
                   ELSE gather_files(inputs)

AtHand == phase \in {"open", "settings", "extract", "der", "pkey"}

Placed ==
    /\ inputs \in Given /\ pinned \subseteq Pinnable
    /\ reading \in 1..3
    /\ todo \subseteq Due(reading)
    /\ AtHand => path \in Due(reading) \ todo
    /\ phase \in {"settings", "extract", "der", "pkey"} => ~Is("unreadable") /\ ~Is("text")
    /\ phase \in {"der", "pkey"} => ~looks_like_pkcs12
    /\ phase = "done" => reading = 3 /\ todo = {}
    /\ \A r \in read : r.path \in Due(r.reading)
    /\ reading > 1 => \E r \in read : r.reading = 1

\* What p has given in the n-th reading, and what it should give.
Material(n, p) == {r.as : r \in {m \in read : m.path = p /\ m.reading = n}}

Expected(p) == {Format[p.at]} \ {"unreadable", "other"}

ToCome(n, p) == n > reading \/ (n = reading /\ (p \in todo \/ (AtHand /\ p = path)))

ReadSoFar ==
    phase # "refused" =>
        \A n \in 1..3 : \A p \in Due(n) :
            ~Hidden(p.at) => Material(n, p) = IF ToCome(n, p) THEN {} ELSE Expected(p)

LInv == Placed /\ ReadSoFar

\* With a password supplied, only containers without a mark are asked about.
QuietInv == supplied # NotGiven => \A a \in asked : Hidden(a.path.at)

LEMMA DueStays ==
    ASSUME UNCHANGED setup, NEW n
    PROVE  Due(n)' = Due(n)
  <1>1. pinned' = pinned /\ inputs' = inputs
    BY DEF setup
  <1>2. resolve_pin_path' = resolve_pin_path
    BY <1>1 DEF resolve_pin_path, FirstSaid, Exists, IsPinFile
  <1>3. resolve_base_dir' = resolve_base_dir
    BY <1>1, <1>2 DEF resolve_base_dir, FirstSaid, Exists, IsPinFile
  <1>4. sibling' = sibling
    BY <1>3 DEF sibling
  <1> QED  BY <1>1, <1>4 DEF Due

LEMMA DueAreFiles ==
    ASSUME NEW n, NEW p \in Due(n)
    PROVE  p.at \in Files
  <1>1. PICK paths : p \in gather_files(paths)
    BY DEF Due
  <1>2. p \in [at : Files, way : {paths[i].way : i \in 1..Len(paths)}]
    BY <1>1 DEF gather_files
  <1> QED  BY <1>2

\* One more thing read leaves what other paths, or other readings, have given.
LEMMA MoreMaterial ==
    ASSUME NEW as, Remember(path, as), NEW n, NEW p
    PROVE  Material(n, p)' = IF n = reading /\ p = path THEN Material(n, p) \cup {as}
                                                      ELSE Material(n, p)
  <1> DEFINE new == [reading |-> reading, path |-> path, as |-> as]
  <1>1. read' = read \cup {new}
    BY DEF Remember
  <1>2. new.reading = reading /\ new.path = path /\ new.as = as
    OBVIOUS
  <1> HIDE DEF new
  <1>3. Material(n, p)' = {r.as : r \in {m \in read \cup {new} : m.path = p /\ m.reading = n}}
    BY <1>1 DEF Material
  <1>4. CASE n = reading /\ p = path
    BY <1>2, <1>3, <1>4 DEF Material
  <1>5. CASE ~(n = reading /\ p = path)
    BY <1>2, <1>3, <1>5 DEF Material
  <1> QED  BY <1>4, <1>5

\* The file at hand goes on to another step.
LEMMA GoesOn ==
    ASSUME LInv, AtHand, NEW next, GoTo(next), UNCHANGED read,
           next \in {"settings", "extract", "der", "pkey"},
           ~Is("unreadable"), ~Is("text"),
           next \in {"der", "pkey"} => ~looks_like_pkcs12
    PROVE  LInv'
  <1>1. phase' = next /\ UNCHANGED setup /\ reading' = reading /\ todo' = todo /\ path' = path
        /\ inputs' = inputs /\ pinned' = pinned
    BY DEF GoTo, setup
  <1>2. \A n : Due(n)' = Due(n)
    BY <1>1, DueStays
  <1>3. AtHand'
    BY <1>1 DEF AtHand
  <1>4. Placed'
    <2>1. ~Is("unreadable")' /\ ~Is("text")' /\ (next \in {"der", "pkey"} => ~looks_like_pkcs12')
      BY <1>1 DEF Is, looks_like_pkcs12, Opens
    <2> QED  BY <1>1, <1>2, <2>1 DEF LInv, Placed
  <1>5. ReadSoFar'
    <2>1. phase # "refused"
      BY DEF AtHand
    <2>2. \A n, p : Material(n, p)' = Material(n, p) /\ (ToCome(n, p)' <=> ToCome(n, p))
      BY <1>1, <1>3 DEF Material, ToCome
    <2> QED  BY <1>2, <2>1, <2>2 DEF LInv, ReadSoFar
  <1> QED  BY <1>4, <1>5 DEF LInv

\* The file at hand is done with, and has given what it is.
LEMMA IsDone ==
    ASSUME LInv, AtHand, GoTo("next"),
           \/ UNCHANGED read /\ (~Hidden(path.at) => Expected(path) = {})
           \/ \E as : Remember(path, as) /\ (~Hidden(path.at) => Expected(path) = {as})
    PROVE  LInv'
  <1>1. phase' = "next" /\ UNCHANGED setup /\ reading' = reading /\ todo' = todo /\ path' = path
        /\ inputs' = inputs /\ pinned' = pinned
    BY DEF GoTo, setup
  <1>2. \A n : Due(n)' = Due(n)
    BY <1>1, DueStays
  <1>3. ~AtHand' /\ phase # "refused" /\ path \in Due(reading) \ todo /\ reading \in 1..3
    BY <1>1 DEF AtHand, LInv, Placed
  <1>4. read \subseteq read' /\ \A r \in read' : r.path \in Due(r.reading)
    <2>1. CASE UNCHANGED read
      BY <2>1 DEF LInv, Placed
    <2>2. ASSUME NEW as, Remember(path, as)
          PROVE  read \subseteq read' /\ \A r \in read' : r.path \in Due(r.reading)
      <3> DEFINE new == [reading |-> reading, path |-> path, as |-> as]
      <3>1. read' = read \cup {new}
        BY <2>2 DEF Remember
      <3>2. new.path = path /\ new.reading = reading
        OBVIOUS
      <3> HIDE DEF new
      <3> QED  BY <1>3, <3>1, <3>2 DEF LInv, Placed
    <2> QED  BY <2>1, <2>2
  <1>5. Placed'
    BY <1>1, <1>2, <1>3, <1>4 DEF LInv, Placed
  <1>6. ASSUME NEW n \in 1..3, NEW p \in Due(n), ~Hidden(p.at)
        PROVE  Material(n, p)' = IF ToCome(n, p)' THEN {} ELSE Expected(p)
    <2>1. Material(n, p) = IF ToCome(n, p) THEN {} ELSE Expected(p)
      BY <1>3, <1>6 DEF LInv, ReadSoFar
    <2>2. CASE n = reading /\ p = path
      <3>1. ~ToCome(n, p)' /\ ToCome(n, p)
        BY <1>1, <1>3, <2>2 DEF ToCome
      <3>2. Material(n, p)' = Expected(p)
        <4>1. CASE UNCHANGED read /\ (~Hidden(path.at) => Expected(path) = {})
          <5>1. Material(n, p)' = Material(n, p)
            BY <4>1 DEF Material
          <5> QED  BY <1>6, <2>1, <2>2, <3>1, <4>1, <5>1
        <4>2. ASSUME NEW as, Remember(path, as), ~Hidden(path.at) => Expected(path) = {as}
              PROVE  Material(n, p)' = Expected(p)
          BY <1>6, <2>1, <2>2, <3>1, <4>2, MoreMaterial
        <4> QED  BY <4>1, <4>2
      <3> QED  BY <3>1, <3>2
    <2>3. CASE ~(n = reading /\ p = path)
      <3>1. ToCome(n, p)' <=> ToCome(n, p)
        <4>1. ToCome(n, p)' <=> n > reading \/ (n = reading /\ p \in todo)
          BY <1>1, <1>3 DEF ToCome
        <4>2. ToCome(n, p) <=> n > reading \/ (n = reading /\ p \in todo)
          BY <1>3, <2>3 DEF ToCome
        <4> QED  BY <4>1, <4>2
      <3>2. Material(n, p)' = Material(n, p)
        <4>1. CASE UNCHANGED read
          BY <4>1 DEF Material
        <4>2. ASSUME NEW as, Remember(path, as)
              PROVE  Material(n, p)' = Material(n, p)
          BY <2>3, <4>2, MoreMaterial
        <4> QED  BY <4>1, <4>2
      <3> QED  BY <2>1, <3>1, <3>2
    <2> QED  BY <2>2, <2>3
  <1> QED  BY <1>2, <1>5, <1>6 DEF LInv, ReadSoFar

\* The run is refused.
LEMMA IsRefused ==
    ASSUME LInv, phase' = "refused", UNCHANGED <<setup, reading, todo, path, read>>
    PROVE  LInv'
  <1>1. \A n : Due(n)' = Due(n)
    BY DueStays
  <1>2. ~AtHand'
    BY DEF AtHand
  <1> QED  BY <1>1, <1>2 DEF LInv, Placed, ReadSoFar, setup

LEMMA InitRead == Init => LInv /\ QuietInv
  <1> SUFFICES ASSUME Init PROVE LInv /\ QuietInv
    OBVIOUS
  <1>1. ~AtHand /\ Due(1) = todo /\ reading = 1
    BY DEF Init, AtHand, Due
  <1>2. Placed
    BY <1>1 DEF Init, Placed
  <1>3. \A n, p : Material(n, p) = {}
    BY DEF Init, Material
  <1>4. ASSUME NEW n \in 1..3, NEW p \in Due(n)
        PROVE  ToCome(n, p)
    <2>1. CASE n = 1
      BY <1>1, <2>1 DEF ToCome
    <2>2. CASE n # 1
      <3>1. n > 1
        BY <2>2
      <3> QED  BY <1>1, <3>1 DEF ToCome
    <2> QED  BY <2>1, <2>2
  <1> QED  BY <1>2, <1>3, <1>4 DEF LInv, ReadSoFar, QuietInv, Init

LEMMA NextRead == LInv /\ QuietInv /\ [Next]_vars => LInv' /\ QuietInv'
  <1> SUFFICES ASSUME LInv, QuietInv, [Next]_vars PROVE LInv' /\ QuietInv'
    OBVIOUS
  <1>a. ASSUME UNCHANGED <<setup, asked>> PROVE QuietInv'
    BY <1>a DEF QuietInv, setup
  <1>f. AtHand => path.at \in Files
    BY DueAreFiles DEF LInv, Placed
  <1>1. CASE Take
    <2>1. PICK p \in todo : path' = p /\ todo' = todo \ {p}
      BY <1>1 DEF Take
    <2>2. /\ phase = "next" /\ phase' = "open"
          /\ UNCHANGED <<setup, reading, settings, asked, read>> /\ reading' = reading
          /\ inputs' = inputs /\ pinned' = pinned /\ read' = read
      BY <1>1 DEF Take, setup
    <2>3. \A n : Due(n)' = Due(n)
      BY <2>2, DueStays
    <2>4. AtHand' /\ ~AtHand
      BY <2>2 DEF AtHand
    <2>5. Placed'
      BY <2>1, <2>2, <2>3, <2>4 DEF LInv, Placed
    <2>6. ReadSoFar'
      <3>1. ASSUME NEW n, NEW q
            PROVE  Material(n, q)' = Material(n, q) /\ (ToCome(n, q)' <=> ToCome(n, q))
        <4>1. Material(n, q)' = Material(n, q)
          BY <2>2 DEF Material
        <4>2. ToCome(n, q)' <=> n > reading \/ (n = reading /\ (q \in todo' \/ q = p))
          BY <2>1, <2>2, <2>4 DEF ToCome
        <4>3. ToCome(n, q) <=> n > reading \/ (n = reading /\ q \in todo)
          BY <2>4 DEF ToCome
        <4> QED  BY <2>1, <4>1, <4>2, <4>3
      <3> QED  BY <2>2, <2>3, <3>1 DEF LInv, ReadSoFar
    <2> QED  BY <1>a, <2>2, <2>5, <2>6 DEF LInv
  <1>2. CASE CannotRead
    <2>1. AtHand /\ GoTo("next") /\ UNCHANGED read /\ Expected(path) = {}
      BY <1>2 DEF CannotRead, AtHand, Is, Expected
    <2> QED  BY <1>2, <1>a, <2>1, IsDone DEF CannotRead, GoTo
  <1>3. CASE ReadText
    <2>1. AtHand /\ GoTo("next") /\ Remember(path, "text") /\ Expected(path) = {"text"}
      BY <1>3 DEF ReadText, TakenFor, AtHand, Is, Expected
    <2> QED  BY <1>3, <1>a, <2>1, IsDone DEF ReadText, TakenFor, GoTo
  <1>4. CASE Sniff
    <2>1. AtHand /\ ~Is("unreadable") /\ ~Is("text") /\ UNCHANGED <<asked, read>>
          /\ GoTo(IF looks_like_pkcs12 THEN "settings" ELSE "der")
      BY <1>4 DEF Sniff, AtHand
    <2>2. UNCHANGED setup
      BY <2>1 DEF GoTo
    <2>3. CASE looks_like_pkcs12
      BY <1>a, <2>1, <2>2, <2>3, GoesOn
    <2>4. CASE ~looks_like_pkcs12
      BY <1>a, <2>1, <2>2, <2>4, GoesOn
    <2> QED  BY <2>3, <2>4
  <1>5. CASE Recall
    <2>1. AtHand /\ phase = "settings" /\ GoTo("extract") /\ UNCHANGED <<asked, read>>
      BY <1>5 DEF Recall, AtHand
    <2>2. ~Is("unreadable") /\ ~Is("text")
      BY <2>1 DEF LInv, Placed
    <2> QED  BY <1>a, <2>1, <2>2, GoesOn DEF GoTo
  <1>s. ASSUME NEW tried, phase = "settings", Settle(tried)
        PROVE  LInv' /\ UNCHANGED setup
    <2>1. CASE tried = {}
      BY <1>s, <2>1, IsRefused DEF Settle, GoTo
    <2>2. CASE tried # {}
      <3>1. AtHand /\ ~Is("unreadable") /\ ~Is("text") /\ GoTo("extract") /\ UNCHANGED read
        BY <1>s, <2>2 DEF Settle, AtHand, LInv, Placed
      <3> QED  BY <3>1, GoesOn DEF GoTo
    <2> QED  BY <2>1, <2>2
  <1>6. CASE OpenUnasked
    <2>1. phase = "settings" /\ UNCHANGED asked
      BY <1>6 DEF OpenUnasked
    <2>2. PICK tried : Settle(tried)
      BY <1>6 DEF OpenUnasked
    <2> QED  BY <1>a, <1>s, <2>1, <2>2
  <1>7. CASE AskPassword
    <2>1. phase = "settings" /\ supplied = NotGiven
      BY <1>7 DEF AskPassword
    <2>2. PICK answer \in Password : Settle(Try(answer))
      BY <1>7 DEF AskPassword
    <2>3. LInv' /\ UNCHANGED setup
      BY <1>s, <2>1, <2>2
    <2> QED  BY <2>1, <2>3 DEF QuietInv, setup
  <1>8. CASE Extract
    <2>1. /\ AtHand /\ GoTo("next") /\ Remember(path, "pkcs12") /\ UNCHANGED asked
          /\ Format[path.at] = "pkcs12"
      BY <1>8 DEF Extract, TakenFor, AtHand, Opens
    <2>2. Expected(path) = {"pkcs12"}
      BY <2>1 DEF Expected
    <2> QED  BY <1>a, <2>1, <2>2, IsDone DEF GoTo
  <1>9. CASE ReadSingle
    <2>1. AtHand /\ phase = "der" /\ ~Is("unreadable") /\ UNCHANGED asked /\ GoTo("next")
      BY <1>9 DEF ReadSingle, TakenFor, AtHand, LInv, Placed
    <2>2. CASE Is("other")
      <3>1. UNCHANGED read /\ Expected(path) = {}
        BY <1>9, <2>2 DEF ReadSingle, Is, Expected
      <3> QED  BY <1>a, <2>1, <3>1, IsDone DEF GoTo
    <2>3. CASE ~Is("other")
      <3>1. Remember(path, Format[path.at]) /\ Expected(path) = {Format[path.at]}
        BY <1>9, <2>1, <2>3 DEF ReadSingle, TakenFor, Is, Expected
      <3> QED  BY <1>a, <2>1, <3>1, IsDone DEF GoTo
    <2> QED  BY <2>2, <2>3
  <1>10. CASE PassOver
    <2>1. AtHand /\ phase = "der" /\ UNCHANGED asked /\ GoTo("next")
          /\ Is("pkcs12") /\ Passphrase[path.at] = Empty
      BY <1>10 DEF PassOver, AtHand
    <2>2. Hidden(path.at)
      BY <2>1 DEF LInv, Placed, looks_like_pkcs12, Opens, Is, Hidden
    <2>3. UNCHANGED read \/ Remember(path, "cert")
      BY <1>10 DEF PassOver
    <2> QED  BY <1>a, <2>1, <2>2, <2>3, IsDone DEF GoTo
  <1>11. CASE AskAtTerminal
    <2>1. AtHand /\ phase \in {"der", "pkey"} /\ Is("pkcs12") /\ Passphrase[path.at] # Empty
      BY <1>11 DEF AskAtTerminal, AtHand
    <2>2. Hidden(path.at) /\ ~looks_like_pkcs12 /\ ~Is("unreadable") /\ ~Is("text")
      BY <2>1 DEF LInv, Placed, looks_like_pkcs12, Is, Hidden
    <2>3. \/ GoTo("next") /\ (UNCHANGED read \/ \E as : Remember(path, as))
          \/ GoTo("pkey") /\ UNCHANGED read
      BY <1>11 DEF AskAtTerminal
    <2>4. LInv' /\ UNCHANGED setup
      <3>1. CASE GoTo("next") /\ (UNCHANGED read \/ \E as : Remember(path, as))
        BY <2>1, <2>2, <3>1, IsDone DEF GoTo
      <3>2. CASE GoTo("pkey") /\ UNCHANGED read
        BY <2>1, <2>2, <3>2, GoesOn DEF GoTo
      <3> QED  BY <2>3, <3>1, <3>2
    <2>5. QuietInv'
      <3>1. PICK who : Note(who)
        BY <1>11 DEF AskAtTerminal
      <3>2. \A a \in asked' : a \in asked \/ a.path = path
        BY <3>1 DEF Note
      <3> QED  BY <2>2, <2>4, <3>2 DEF QuietInv, setup
    <2> QED  BY <2>4, <2>5
  <1>12. CASE EndReading
    <2>1. phase = "next" /\ todo = {} /\ UNCHANGED <<setup, path, settings, asked, read>>
          /\ inputs' = inputs /\ pinned' = pinned /\ read' = read
      BY <1>12 DEF EndReading, setup
    <2>2. QuietInv'
      BY <1>a, <2>1
    <2>3. \A n : Due(n)' = Due(n)
      BY <2>1, DueStays
    <2>4. ~AtHand /\ reading \in 1..3
      BY <2>1 DEF AtHand, LInv, Placed
    <2>5. \A n, p : Material(n, p)' = Material(n, p)
      BY <2>1 DEF Material
    <2>6. CASE phase' = "refused" /\ UNCHANGED <<reading, todo>>
      BY <2>1, <2>2, <2>6, IsRefused
    <2>7. CASE reading = 3 /\ phase' = "done" /\ UNCHANGED <<reading, todo>>
      <3>1. ~AtHand'
        BY <2>7 DEF AtHand
      <3>2. Placed'
        BY <2>1, <2>3, <2>7, <3>1 DEF LInv, Placed
      <3>3. ASSUME NEW n, NEW p
            PROVE  ToCome(n, p)' <=> ToCome(n, p)
        <4>1. reading' = reading /\ todo' = todo
          BY <2>7
        <4> QED  BY <2>4, <3>1, <4>1 DEF ToCome
      <3> QED  BY <2>1, <2>2, <2>3, <2>5, <3>2, <3>3 DEF LInv, ReadSoFar
    <2>8. CASE /\ reading # 3 /\ ~(reading = 1 /\ certs = {}) /\ phase' = phase
               /\ reading' = reading + 1
               /\ todo' = IF reading = 1 THEN gather_files(inputs)
                          ELSE UNION {gather_files(<<p>>) : p \in sibling}
      <3>1. ~AtHand' /\ todo' = Due(reading') /\ reading' \in 1..3
        BY <2>1, <2>4, <2>8 DEF AtHand, Due
      <3>2. \E r \in read : r.reading = 1
        <4>1. CASE reading = 1
          BY <2>8, <4>1 DEF certs
        <4>2. CASE reading # 1
          BY <2>4, <4>2 DEF LInv, Placed
        <4> QED  BY <4>1, <4>2
      <3>3. Placed'
        <4>1. (todo \subseteq Due(reading))'
          BY <2>3, <3>1
        <4> QED  BY <2>1, <2>3, <2>8, <3>1, <3>2, <4>1 DEF LInv, Placed
      <3>4. \A n \in 1..3 : \A p \in Due(n) : ToCome(n, p)' <=> ToCome(n, p)
        <4> TAKE n \in 1..3
        <4> TAKE p \in Due(n)
        <4>1. ToCome(n, p) <=> n > reading
          BY <2>1, <2>4, Zenon DEF ToCome
        <4>2. ToCome(n, p)' <=> n > reading' \/ (n = reading' /\ p \in Due(reading'))
          BY <3>1, Zenon DEF ToCome
        <4>3. n = reading' => p \in Due(reading')
          OBVIOUS
        <4>4. n > reading <=> n > reading' \/ n = reading'
          BY <2>4, <2>8
        <4> QED  BY <4>1, <4>2, <4>3, <4>4, Zenon
      <3> QED  BY <2>1, <2>2, <2>3, <2>5, <3>3, <3>4 DEF LInv, ReadSoFar
    <2> QED  BY <1>12, <2>6, <2>7, <2>8 DEF EndReading
  <1>13. CASE UNCHANGED vars
    <2>1. UNCHANGED <<setup, asked>> /\ inputs' = inputs /\ pinned' = pinned
          /\ reading' = reading /\ todo' = todo /\ path' = path /\ phase' = phase /\ read' = read
      BY <1>13 DEF vars, setup
    <2>2. \A n : Due(n)' = Due(n)
      BY <2>1, DueStays
    <2>3. AtHand' <=> AtHand
      BY <2>1 DEF AtHand
    <2>4. Placed'
      BY <2>1, <2>2, <2>3 DEF LInv, Placed, Is, looks_like_pkcs12, Opens
    <2>5. ReadSoFar'
      BY <2>1, <2>2, <2>3 DEF LInv, ReadSoFar, Material, ToCome
    <2> QED  BY <1>a, <2>1, <2>4, <2>5 DEF LInv
  <1> QED
    BY <1>1, <1>2, <1>3, <1>4, <1>5, <1>6, <1>7, <1>8, <1>9, <1>10, <1>11, <1>12, <1>13
    DEF Next

LEMMA Reading == Spec => [](LInv /\ QuietInv)
  BY InitRead, NextRead, PTL DEF Spec

\* A run that goes on has taken every file it was given for what it is, both
\* for its certificates and for its keys, except for containers nothing on
\* the outside reveals.
THEOREM InputsAreRead == Spec => []EverythingRead
  <1>1. LInv => EverythingRead
    <2> SUFFICES ASSUME LInv, phase = "done", NEW p \in gather_files(inputs),
                        NEW n \in 1..2, ~Hidden(p.at)
                 PROVE  Material(n, p) = Expected(p)
      BY DEF EverythingRead, Material, Expected
    <2>1. n \in 1..3 /\ p \in Due(n)
      BY DEF Due
    <2>2. ~ToCome(n, p)
      BY DEF LInv, Placed, ToCome
    <2> QED  BY <2>1, <2>2 DEF LInv, ReadSoFar
  <1> QED  BY <1>1, Reading, PTL

\* With a password supplied, only a container that hides what it is makes
\* openssl ask at the terminal.
THEOREM QuestionsAreHidden == Spec => []AsksOnlyForHidden
  <1>1. QuietInv => AsksOnlyForHidden
    BY DEF QuietInv, AsksOnlyForHidden
  <1> QED  BY <1>1, Reading, PTL

-----------------------------------------------------------------------------
(* A chain's own pin and keys                                              *)

LEMMA PlaceIsSeq ==
    ASSUME NEW d \in Dirs \cup Files
    PROVE  d \in Seq(STRING) /\ Len(d) \in Nat /\ \A i \in 1..Len(d) : d[i] \in STRING
  BY LoadingAssumption, LenProperties, ElementOfSeq

LEMMA DirnameIsPrefix ==
    ASSUME NEW d \in Seq(STRING), d # <<>>
    PROVE  /\ dirname(d) \in Seq(STRING)
           /\ Len(dirname(d)) = Len(d) - 1
           /\ \A i \in 1..Len(d)-1 : dirname(d)[i] = d[i]
  <1> DEFINE n == Len(d)
             e == SubSeq(d, 1, n - 1)
  <1>1. n \in Nat \ {0} /\ \A i \in 1..n-1 : d[i] \in STRING
    BY LenProperties, ElementOfSeq, EmptySeq
  <1>2. dirname(d) = e
    BY DEF dirname
  <1>3. /\ e \in Seq(STRING)
        /\ Len(e) = IF 1 <= n-1 THEN n-1-1+1 ELSE 0
        /\ \A i \in 1..n-1-1+1 : e[i] = d[1+i-1]
    BY <1>1, SubSeqProperties
  <1> HIDE DEF e, n
  <1>4. \A m \in Nat \ {0} : /\ (IF 1 <= m-1 THEN m-1-1+1 ELSE 0) = m - 1
                             /\ \A i \in 1..m-1 : i \in 1..m-1-1+1 /\ 1+i-1 = i
    OBVIOUS
  <1>5. Len(e) = n - 1
    BY <1>1, <1>3, <1>4
  <1>6. \A i \in 1..n-1 : e[i] = d[i]
    BY <1>1, <1>3, <1>4
  <1> QED  BY <1>2, <1>3, <1>5, <1>6 DEF n

\* Of two places on the way to a third, one lies within the other.
LEMMA OneWay ==
    ASSUME NEW a \in Seq(STRING), NEW b \in Seq(STRING), NEW c \in Seq(STRING),
           Within(a, c), Within(b, c)
    PROVE  /\ Len(a) <= Len(b) => Within(a, b)
           /\ Len(a) = Len(b) => a = b
           /\ Len(a) \in Nat /\ Len(b) \in Nat
  <1>1. Len(a) \in Nat /\ Len(b) \in Nat /\ Len(c) \in Nat
    BY LenProperties
  <1>2. Len(a) <= Len(b) => \A i \in 1..Len(a) : a[i] = b[i]
    BY <1>1 DEF Within
  <1> QED  BY <1>1, <1>2, SeqEqual DEF Within

\* What lies strictly below top has a parent that is still within top.
LEMMA ParentStaysWithin ==
    ASSUME NEW top \in Seq(STRING), NEW d \in Seq(STRING), Within(top, d), d # top
    PROVE  Within(top, dirname(d))
  <1>1. Len(top) \in Nat /\ Len(d) \in Nat
    BY LenProperties
  <1>2. Len(top) < Len(d)
    <2>1. Len(top) = Len(d) => top = d
      BY SeqEqual DEF Within
    <2> QED  BY <1>1, <2>1 DEF Within
  <1>3. d # <<>>
    BY <1>1, <1>2, EmptySeq
  <1>4. Len(dirname(d)) = Len(d) - 1 /\ \A i \in 1..Len(d)-1 : dirname(d)[i] = d[i]
    BY <1>3, DirnameIsPrefix
  <1> QED  BY <1>1, <1>2, <1>4 DEF Within

\* The pin of a chain everything given lies in, if no part of it has its own.
OwnPin(top) ==
    /\ top \in pinned
    /\ \A i \in 1..Len(inputs) : Within(top, inputs[i].at)
    /\ \A d \in pinned : Within(top, d) => d = top

LEMMA InputFacts ==
    ASSUME LInv, NEW i \in 1..Len(inputs)
    PROVE  inputs[i].at \in Seq(STRING) /\ inputs[i].way \in {"typed", "absolute"}
  <1>1. inputs \in Seq([at : Seq(STRING), way : {"typed", "absolute"}])
    BY LoadingAssumption DEF LInv, Placed
  <1>2. inputs[i] \in [at : Seq(STRING), way : {"typed", "absolute"}]
    BY <1>1, ElementOfSeq
  <1> QED  BY <1>2

\* Whatever is given, its directory lies in the chain.
LEMMA TopIsWithin ==
    ASSUME LInv, NEW top, OwnPin(top), NEW i \in 1..Len(inputs), Exists(inputs[i])
    PROVE  /\ Top(inputs[i]) \in Seq(STRING) /\ Within(top, Top(inputs[i]))
           /\ IsPinFile(inputs[i]) => Top(inputs[i]) = top
  <1> DEFINE p == inputs[i]
  <1>1. p.at \in Seq(STRING) /\ Within(top, p.at)
    BY InputFacts DEF OwnPin
  <1>2. pinned \subseteq Pinnable /\ top \in Dirs /\ top \in Seq(STRING)
    BY LoadingAssumption DEF OwnPin, LInv, Placed
  <1> HIDE DEF p
  <1>3. CASE IsPinFile(p)
    <2>1. p.at # <<>> /\ p.at[Len(p.at)] = PIN_FILENAME /\ dirname(p.at) \in pinned
      BY <1>3 DEF IsPinFile
    <2>2. p.at \notin Dirs
      BY <1>2, <2>1, LoadingAssumption
    <2>3. Top(p) = dirname(p.at) /\ p.at # top
      BY <1>2, <2>2 DEF Top
    <2>4. Within(top, dirname(p.at))
      BY <1>1, <1>2, <2>3, ParentStaysWithin
    <2>5. dirname(p.at) = top
      BY <2>1, <2>4 DEF OwnPin
    <2> QED  BY <1>2, <2>3, <2>4, <2>5 DEF p
  <1>4. CASE ~IsPinFile(p) /\ p.at \in Dirs
    BY <1>1, <1>4 DEF Top, p
  <1>5. CASE ~IsPinFile(p) /\ p.at \notin Dirs
    <2>1. Top(p) = dirname(p.at) /\ p.at \in Files /\ p.at # top
      BY <1>2, <1>5 DEF Top, Exists, p
    <2>2. dirname(p.at) \in Seq(STRING)
      BY <2>1, LoadingAssumption
    <2>3. Within(top, dirname(p.at))
      BY <1>1, <1>2, <2>1, ParentStaysWithin
    <2> QED  BY <1>5, <2>1, <2>2, <2>3 DEF p
  <1> QED  BY <1>3, <1>4, <1>5

LEMMA OwnIsNearest ==
    ASSUME LInv, NEW top, OwnPin(top), NEW i \in 1..Len(inputs), Exists(inputs[i])
    PROVE  Above(pinned, Top(inputs[i])) = {top}
  <1> DEFINE t == Top(inputs[i])
  <1>1. t \in Seq(STRING) /\ Within(top, t)
    BY TopIsWithin
  <1>2. top \in pinned /\ \A d \in pinned : d \in Seq(STRING)
    BY LoadingAssumption DEF OwnPin, LInv, Placed
  <1> HIDE DEF t
  <1>3. ASSUME NEW d \in pinned, Within(d, t)
        PROVE  Len(d) <= Len(top) /\ (Len(d) = Len(top) => d = top)
    <2>1. /\ Len(top) <= Len(d) => Within(top, d)
          /\ Len(d) = Len(top) => d = top
          /\ Len(d) \in Nat /\ Len(top) \in Nat
      BY <1>1, <1>2, <1>3, OneWay
    <2>2. Len(top) <= Len(d) => d = top
      BY <2>1 DEF OwnPin
    <2> QED  BY <2>1, <2>2
  <1>4. top \in Above(pinned, t)
    BY <1>1, <1>2, <1>3 DEF Above
  <1>5. ASSUME NEW d \in Above(pinned, t)
        PROVE  d = top
    <2>1. d \in pinned /\ Within(d, t) /\ Len(top) <= Len(d)
      BY <1>1, <1>2, <1>5 DEF Above
    <2>2. Len(d) \in Nat /\ Len(top) \in Nat
      BY <1>2, <2>1, LenProperties
    <2> QED  BY <1>3, <2>1, <2>2
  <1> QED  BY <1>4, <1>5 DEF t

\* A set of naturals has a least element.
LEMMA Least ==
    ASSUME NEW S \in SUBSET Nat, S # {}
    PROVE  \E m \in S : \A k \in S : m <= k
  <1>1. PICK m \in S : \A k \in S : ~ (<<k, m>> \in OpToRel(<, Nat))
    BY WFMin, NatLessThanWellFounded
  <1>2. \A k \in S : ~(k < m)
    BY <1>1 DEF OpToRel
  <1> QED  BY <1>2

\* The first input something is said of says it.
LEMMA FirstSaidIs ==
    ASSUME NEW F, NEW x, Len(inputs) \in Nat,
           \A i \in 1..Len(inputs) : Exists(inputs[i]) => F[inputs[i]] \in {{}, {x}}
    PROVE  /\ FirstSaid(F) \in {{}, {x}}
           /\ (\E i \in 1..Len(inputs) : Exists(inputs[i]) /\ F[inputs[i]] = {x})
                 => FirstSaid(F) = {x}
  <1> DEFINE hits == {i \in 1..Len(inputs) : Exists(inputs[i]) /\ F[inputs[i]] # {}}
             first == {k \in hits : \A j \in hits : k <= j}
  <1>1. FirstSaid(F) = UNION {F[inputs[i]] : i \in first}
    BY DEF FirstSaid
  <1>2. \A i \in first : F[inputs[i]] = {x}
    OBVIOUS
  <1>3. hits # {} => first # {}
    <2>1. hits \in SUBSET Nat
      OBVIOUS
    <2> HIDE DEF hits
    <2>2. hits # {} => \E m \in hits : \A j \in hits : m <= j
      BY <2>1, Least
    <2> QED  BY <2>2
  <1>4. (\E i \in 1..Len(inputs) : Exists(inputs[i]) /\ F[inputs[i]] = {x}) => hits # {}
    OBVIOUS
  <1> HIDE DEF first, hits
  <1>5. first = {} => FirstSaid(F) = {}
    BY <1>1
  <1>6. first # {} => FirstSaid(F) = {x}
    BY <1>1, <1>2
  <1> QED  BY <1>3, <1>4, <1>5, <1>6

LEMMA OwnPinIsFound ==
    ASSUME LInv, NEW top, OwnPin(top), \E i \in 1..Len(inputs) : Exists(inputs[i])
    PROVE  resolve_pin_path = {top}
  <1> DEFINE named  == [p \in {inputs[i] : i \in 1..Len(inputs)} |->
                           IF IsPinFile(p) THEN {Top(p)} ELSE {}]
             upward == [p \in DOMAIN named |-> Above(pinned, Top(p))]
  <1>1. Len(inputs) \in Nat
    BY LoadingAssumption, LenProperties DEF LInv, Placed
  <1>2. resolve_pin_path = IF FirstSaid(named) # {} THEN FirstSaid(named) ELSE FirstSaid(upward)
    BY DEF resolve_pin_path
  <1>3. \A i \in 1..Len(inputs) :
            /\ named[inputs[i]] = IF IsPinFile(inputs[i]) THEN {Top(inputs[i])} ELSE {}
            /\ upward[inputs[i]] = Above(pinned, Top(inputs[i]))
    OBVIOUS
  <1> HIDE DEF named, upward
  <1>4. \A i \in 1..Len(inputs) : Exists(inputs[i]) => named[inputs[i]] \in {{}, {top}}
    BY <1>3, TopIsWithin
  <1>5. \A i \in 1..Len(inputs) : Exists(inputs[i]) => upward[inputs[i]] = {top}
    BY <1>3, OwnIsNearest
  <1>6. FirstSaid(named) \in {{}, {top}}
    BY <1>1, <1>4, FirstSaidIs
  <1>7. FirstSaid(upward) = {top}
    BY <1>1, <1>5, FirstSaidIs
  <1> QED  BY <1>2, <1>6, <1>7

\* Pointed at parts of a chain with a pin and keys of its own, and with no
\* other pin in it, the invalidator takes that pin, and a run that goes on has
\* read every key beside it, whatever lies further up and in whatever form the
\* keys are kept.
THEOREM OwnChainIsUsed == Spec => []OwnMaterialReached
  <1>1. LInv => OwnMaterialReached
    <2> SUFFICES ASSUME LInv, NEW top \in pinned, Append(top, "keys") \in Dirs,
                        phase = "done", OwnPin(top)
                 PROVE  /\ resolve_pin_path = {top}
                        /\ \A f \in Containers \cap Keyed :
                               /\ Within(Append(top, "keys"), f)
                               /\ Format[f] # "unreadable" /\ ~Hidden(f)
                               => \E r \in read : r.path.at = f /\ r.reading > 1
      BY DEF OwnMaterialReached, OwnPin
    <2>1. \E i \in 1..Len(inputs) : Exists(inputs[i])
      <3>1. PICK r \in read : r.reading = 1
        BY DEF LInv, Placed
      <3>2. r.path \in Due(1)
        BY <3>1 DEF LInv, Placed
      <3>3. r.path \in gather_files(inputs)
        BY <3>2 DEF Due
      <3>4. r.path.at \in Files
        BY <3>2, DueAreFiles
      <3> QED  BY <3>3, <3>4 DEF gather_files, Exists
    <2>2. resolve_pin_path = {top}
      BY <2>1, OwnPinIsFound
    <2> DEFINE beside == [at |-> Append(top, "keys"), way |-> "absolute"]
    <2>3. sibling = {beside}
      BY <2>2 DEF sibling, resolve_base_dir
    <2>4. Due(3) = gather_files(<<beside>>)
      BY <2>3 DEF Due
    <2>5. ASSUME NEW f \in Containers \cap Keyed, Within(Append(top, "keys"), f),
                 Format[f] # "unreadable", ~Hidden(f)
          PROVE  \E r \in read : r.path.at = f /\ r.reading > 1
      <3> DEFINE p == [at |-> f, way |-> "absolute"]
      <3>1. p.at = f /\ p \in Due(3)
        <4>1. f \in Files
          BY LoadingAssumption
        <4>2. Len(<<beside>>) = 1 /\ <<beside>>[1] = beside
          OBVIOUS
        <4>3. beside.at = Append(top, "keys") /\ beside.way = "absolute" /\ 1 \in 1..1
          OBVIOUS
        <4>4. p \in [at : Files, way : {<<beside>>[i].way : i \in 1..Len(<<beside>>)}]
          BY <4>1, <4>2, <4>3
        <4> HIDE DEF beside
        <4> QED  BY <2>4, <2>5, <4>2, <4>3, <4>4 DEF gather_files
      <3>2. ~ToCome(3, p)
        BY DEF LInv, Placed, ToCome, AtHand
      <3> HIDE DEF p
      <3>3. Material(3, p) = Expected(p)
        BY <2>5, <3>1, <3>2 DEF LInv, ReadSoFar
      <3>4. Format[f] \in Expected(p)
        BY <2>5, <3>1, LoadingAssumption DEF Expected
      <3>5. PICK r \in read : r.path = p /\ r.reading = 3
        BY <3>3, <3>4 DEF Material
      <3> QED  BY <3>1, <3>5
    <2> QED  BY <2>2, <2>5
  <1> QED  BY <1>1, Reading, PTL
=============================================================================
