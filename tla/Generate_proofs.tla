-------------------------- MODULE Generate_proofs --------------------------
(***************************************************************************)
(* Proofs about the generator, for any number of runs that start in one    *)
(* directory, whatever names they draw and however long their chains are.  *)
(***************************************************************************)
EXTENDS Generate, Chains_proofs

-----------------------------------------------------------------------------
(* The phases                                                              *)

Inside == {"key", "sign", "arrange", "copy", "pin"}

Phased == phase \in [Runs -> Phases] /\ left \in [Runs -> Phases]
          /\ ended \in [Runs -> {"running", "refused", "failed", "killed", "done"}]

LEMMA GoToPhase ==
    ASSUME Phased, NEW r \in Runs, NEW next \in Phases, GoTo(r, next)
    PROVE  /\ Phased'
           /\ phase'[r] = next
           /\ \A q \in Runs \ {r} : phase'[q] = phase[q]
           /\ UNCHANGED <<count, format, ended, left>>
  BY DEF GoTo, Phased

LEMMA LeavePhase ==
    ASSUME Phased, NEW r \in Runs, NEW next \in Phases,
           NEW how \in {"refused", "failed", "killed", "done"}, Leave(r, how, next)
    PROVE  /\ Phased'
           /\ phase'[r] = next /\ left'[r] = phase[r] /\ ended'[r] = how
           /\ \A q \in Runs \ {r} :
                phase'[q] = phase[q] /\ left'[q] = left[q] /\ ended'[q] = ended[q]
           /\ UNCHANGED <<count, format>>
  BY DEF Leave, Phased

LEMMA RaisePhase ==
    ASSUME Phased, NEW r \in Runs,
           NEW how \in {"refused", "failed", "done"}, Raise(r, how)
    PROVE  /\ Phased'
           /\ phase'[r] = IF phase[r] \in Inside THEN "finally" ELSE "over"
           /\ left'[r] = phase[r] /\ ended'[r] = how
           /\ \A q \in Runs \ {r} :
                phase'[q] = phase[q] /\ left'[q] = left[q] /\ ended'[q] = ended[q]
           /\ UNCHANGED <<count, format>>
  <1> DEFINE next == IF phase[r] \in Inside THEN "finally" ELSE "over"
  <1>1. next \in Phases /\ Leave(r, how, next)
    BY DEF Raise, Inside, Phases
  <1> HIDE DEF next
  <1>2. /\ Phased'
        /\ phase'[r] = next /\ left'[r] = phase[r] /\ ended'[r] = how
        /\ \A q \in Runs \ {r} :
             phase'[q] = phase[q] /\ left'[q] = left[q] /\ ended'[q] = ended[q]
        /\ UNCHANGED <<count, format>>
    BY <1>1, LeavePhase
  <1> QED  BY <1>2 DEF next

-----------------------------------------------------------------------------
(* The temporary directory                                                 *)

\* A run has one from MakeTemp on; after its end only if it was killed, or
\* left the guarded part by one of its two ends.
TempHeld ==
    \A r \in temps :
        \/ phase[r] \in {"try", "finally"} \cup Inside
        \/ phase[r] = "over" /\ (ended[r] = "killed" \/ left[r] \in {"try", "finally"})

TInv == Phased /\ temps \subseteq Runs /\ TempHeld

LEMMA TInitInv == Init => TInv
  BY DEF Init, TInv, Phased, Phases, TempHeld

LEMMA TGoOn ==
    ASSUME TInv, NEW r \in Runs, NEW next \in {"try"} \cup Inside, GoTo(r, next),
           phase[r] \in {"mkdtemp", "try"} \cup Inside,
           temps' \subseteq temps \cup {r}
    PROVE  TInv'
  <1>1. next \in Phases
    BY DEF Inside, Phases
  <1> QED  BY <1>1, GoToPhase DEF TInv, TempHeld

LEMMA TRaise ==
    ASSUME TInv, NEW r \in Runs, NEW how \in {"refused", "failed", "done"}, Raise(r, how),
           phase[r] # "over", UNCHANGED temps
    PROVE  TInv'
  BY RaisePhase DEF TInv, TempHeld, Inside

LEMMA TNextInv == TInv /\ [Next]_vars => TInv'
  <1> SUFFICES ASSUME TInv, [Next]_vars
               PROVE  TInv'
    OBVIOUS
  <1> USE DEF Inside
  <1>1. ASSUME NEW r \in Runs, Resolve(r)
        PROVE  TInv'
    <2>1. phase[r] = "resolve" /\ UNCHANGED temps
      BY <1>1 DEF Resolve, Untouched
    <2>2. CASE Raise(r, "refused")
      BY <2>1, <2>2, TRaise
    <2>3. CASE GoTo(r, "mkdir")
      <3>1. "mkdir" \in Phases
        BY DEF Phases
      <3> QED  BY <2>1, <2>3, <3>1, GoToPhase DEF TInv, TempHeld
    <2> QED  BY <1>1, <2>2, <2>3 DEF Resolve
  <1>2. ASSUME NEW r \in Runs, MakeRunDir(r)
        PROVE  TInv'
    <2>1. phase[r] = "mkdir" /\ UNCHANGED temps
      BY <1>2 DEF MakeRunDir
    <2>2. CASE Raise(r, "failed")
      BY <2>1, <2>2, TRaise
    <2>3. CASE GoTo(r, "mkdtemp")
      <3>1. "mkdtemp" \in Phases
        BY DEF Phases
      <3> QED  BY <2>1, <2>3, <3>1, GoToPhase DEF TInv, TempHeld
    <2> QED  BY <1>2, <2>2, <2>3 DEF MakeRunDir
  <1>3. ASSUME NEW r \in Runs, MakeTemp(r)
        PROVE  TInv'
    BY <1>3, TGoOn DEF MakeTemp
  <1>4. ASSUME NEW r \in Runs, EnterTry(r)
        PROVE  TInv'
    BY <1>4, TGoOn DEF EnterTry, Untouched
  <1>5. ASSUME NEW r \in Runs, GenerateKey(r)
        PROVE  TInv'
    BY <1>5, TGoOn DEF GenerateKey
  <1>6. ASSUME NEW r \in Runs, Sign(r)
        PROVE  TInv'
    <2>1. phase[r] = "sign" /\ UNCHANGED temps /\ (GoTo(r, "arrange") \/ GoTo(r, "key"))
      BY <1>6 DEF Sign
    <2> QED  BY <2>1, TGoOn
  <1>7. ASSUME NEW r \in Runs, Arrange(r)
        PROVE  TInv'
    BY <1>7, TGoOn DEF Arrange
  <1>8. ASSUME NEW r \in Runs, Copy(r)
        PROVE  TInv'
    <2>1. phase[r] = "copy" /\ UNCHANGED temps /\ (GoTo(r, "pin") \/ GoTo(r, "copy"))
      BY <1>8 DEF Copy
    <2> QED  BY <2>1, TGoOn
  <1>9. ASSUME NEW r \in Runs, WritePin(r)
        PROVE  TInv'
    BY <1>9, TRaise DEF WritePin
  <1>10. ASSUME NEW r \in Runs, CleanUp(r)
         PROVE  TInv'
    <2>1. "over" \in Phases
      BY DEF Phases
    <2> QED  BY <1>10, <2>1, GoToPhase DEF CleanUp, TInv, TempHeld
  <1>11. ASSUME NEW r \in Runs, Stop(r)
         PROVE  TInv'
    BY <1>11, TRaise DEF Stop, Untouched
  <1>12. ASSUME NEW r \in Runs, Kill(r)
         PROVE  TInv'
    <2>1. "over" \in Phases
      BY DEF Phases
    <2> QED  BY <1>12, <2>1, LeavePhase DEF Kill, Untouched, TInv, TempHeld
  <1>13. CASE UNCHANGED vars
    BY <1>13 DEF vars, TInv, Phased, TempHeld
  <1> QED
    BY <1>1, <1>2, <1>3, <1>4, <1>5, <1>6, <1>7, <1>8, <1>9, <1>10, <1>11, <1>12, <1>13
    DEF Next, Step

\* A run that is over has removed its temporary directory, and with it the
\* requests it was signing, unless it was killed or stopped at one of the two
\* ends of the guarded part.
THEOREM TempIsRemoved == Spec => []TempRemoved
  <1>1. TInv => TempRemoved
    BY DEF TInv, TempHeld, TempRemoved, Inside
  <1> QED  BY TInitInv, TNextInv, <1>1, PTL DEF Spec

-----------------------------------------------------------------------------
(* The run directories                                                     *)
(*                                                                         *)
(* That runs stay apart rests on os.makedirs, which refuses a name that is *)
(* taken; but for what is copied to be the run's own, the layout must list *)
(* what the run has issued, and the copying must stay within it.           *)

\* A run has at most one directory, on disk, once it has made it.
Placed(r) ==
    /\ \A d, e \in base[r] : d = e
    /\ base[r] \subseteq DOMAIN disk
    /\ phase[r] \in {"resolve", "mkdir"} => base[r] = {}
    /\ phase[r] \in {"mkdtemp", "try"} \cup Inside => base[r] # {}

\* There is something to lay out, and something left to copy.
Laid(r) ==
    /\ phase[r] \in {"mkdtemp", "try", "key", "sign", "arrange"} =>
          \A d \in base[r] : disk[d].certs = <<>>
    /\ phase[r] \in {"arrange", "copy", "pin"} => issued[r] # <<>>
    /\ phase[r] = "copy" => \A d \in base[r] : Len(disk[d].certs) < Len(order[r])

Own(r) ==
    /\ \A i \in 1..Len(issued[r]) : issued[r][i].key[1] = r
    /\ \A i \in 1..Len(order[r]) : order[r][i].key[1] = r

Apart == \A q, r \in Runs : q # r => base[q] \cap base[r] = {}

Marked(d) ==
    /\ \A k \in disk[d].keys : k[1] \in Runs /\ d \in base[k[1]]
    /\ \A i \in 1..Len(disk[d].certs) :
          disk[d].certs[i].key[1] \in Runs /\ d \in base[disk[d].certs[i].key[1]]

Asked == \A r \in Runs : count[r] <= Len(Intermediate)

GInv ==
    /\ TypeOK /\ Asked /\ Apart
    /\ \A r \in Runs : Placed(r) /\ Laid(r) /\ Own(r)
    /\ \A d \in DOMAIN disk : Marked(d)

LEMMA GPhased == TypeOK => Phased
  BY DEF TypeOK, Phased

LEMMA EmptyContents == [keys |-> {}, certs |-> <<>>, pin |-> {}] \in Contents
  <1>1. <<>> \in Seq(Cert)
    OBVIOUS
  <1> QED  BY <1>1 DEF Contents

LEMMA GInitInv == Init => GInv
  <1> SUFFICES ASSUME Init
               PROVE  GInv
    OBVIOUS
  <1>1. TypeOK
    <2>1. count \in [Runs -> Int] /\ \A r \in Runs : count[r] \in Counts[r]
      BY GenerateAssumption DEF Init
    <2>2. DOMAIN disk = {} /\ disk \in [DOMAIN disk -> Contents]
      BY DEF Init
    <2>3. /\ issued \in [Runs -> Seq(Cert)] /\ order \in [Runs -> Seq(Cert)]
      <3>1. <<>> \in Seq(Cert)
        OBVIOUS
      <3> QED  BY <3>1 DEF Init
    <2>4. /\ format \in [Runs -> FORMATS] /\ phase \in [Runs -> Phases]
          /\ left \in [Runs -> Phases] /\ base \in [Runs -> SUBSET Stamps]
          /\ ended \in [Runs -> {"running", "refused", "failed", "killed", "done"}]
          /\ temps \subseteq Runs
      BY DEF Init, Phases
    <2> QED  BY <2>1, <2>2, <2>3, <2>4 DEF TypeOK
  <1>2. Asked
    BY GenerateAssumption DEF Init, Asked
  <1>3. Apart /\ \A r \in Runs : Placed(r) /\ Laid(r) /\ Own(r)
    BY DEF Init, Apart, Placed, Laid, Own, Inside
  <1>4. DOMAIN disk = {}
    BY DEF Init
  <1> QED  BY <1>1, <1>2, <1>3, <1>4 DEF GInv

-----------------------------------------------------------------------------
(* What the steps of one run leave to the others                           *)

\* A step that changes the phase of one run and no directory.
LEMMA PhaseStep ==
    ASSUME GInv, NEW r \in Runs, Phased',
           \A q \in Runs \ {r} : phase'[q] = phase[q],
           UNCHANGED <<count, format, base, issued, order, disk>>, temps' \subseteq Runs,
           Placed(r)', Laid(r)'
    PROVE  GInv'
  <1>1. TypeOK' /\ Asked' /\ Apart'
    BY DEF GInv, TypeOK, Asked, Apart, Phased
  <1>2. \A q \in Runs \ {r} : Placed(q)' /\ Laid(q)'
    BY DEF GInv, Placed, Laid
  <1>3. \A q \in Runs : Own(q)'
    BY DEF GInv, Own
  <1>4. \A d \in DOMAIN disk' : Marked(d)'
    BY DEF GInv, Marked
  <1> QED  BY <1>1, <1>2, <1>3, <1>4 DEF GInv

\* A run that stops has nothing to promise.
LEMMA StopStep ==
    ASSUME GInv, NEW r \in Runs, Phased', phase'[r] \in {"finally", "over"},
           \A q \in Runs \ {r} : phase'[q] = phase[q],
           UNCHANGED <<count, format, base, issued, order, disk>>, temps' \subseteq Runs
    PROVE  GInv'
  <1>1. Placed(r)' /\ Laid(r)'
    BY DEF GInv, Placed, Laid, Inside
  <1> QED  BY <1>1, PhaseStep

LEMMA RaiseStep ==
    ASSUME GInv, NEW r \in Runs, NEW how \in {"refused", "failed", "done"}, Raise(r, how),
           UNCHANGED <<base, issued, order, disk, temps>>
    PROVE  GInv'
  <1>1. Phased /\ temps' \subseteq Runs
    BY GPhased DEF GInv, TypeOK
  <1> QED  BY <1>1, RaisePhase, StopStep

\* A run's directory, where it has one.
LEMMA HereIs ==
    ASSUME GInv, NEW r \in Runs, base[r] # {}
    PROVE  \E d \in DOMAIN disk : base[r] = {d} /\ Here(r) = disk[d] /\ disk[d] \in Contents
  <1>1. PICK d \in base[r] : TRUE
    OBVIOUS
  <1>2. base[r] = {d} /\ d \in DOMAIN disk
    BY <1>1 DEF GInv, Placed
  <1>3. Here(r) = disk[d]
    BY <1>2 DEF Here
  <1> QED  BY <1>2, <1>3 DEF GInv, TypeOK

\* A step of r that writes to its own directory and goes on.
LEMMA ChangeStep ==
    ASSUME GInv, NEW r \in Runs, NEW contents \in Contents, base[r] # {},
           Change(r, contents), Phased',
           \A q \in Runs \ {r} : phase'[q] = phase[q],
           UNCHANGED <<count, format, base, temps, issued, order>>,
           \A k \in contents.keys : k[1] = r,
           \A i \in 1..Len(contents.certs) : contents.certs[i].key[1] = r,
           phase'[r] \in {"sign", "pin", "finally", "over", "copy"},
           phase'[r] = "sign" => contents.certs = <<>>,
           phase'[r] \in {"copy", "pin"} => issued[r] # <<>>,
           phase'[r] = "copy" => Len(contents.certs) < Len(order[r])
    PROVE  GInv'
  <1>1. PICK d \in DOMAIN disk : base[r] = {d}
    BY HereIs
  <1>2. /\ DOMAIN disk' = DOMAIN disk
        /\ disk' \in [DOMAIN disk -> Contents]
        /\ disk'[d] = contents
        /\ \A e \in DOMAIN disk \ {d} : disk'[e] = disk[e]
    BY <1>1 DEF Change, GInv, TypeOK
  <1>3. TypeOK' /\ Asked' /\ Apart'
    BY <1>2 DEF GInv, TypeOK, Asked, Apart, Phased
  <1>4. \A q \in Runs \ {r} : base[q] \subseteq DOMAIN disk \ {d}
    BY <1>1 DEF GInv, Apart, Placed
  <1>5. \A q \in Runs \ {r} : Placed(q)' /\ Laid(q)'
    <2> SUFFICES ASSUME NEW q \in Runs \ {r}
                 PROVE  Placed(q)' /\ Laid(q)'
      OBVIOUS
    <2>1. \A e \in base[q] : disk'[e] = disk[e]
      BY <1>2, <1>4
    <2>2. Placed(q) /\ Laid(q) /\ phase'[q] = phase[q]
      BY DEF GInv
    <2> QED  BY <1>2, <2>1, <2>2 DEF Placed, Laid
  <1>6. Placed(r)'
    BY <1>1, <1>2 DEF GInv, Placed, Inside
  <1>7. Laid(r)'
    BY <1>1, <1>2 DEF Laid
  <1>8. \A q \in Runs : Own(q)'
    BY DEF GInv, Own
  <1>9. \A e \in DOMAIN disk' : Marked(e)'
    <2>1. Marked(d)'
      BY <1>1, <1>2 DEF Marked
    <2>2. \A e \in DOMAIN disk \ {d} : Marked(e)'
      BY <1>2 DEF GInv, Marked
    <2> QED  BY <1>2, <2>1, <2>2
  <1> QED  BY <1>3, <1>5, <1>6, <1>7, <1>8, <1>9 DEF GInv

-----------------------------------------------------------------------------
(* The steps                                                               *)

LEMMA MakeRunDirStep ==
    ASSUME GInv, NEW r \in Runs, MakeRunDir(r)
    PROVE  GInv'
  <1>1. PICK d \in Stamps :
           IF d \in DOMAIN disk THEN Raise(r, "failed") /\ UNCHANGED <<base, disk>>
           ELSE /\ GoTo(r, "mkdtemp")
                /\ base' = [base EXCEPT ![r] = {d}]
                /\ disk' = [e \in DOMAIN disk \cup {d} |->
                              IF e = d THEN [keys |-> {}, certs |-> <<>>, pin |-> {}] ELSE disk[e]]
    BY DEF MakeRunDir
  <1>2. phase[r] = "mkdir" /\ UNCHANGED <<temps, issued, order>>
    BY DEF MakeRunDir
  <1>3. CASE d \in DOMAIN disk
    BY <1>1, <1>2, <1>3, RaiseStep
  <1>4. CASE d \notin DOMAIN disk
    <2> DEFINE empty == [keys |-> {}, certs |-> <<>>, pin |-> {}]
    <2>1. empty \in Contents /\ empty.keys = {} /\ empty.certs = <<>>
      BY EmptyContents
    <2>2. /\ DOMAIN disk' = DOMAIN disk \cup {d}
          /\ disk'[d] = empty
          /\ \A e \in DOMAIN disk : disk'[e] = disk[e]
          /\ disk' = [e \in DOMAIN disk' |-> disk'[e]]
      BY <1>1, <1>4
    <2> HIDE DEF empty
    <2>3. /\ Phased' /\ phase'[r] = "mkdtemp"
          /\ \A q \in Runs \ {r} : phase'[q] = phase[q]
          /\ UNCHANGED <<count, format, ended, left>>
      <3>1. "mkdtemp" \in Phases
        BY DEF Phases
      <3> QED  BY <1>1, <1>4, <3>1, GPhased, GoToPhase DEF GInv
    <2>4. /\ base' \in [Runs -> SUBSET Stamps] /\ base'[r] = {d}
          /\ \A q \in Runs \ {r} : base'[q] = base[q]
      <3>1. base \in [Runs -> SUBSET Stamps] /\ {d} \in SUBSET Stamps
        BY DEF GInv, TypeOK
      <3>2. base' = [base EXCEPT ![r] = {d}]
        BY <1>1, <1>4
      <3> QED  BY <3>1, <3>2
    <2>5. TypeOK' /\ Asked'
      BY <1>2, <2>1, <2>2, <2>3, <2>4 DEF GInv, TypeOK, Asked, Phased
    <2>6. \A q \in Runs : base[q] \subseteq DOMAIN disk
      BY DEF GInv, Placed
    <2>7. Apart'
      BY <1>4, <2>4, <2>6 DEF GInv, Apart
    <2>8. \A q \in Runs \ {r} : Placed(q)' /\ Laid(q)'
      <3> SUFFICES ASSUME NEW q \in Runs \ {r}
                   PROVE  Placed(q)' /\ Laid(q)'
        OBVIOUS
      <3>1. Placed(q) /\ Laid(q) /\ phase'[q] = phase[q] /\ base'[q] = base[q]
        BY <2>3, <2>4 DEF GInv
      <3>2. \A e \in base[q] : disk'[e] = disk[e]
        BY <2>2, <2>6
      <3> QED  BY <1>2, <2>2, <3>1, <3>2 DEF Placed, Laid
    <2>9. Placed(r)' /\ Laid(r)'
      BY <2>1, <2>2, <2>3, <2>4 DEF Placed, Laid
    <2>10. \A q \in Runs : Own(q)'
      BY <1>2 DEF GInv, Own
    <2>11. \A e \in DOMAIN disk' : Marked(e)'
      <3>1. Marked(d)'
        BY <2>1, <2>2 DEF Marked
      <3>2. ASSUME NEW e \in DOMAIN disk
            PROVE  Marked(e)'
        <4>1. base[r] = {}
          BY <1>2 DEF GInv, Placed
        <4>2. \A q \in Runs : e \in base[q] => e \in base'[q]
          BY <2>4, <4>1
        <4> QED  BY <2>2, <4>2 DEF GInv, Marked
      <3> QED  BY <2>2, <3>1, <3>2
    <2> QED  BY <2>5, <2>7, <2>8, <2>9, <2>10, <2>11 DEF GInv
  <1> QED  BY <1>3, <1>4

\* Every name that is asked for is one of the chain's.
LEMMA NameIsName ==
    ASSUME GInv, NEW r \in Runs
    PROVE  CommonName(r) \in Name
  <1>1. /\ issued[r] \in Seq(Cert) /\ Len(issued[r]) \in Nat
        /\ count[r] \in Int /\ count[r] <= Len(Intermediate)
        /\ Len(Intermediate) \in Nat
    <2>1. issued \in [Runs -> Seq(Cert)] /\ count \in [Runs -> Int]
      BY DEF GInv, TypeOK
    <2>2. count[r] <= Len(Intermediate)
      BY DEF GInv, Asked
    <2>3. Intermediate \in Seq(Name)
      BY GenerateAssumption
    <2> QED  BY <2>1, <2>2, <2>3
  <1>2. RootCA \in Name /\ LEAF_DNS_NAME \in Name
        /\ \A i \in 1..Len(Intermediate) : Intermediate[i] \in Name
    BY GenerateAssumption
  <1> QED  BY <1>1, <1>2 DEF CommonName

LEMMA GenerateKeyStep ==
    ASSUME GInv, NEW r \in Runs, GenerateKey(r)
    PROVE  GInv'
  <1>1. phase[r] = "key" /\ UNCHANGED <<base, temps, issued, order>> /\ base[r] # {}
    BY DEF GenerateKey, GInv, Placed, Inside
  <1>2. PICK d \in DOMAIN disk : base[r] = {d} /\ Here(r) = disk[d] /\ disk[d] \in Contents
    BY <1>1, HereIs
  <1> DEFINE key == <<r, CommonName(r)>>
             contents == [Here(r) EXCEPT !.keys = @ \cup {key}]
  <1>3. key \in Key /\ key[1] = r
    BY NameIsName, GenerateAssumption
  <1> HIDE DEF key
  <1>4. /\ contents \in Contents
        /\ contents.keys = disk[d].keys \cup {key} /\ contents.certs = disk[d].certs
    BY <1>2, <1>3 DEF Contents
  <1>5. Change(r, contents)
    BY DEF GenerateKey, key
  <1> HIDE DEF contents
  <1>6. /\ Phased' /\ phase'[r] = "sign" /\ UNCHANGED <<count, format>>
        /\ \A q \in Runs \ {r} : phase'[q] = phase[q]
    <2>1. "sign" \in Phases /\ GoTo(r, "sign")
      BY DEF Phases, GenerateKey
    <2> QED  BY <2>1, GPhased, GoToPhase DEF GInv
  <1>7. disk[d].certs = <<>>
    BY <1>1, <1>2 DEF GInv, Laid
  <1>8. \A k \in disk[d].keys : k[1] = r
    BY <1>2 DEF GInv, Marked, Apart
  <1> QED  BY <1>1, <1>3, <1>4, <1>5, <1>6, <1>7, <1>8, ChangeStep

LEMMA CertsOfRunsAreTheirs ==
    ASSUME GInv, NEW r \in Runs, NEW d \in DOMAIN disk, base[r] = {d}
    PROVE  /\ \A k \in disk[d].keys : k[1] = r
           /\ \A i \in 1..Len(disk[d].certs) : disk[d].certs[i].key[1] = r
  BY DEF GInv, Marked, Apart

LEMMA CopyStep ==
    ASSUME GInv, NEW r \in Runs, Copy(r)
    PROVE  GInv'
  <1>1. /\ phase[r] = "copy" /\ UNCHANGED <<base, temps, issued, order>>
        /\ base[r] # {} /\ issued[r] # <<>>
    BY DEF Copy, GInv, Placed, Laid, Inside
  <1>2. PICK d \in DOMAIN disk : base[r] = {d} /\ Here(r) = disk[d] /\ disk[d] \in Contents
    BY <1>1, HereIs
  <1>3. /\ disk[d].certs \in Seq(Cert) /\ Len(disk[d].certs) \in Nat
        /\ order[r] \in Seq(Cert) /\ Len(order[r]) \in Nat
        /\ Len(disk[d].certs) < Len(order[r])
    <2>1. disk[d].certs \in Seq(Cert)
      BY <1>2 DEF Contents
    <2>2. order[r] \in Seq(Cert)
      BY DEF GInv, TypeOK
    <2>3. Len(disk[d].certs) < Len(order[r])
      BY <1>1, <1>2 DEF GInv, Laid
    <2> QED  BY <2>1, <2>2, <2>3
  <1> DEFINE written == Len(disk[d].certs) + 1
             cert == order[r][written]
             certs == Append(disk[d].certs, cert)
             contents == [Here(r) EXCEPT !.certs = certs]
  <1>4. written \in 1..Len(order[r]) /\ cert \in Cert /\ cert.key[1] = r
    <2>1. written \in 1..Len(order[r])
      BY <1>3
    <2> QED  BY <2>1, <1>3 DEF GInv, Own
  <1> HIDE DEF cert
  <1>5. /\ certs \in Seq(Cert) /\ Len(certs) = written
        /\ \A i \in 1..Len(certs) : certs[i].key[1] = r
    <2>1. /\ certs \in Seq(Cert) /\ Len(certs) = written
          /\ \A i \in 1..Len(disk[d].certs) : certs[i] = disk[d].certs[i]
          /\ certs[written] = cert
      BY <1>3, <1>4
    <2>2. \A i \in 1..Len(disk[d].certs) : disk[d].certs[i].key[1] = r
      BY <1>2, CertsOfRunsAreTheirs
    <2>3. \A i \in 1..Len(certs) : i \in 1..Len(disk[d].certs) \/ i = written
      BY <1>3, <2>1
    <2> QED  BY <1>4, <2>1, <2>2, <2>3
  <1>6. Change(r, contents) /\ GoTo(r, IF written = Len(order[r]) THEN "pin" ELSE "copy")
    BY <1>2 DEF Copy, cert
  <1> HIDE DEF certs
  <1>7. /\ contents \in Contents
        /\ contents.keys = disk[d].keys /\ contents.certs = certs
    BY <1>2, <1>5 DEF Contents
  <1> HIDE DEF contents
  <1> DEFINE next == IF written = Len(order[r]) THEN "pin" ELSE "copy"
  <1>8. next \in Phases /\ next \in {"pin", "copy"}
        /\ (next = "copy" => written # Len(order[r]))
    BY DEF Phases
  <1>9. GoTo(r, next)
    BY <1>6
  <1> HIDE DEF next
  <1>10. /\ Phased' /\ phase'[r] = next /\ UNCHANGED <<count, format>>
         /\ \A q \in Runs \ {r} : phase'[q] = phase[q]
    BY <1>8, <1>9, GPhased, GoToPhase DEF GInv
  <1>11. \A k \in disk[d].keys : k[1] = r
    BY <1>2, CertsOfRunsAreTheirs
  <1>12. next = "copy" => Len(certs) < Len(order[r])
    BY <1>3, <1>4, <1>5, <1>8
  <1> QED
    BY <1>1, <1>5, <1>6, <1>7, <1>8, <1>10, <1>11, <1>12, ChangeStep

LEMMA WritePinStep ==
    ASSUME GInv, NEW r \in Runs, WritePin(r)
    PROVE  GInv'
  <1>1. /\ phase[r] = "pin" /\ UNCHANGED <<base, temps, issued, order>>
        /\ base[r] # {} /\ issued[r] # <<>> /\ issued[r] \in Seq(Cert)
    BY DEF WritePin, GInv, TypeOK, Placed, Laid, Inside
  <1>2. PICK d \in DOMAIN disk : base[r] = {d} /\ Here(r) = disk[d] /\ disk[d] \in Contents
    BY <1>1, HereIs
  <1> DEFINE root == issued[r][1]
             contents == [Here(r) EXCEPT !.pin = {root}]
  <1>3. root \in Cert
    BY <1>1
  <1>4. Change(r, contents) /\ Raise(r, "done")
    BY DEF WritePin
  <1> HIDE DEF root
  <1>5. /\ contents \in Contents
        /\ contents.keys = disk[d].keys /\ contents.certs = disk[d].certs
    BY <1>2, <1>3 DEF Contents
  <1> HIDE DEF contents
  <1>6. /\ Phased' /\ phase'[r] = "finally" /\ UNCHANGED <<count, format>>
        /\ \A q \in Runs \ {r} : phase'[q] = phase[q]
    BY <1>1, <1>4, GPhased, RaisePhase DEF GInv, Inside
  <1>7. /\ \A k \in contents.keys : k[1] = r
        /\ \A i \in 1..Len(contents.certs) : contents.certs[i].key[1] = r
    BY <1>2, <1>5, CertsOfRunsAreTheirs
  <1>8. /\ phase'[r] \in {"sign", "pin", "finally", "over", "copy"}
        /\ phase'[r] # "sign" /\ phase'[r] \notin {"copy", "pin"}
    BY <1>6
  <1> QED  BY <1>1, <1>4, <1>5, <1>6, <1>7, <1>8, ChangeStep

\* The certificate a run signs bears its own key.
LEMMA SignStep ==
    ASSUME GInv, NEW r \in Runs, Sign(r)
    PROVE  GInv'
  <1> DEFINE name == CommonName(r)
             cert == [subject |-> name,
                      issuer  |-> IF issued[r] = <<>> THEN name ELSE Last(issued[r]).subject,
                      key     |-> <<r, name>>,
                      signer  |-> IssuerKey(r),
                      ca      |-> name # LEAF_DNS_NAME]
             next == IF name = LEAF_DNS_NAME THEN "arrange" ELSE "key"
  <1>1. /\ phase[r] = "sign" /\ UNCHANGED <<base, temps, order, disk>>
        /\ issued' = [issued EXCEPT ![r] = Append(@, cert)]
        /\ GoTo(r, next)
    BY DEF Sign
  <1>2. issued[r] \in Seq(Cert) /\ Len(issued[r]) \in Nat
    BY DEF GInv, TypeOK
  <1>3. cert \in Cert /\ cert.key[1] = r
    <2>1. name \in Name /\ RootCA \in Name
      BY NameIsName, GenerateAssumption
    <2>2. \A k \in Name : <<r, k>> \in Key
      BY GenerateAssumption
    <2>3. issued[r] # <<>> => Last(issued[r]) \in Cert
      BY <1>2 DEF Last
    <2>4. Cert = [subject : Name, issuer : Name, key : Key, signer : Key, ca : BOOLEAN]
      BY GenerateAssumption
    <2>5. \A c \in Cert : c.subject \in Name /\ c.key \in Key
      BY <2>4
    <2>6. IssuerKey(r) \in Key
      BY <2>1, <2>2, <2>3, <2>5 DEF IssuerKey
    <2> HIDE DEF name
    <2> QED  BY <2>1, <2>2, <2>3, <2>4, <2>5, <2>6
  <1>4. next \in {"arrange", "key"} /\ next \in Phases
    BY DEF Phases
  <1> HIDE DEF cert, next
  <1>5. /\ Phased' /\ phase'[r] = next /\ UNCHANGED <<count, format>>
        /\ \A q \in Runs \ {r} : phase'[q] = phase[q]
    BY <1>1, <1>4, GPhased, GoToPhase DEF GInv
  <1>6. /\ issued' \in [Runs -> Seq(Cert)]
        /\ \A q \in Runs \ {r} : issued'[q] = issued[q]
        /\ issued'[r] = Append(issued[r], cert)
    <2>1. Append(issued[r], cert) \in Seq(Cert)
      BY <1>2, <1>3
    <2> QED  BY <1>1, <2>1 DEF GInv, TypeOK
  <1>7. /\ issued'[r] # <<>>
        /\ \A i \in 1..Len(issued'[r]) : issued'[r][i].key[1] = r
    <2> DEFINE longer == Append(issued[r], cert)
    <2>1. /\ Len(longer) = Len(issued[r]) + 1
          /\ \A i \in 1..Len(issued[r]) : longer[i] = issued[r][i]
          /\ longer[Len(issued[r]) + 1] = cert
      BY <1>2, <1>3
    <2>2. \A i \in 1..Len(longer) : i \in 1..Len(issued[r]) \/ i = Len(issued[r]) + 1
      BY <1>2, <2>1
    <2>3. \A i \in 1..Len(issued[r]) : issued[r][i].key[1] = r
      BY DEF GInv, Own
    <2>4. longer # <<>>
      <3>1. Len(longer) # 0
        BY <1>2, <2>1
      <3> QED  BY <3>1, EmptySeq
    <2> QED  BY <1>3, <1>6, <2>1, <2>2, <2>3, <2>4
  <1>8. TypeOK' /\ Asked' /\ Apart'
    BY <1>1, <1>5, <1>6 DEF GInv, TypeOK, Asked, Apart, Phased
  <1>9. \A q \in Runs \ {r} : Placed(q)' /\ Laid(q)' /\ Own(q)'
    BY <1>1, <1>5, <1>6 DEF GInv, Placed, Laid, Own
  <1>10. Placed(r)' /\ Laid(r)' /\ Own(r)'
    <2>1. Placed(r) /\ Laid(r) /\ Own(r)
      BY DEF GInv
    <2> QED  BY <1>1, <1>4, <1>5, <1>7, <2>1 DEF Placed, Laid, Own, Inside
  <1>11. \A d \in DOMAIN disk' : Marked(d)'
    BY <1>1 DEF GInv, Marked
  <1> QED  BY <1>8, <1>9, <1>10, <1>11 DEF GInv

Ours(r) == {c \in Cert : c.key[1] = r}

\* Either layout lists certificates the run has issued, and at least one.
LEMMA LayoutIsOurs ==
    ASSUME GInv, NEW r \in Runs, issued[r] # <<>>,
           NEW layout \in IF format[r] = "single" THEN Listings(Certs(issued[r]))
                         ELSE {<<Last(issued[r]), issued[r][1]>> \o intermediates(r)}
    PROVE  layout \in Seq(Ours(r)) /\ Len(layout) > 0
  <1> DEFINE s == issued[r]
  <1>1. s \in Seq(Cert) /\ Len(s) \in Nat \ {0}
    <2>1. s \in Seq(Cert)
      BY DEF GInv, TypeOK
    <2> QED  BY <2>1, EmptySeq
  <1>2. \A i \in 1..Len(s) : s[i] \in Ours(r)
    BY <1>1 DEF GInv, Own, Ours
  <1> HIDE DEF s
  <1>3. CASE format[r] = "single"
    <2> DEFINE S == Certs(s)
               n == Cardinality(S)
    <2>1. S \subseteq Ours(r) /\ s[1] \in S
      BY <1>1, <1>2 DEF Certs
    <2>2. IsFiniteSet(S) /\ n \in Nat
      BY <1>1, BundleIsFinite
    <2>3. n # 0
      BY <2>1, <2>2, FS_EmptySet
    <2>4. layout \in [1..n -> S]
      BY <1>3 DEF Listings, s
    <2> HIDE DEF n, S
    <2>5. layout \in [1..n -> Ours(r)]
      BY <2>1, <2>4
    <2>6. layout \in Seq(Ours(r)) /\ Len(layout) = n
      BY <2>2, <2>5
    <2> QED  BY <2>2, <2>3, <2>6
  <1>4. CASE format[r] # "single"
    <2> DEFINE ends == <<s[Len(s)], s[1]>>
               middle == SubSeq(s, 2, Len(s) - 1)
    <2>1. layout = ends \o middle
      BY <1>4 DEF Last, intermediates, s
    <2>2. ends \in Seq(Ours(r)) /\ Len(ends) = 2
      BY <1>1, <1>2
    <2>3. middle \in Seq(Ours(r))
      <3>1. \A i \in 2..Len(s)-1 : s[i] \in Ours(r)
        BY <1>1, <1>2
      <3> QED  BY <1>1, <3>1, SubSeqProperties
    <2> DEFINE S == Ours(r)
    <2>4. ends \in Seq(S) /\ middle \in Seq(S)
      BY <2>2, <2>3
    <2> HIDE DEF ends, middle, S
    <2>5. ends \o middle \in Seq(S) /\ Len(ends \o middle) = Len(ends) + Len(middle)
      BY <2>4, ConcatProperties
    <2>6. Len(middle) \in Nat
      BY <2>4
    <2>7. layout \in Seq(S) /\ Len(layout) > 0
      BY <2>1, <2>2, <2>5, <2>6
    <2> QED  BY <2>7 DEF S
  <1> QED  BY <1>3, <1>4

LEMMA ArrangeStep ==
    ASSUME GInv, NEW r \in Runs, Arrange(r)
    PROVE  GInv'
  <1>1. /\ phase[r] = "arrange" /\ UNCHANGED <<base, temps, issued, disk>>
        /\ GoTo(r, "copy") /\ issued[r] # <<>>
    BY DEF Arrange, GInv, Laid
  <1>2. PICK layout \in IF format[r] = "single" THEN Listings(Certs(issued[r]))
                       ELSE {<<Last(issued[r]), issued[r][1]>> \o intermediates(r)} :
           order' = [order EXCEPT ![r] = layout]
    BY DEF Arrange
  <1>3. layout \in Seq(Ours(r)) /\ Len(layout) \in Nat /\ Len(layout) > 0
    <2>1. layout \in Seq(Ours(r)) /\ Len(layout) > 0
      BY <1>1, <1>2, LayoutIsOurs
    <2>2. Len(layout) \in Nat
      BY <2>1
    <2> QED  BY <2>1, <2>2
  <1>4. layout \in Seq(Cert) /\ \A i \in 1..Len(layout) : layout[i].key[1] = r
    <2>1. layout \in Seq(Cert)
      BY <1>3, SeqMonotonic DEF Ours
    <2>2. \A i \in 1..Len(layout) : layout[i] \in Ours(r)
      BY <1>3
    <2> QED  BY <2>1, <2>2 DEF Ours
  <1>5. /\ order' \in [Runs -> Seq(Cert)] /\ order'[r] = layout
        /\ \A q \in Runs \ {r} : order'[q] = order[q]
    BY <1>2, <1>4 DEF GInv, TypeOK
  <1>6. /\ Phased' /\ phase'[r] = "copy" /\ UNCHANGED <<count, format>>
        /\ \A q \in Runs \ {r} : phase'[q] = phase[q]
    <2>1. "copy" \in Phases
      BY DEF Phases
    <2> QED  BY <1>1, <2>1, GPhased, GoToPhase DEF GInv
  <1>7. TypeOK' /\ Asked' /\ Apart'
    BY <1>1, <1>5, <1>6 DEF GInv, TypeOK, Asked, Apart, Phased
  <1>8. \A q \in Runs \ {r} : Placed(q)' /\ Laid(q)' /\ Own(q)'
    BY <1>1, <1>5, <1>6 DEF GInv, Placed, Laid, Own
  <1>9. Placed(r)' /\ Own(r)'
    BY <1>1, <1>4, <1>5, <1>6 DEF GInv, Placed, Own, Inside
  <1>10. Laid(r)'
    <2>1. \A d \in base[r] : disk[d].certs = <<>>
      BY <1>1 DEF GInv, Laid
    <2>2. \A d \in base[r] : Len(disk[d].certs) = 0
      BY <2>1
    <2>3. \A d \in base[r] : Len(disk[d].certs) < Len(layout)
      BY <1>3, <2>2
    <2> QED  BY <1>1, <1>5, <1>6, <2>3 DEF Laid
  <1>11. \A d \in DOMAIN disk' : Marked(d)'
    BY <1>1 DEF GInv, Marked
  <1> QED  BY <1>7, <1>8, <1>9, <1>10, <1>11 DEF GInv

LEMMA GNextInv == GInv /\ [Next]_vars => GInv'
  <1> SUFFICES ASSUME GInv, [Next]_vars
               PROVE  GInv'
    OBVIOUS
  <1>0. Phased /\ temps \subseteq Runs
    BY GPhased DEF GInv, TypeOK
  <1>1. ASSUME NEW r \in Runs, Resolve(r)
        PROVE  GInv'
    <2>1. phase[r] = "resolve" /\ UNCHANGED <<base, temps, issued, order, disk>>
      BY <1>1 DEF Resolve, Untouched
    <2>2. CASE Raise(r, "refused")
      BY <2>1, <2>2, RaiseStep
    <2>3. CASE GoTo(r, "mkdir")
      <3>1. /\ Phased' /\ phase'[r] = "mkdir" /\ UNCHANGED <<count, format>>
            /\ \A q \in Runs \ {r} : phase'[q] = phase[q]
        <4>1. "mkdir" \in Phases
          BY DEF Phases
        <4> QED  BY <1>0, <2>3, <4>1, GoToPhase
      <3>2. Placed(r)' /\ Laid(r)'
        BY <2>1, <3>1 DEF GInv, Placed, Laid, Inside
      <3> QED  BY <1>0, <2>1, <3>1, <3>2, PhaseStep
    <2> QED  BY <1>1, <2>2, <2>3 DEF Resolve
  <1>2. ASSUME NEW r \in Runs, MakeRunDir(r)
        PROVE  GInv'
    BY <1>2, MakeRunDirStep
  <1>3. ASSUME NEW r \in Runs, MakeTemp(r)
        PROVE  GInv'
    <2>1. /\ phase[r] = "mkdtemp" /\ UNCHANGED <<base, issued, order, disk>>
          /\ temps' \subseteq Runs
      BY <1>0, <1>3 DEF MakeTemp
    <2>2. /\ Phased' /\ phase'[r] = "try" /\ UNCHANGED <<count, format>>
          /\ \A q \in Runs \ {r} : phase'[q] = phase[q]
      <3>1. "try" \in Phases /\ GoTo(r, "try")
        BY <1>3 DEF Phases, MakeTemp
      <3> QED  BY <1>0, <3>1, GoToPhase
    <2>3. Placed(r)' /\ Laid(r)'
      BY <2>1, <2>2 DEF GInv, Placed, Laid
    <2> QED  BY <2>1, <2>2, <2>3, PhaseStep
  <1>4. ASSUME NEW r \in Runs, EnterTry(r)
        PROVE  GInv'
    <2>1. phase[r] = "try" /\ UNCHANGED <<base, temps, issued, order, disk>>
      BY <1>4 DEF EnterTry, Untouched
    <2>2. /\ Phased' /\ phase'[r] = "key" /\ UNCHANGED <<count, format>>
          /\ \A q \in Runs \ {r} : phase'[q] = phase[q]
      <3>1. "key" \in Phases /\ GoTo(r, "key")
        BY <1>4 DEF Phases, EnterTry
      <3> QED  BY <1>0, <3>1, GoToPhase
    <2>3. Placed(r)' /\ Laid(r)'
      BY <2>1, <2>2 DEF GInv, Placed, Laid
    <2> QED  BY <1>0, <2>1, <2>2, <2>3, PhaseStep
  <1>5. ASSUME NEW r \in Runs, GenerateKey(r) \/ Sign(r) \/ Arrange(r) \/ Copy(r) \/ WritePin(r)
        PROVE  GInv'
    BY <1>5, GenerateKeyStep, SignStep, ArrangeStep, CopyStep, WritePinStep
  <1>6. ASSUME NEW r \in Runs, CleanUp(r)
        PROVE  GInv'
    <2>1. UNCHANGED <<base, issued, order, disk>> /\ temps' \subseteq Runs
      BY <1>0, <1>6 DEF CleanUp
    <2>2. /\ Phased' /\ phase'[r] = "over" /\ UNCHANGED <<count, format>>
          /\ \A q \in Runs \ {r} : phase'[q] = phase[q]
      <3>1. "over" \in Phases /\ GoTo(r, "over")
        BY <1>6 DEF Phases, CleanUp
      <3> QED  BY <1>0, <3>1, GoToPhase
    <2> QED  BY <2>1, <2>2, StopStep
  <1>7. ASSUME NEW r \in Runs, Stop(r)
        PROVE  GInv'
    BY <1>7, RaiseStep DEF Stop, Untouched
  <1>8. ASSUME NEW r \in Runs, Kill(r)
        PROVE  GInv'
    <2>1. "over" \in Phases /\ Leave(r, "killed", "over")
          /\ UNCHANGED <<base, temps, issued, order, disk>>
      BY <1>8 DEF Phases, Kill, Untouched
    <2> QED  BY <1>0, <2>1, LeavePhase, StopStep
  <1>9. CASE UNCHANGED vars
    BY <1>9 DEF vars, GInv, TypeOK, Asked, Apart, Placed, Laid, Own, Marked
  <1> QED
    BY <1>1, <1>2, <1>3, <1>4, <1>5, <1>6, <1>7, <1>8, <1>9 DEF Next, Step

LEMMA AlwaysGInv == Spec => []GInv
  BY GInitInv, GNextInv, PTL DEF Spec

-----------------------------------------------------------------------------
(* What a run issues                                                       *)

\* The names from the root downwards, and the certificates that bear them.
Size(r) == count[r] + 2

NameAt(r, i) ==
    IF i = 1 THEN RootCA ELSE IF i < Size(r) THEN Intermediate[i-1] ELSE LEAF_DNS_NAME

Upper(i) == IF i = 1 THEN 1 ELSE i - 1

CertAt(r, i) ==
    [subject |-> NameAt(r, i), issuer |-> NameAt(r, Upper(i)),
     key |-> <<r, NameAt(r, i)>>, signer |-> <<r, NameAt(r, Upper(i))>>,
     ca |-> i < Size(r)]

Chain(r) == {CertAt(r, i) : i \in 1..Size(r)}

KeysTo(r, n) == {<<r, NameAt(r, i)>> : i \in 1..n}

\* How far a run has come with it.
Issuing(r) ==
    /\ phase[r] \in {"mkdir", "mkdtemp", "try"} \cup Inside => count[r] >= 0
    /\ phase[r] \in {"resolve", "mkdir", "mkdtemp", "try"} => issued[r] = <<>>
    /\ phase[r] \in {"key", "sign"} => Len(issued[r]) < Size(r)
    /\ phase[r] \in {"arrange", "copy", "pin"} => Len(issued[r]) = Size(r)
    /\ \A i \in 1..Len(issued[r]) : issued[r][i] = CertAt(r, i)

\* The keys on disk are those of the certificates issued, and of the next
\* one while it is being signed.
Keeping(r) ==
    \A d \in base[r] :
        /\ phase[r] \in {"mkdtemp", "try"} => disk[d].keys = {}
        /\ phase[r] \in Inside \ {"sign"} => disk[d].keys = KeysTo(r, Len(issued[r]))
        /\ phase[r] = "sign" => disk[d].keys = KeysTo(r, Len(issued[r]) + 1)

\* The layout lists them all, and the copies follow it.
Copying(r) ==
    /\ phase[r] \in {"copy", "pin"} => Certs(order[r]) = Chain(r)
    /\ \A d \in base[r] :
        /\ phase[r] = "copy" =>
              \A i \in 1..Len(disk[d].certs) : disk[d].certs[i] = order[r][i]
        /\ phase[r] = "pin" => Certs(disk[d].certs) = Chain(r)

\* Only a run that is at its end has left a pin.
Pinned(r) ==
    \A d \in base[r] :
        disk[d].pin # {} =>
            /\ phase[r] \in {"finally", "over"} /\ count[r] >= 0
            /\ disk[d].pin = {CertAt(r, 1)}
            /\ Certs(disk[d].certs) = Chain(r)
            /\ disk[d].keys = KeysTo(r, Size(r))

\* No directory is anybody's.
Owned == \A d \in DOMAIN disk : \E r \in Runs : d \in base[r]

Well(r) == Issuing(r) /\ Keeping(r) /\ Copying(r) /\ Pinned(r)

WInv == GInv /\ Owned /\ \A r \in Runs : Well(r)

-----------------------------------------------------------------------------
(* The chain of a run                                                      *)

\* No two of its certificates have one name.
LEMMA NamesDiffer ==
    ASSUME TypeOK, Asked, NEW r \in Runs, count[r] >= 0,
           NEW i \in 1..Size(r), NEW j \in 1..Size(r)
    PROVE  /\ NameAt(r, i) \in Name
           /\ NameAt(r, i) = NameAt(r, j) => i = j
           /\ NameAt(r, i) = LEAF_DNS_NAME <=> i = Size(r)
  <1> DEFINE m == Len(Intermediate)
  <1>1. /\ count[r] \in Nat /\ m \in Nat /\ count[r] <= m
    <2>1. count[r] \in Int /\ Intermediate \in Seq(Name)
      BY GenerateAssumption DEF TypeOK
    <2> QED  BY <2>1 DEF Asked
  <1>2. /\ \A k \in 1..m : Intermediate[k] # RootCA /\ Intermediate[k] # LEAF_DNS_NAME
        /\ \A k \in 1..m : Intermediate[k] \in Name
        /\ \A k \in 1..m, l \in 1..m : Intermediate[k] = Intermediate[l] => k = l
        /\ RootCA \in Name /\ LEAF_DNS_NAME \in Name
        /\ RootCA # LEAF_DNS_NAME
    <2>1. /\ \A k \in 1..m : Intermediate[k] \notin {RootCA, LEAF_DNS_NAME}
          /\ \A k \in 1..m : \A l \in 1..k-1 : Intermediate[k] # Intermediate[l]
          /\ \A k \in 1..m : Intermediate[k] \in Name
          /\ RootCA \in Name /\ LEAF_DNS_NAME \in Name
      BY GenerateAssumption
    <2>2. \A k \in 1..m, l \in 1..m : k = l \/ l \in 1..k-1 \/ k \in 1..l-1
      BY <1>1
    <2>3. RootCA # LEAF_DNS_NAME
      BY DEF RootCA, LEAF_DNS_NAME
    <2> QED  BY <2>1, <2>2, <2>3
  <1> HIDE DEF m
  <1>3. Size(r) = count[r] + 2 /\ Size(r) \in Nat /\ Size(r) >= 2 /\ Size(r) - 2 <= m
    BY <1>1 DEF Size
  <1>4. \A k \in 1..Size(r) :
           \/ k = 1 /\ NameAt(r, k) = RootCA
           \/ k = Size(r) /\ k # 1 /\ NameAt(r, k) = LEAF_DNS_NAME
           \/ k # 1 /\ k # Size(r) /\ k - 1 \in 1..m /\ NameAt(r, k) = Intermediate[k-1]
    BY <1>1, <1>3 DEF NameAt
  <1> QED  BY <1>2, <1>3, <1>4

\* What its certificates are.
LEMMA CertFacts ==
    ASSUME TypeOK, Asked, NEW r \in Runs, count[r] >= 0, NEW i \in 1..Size(r)
    PROVE  /\ Size(r) \in Nat /\ Size(r) >= 2
           /\ Upper(i) \in 1..Size(r) /\ Upper(i) < Size(r)
           /\ CertAt(r, i) \in Cert /\ Parses(CertAt(r, i))
           /\ Subject[CertAt(r, i)] = NameAt(r, i)
           /\ Issuer[CertAt(r, i)] = NameAt(r, Upper(i))
           /\ SubjectKey[CertAt(r, i)] = <<r, NameAt(r, i)>>
           /\ SignerKey[CertAt(r, i)] = <<r, NameAt(r, Upper(i))>>
           /\ CertAt(r, i).key = <<r, NameAt(r, i)>>
           /\ is_ca(CertAt(r, i)) <=> i < Size(r)
  <1>1. Size(r) \in Nat /\ Size(r) >= 2
    BY DEF Size, TypeOK
  <1>2. Upper(i) \in 1..Size(r) /\ Upper(i) < Size(r)
    BY <1>1 DEF Upper
  <1> DEFINE c == CertAt(r, i)
  <1>3. c \in Cert
    <2>1. /\ NameAt(r, i) \in Name /\ NameAt(r, Upper(i)) \in Name
      BY <1>2, NamesDiffer
    <2>2. /\ <<r, NameAt(r, i)>> \in Key /\ <<r, NameAt(r, Upper(i))>> \in Key
      BY <2>1, GenerateAssumption
    <2>3. (i < Size(r)) \in BOOLEAN
      OBVIOUS
    <2>4. Cert = [subject : Name, issuer : Name, key : Key, signer : Key, ca : BOOLEAN]
      BY GenerateAssumption
    <2> QED  BY <2>1, <2>2, <2>3, <2>4 DEF CertAt
  <1>4. /\ c.subject = NameAt(r, i) /\ c.issuer = NameAt(r, Upper(i))
        /\ c.key = <<r, NameAt(r, i)>> /\ c.signer = <<r, NameAt(r, Upper(i))>>
        /\ c.ca <=> i < Size(r)
    BY DEF CertAt
  <1> HIDE DEF c
  <1>5. /\ Subject[c] = c.subject /\ Issuer[c] = c.issuer
        /\ SubjectKey[c] = c.key /\ SignerKey[c] = c.signer
        /\ Parses(c) /\ (is_ca(c) <=> c.ca)
    BY <1>3, GenerateAssumption DEF Parses, is_ca
  <1> QED  BY <1>1, <1>2, <1>3, <1>4, <1>5 DEF c

\* From the leaf upwards: the only way through them.
Up(r) == [k \in 1..Size(r) |-> CertAt(r, Size(r) + 1 - k)]

LEMMA UpFacts ==
    ASSUME TypeOK, Asked, NEW r \in Runs, count[r] >= 0
    PROVE  /\ Up(r) \in Seq(Cert) /\ Len(Up(r)) = Size(r)
           /\ Size(r) \in Nat /\ Size(r) >= 2
           /\ \A k \in 1..Size(r) : Up(r)[k] = CertAt(r, Size(r) + 1 - k)
           /\ Up(r)[1] = CertAt(r, Size(r)) /\ Last(Up(r)) = CertAt(r, 1)
           /\ Certs(Up(r)) = Chain(r)
  <1> DEFINE n == Size(r)
  <1>1. n \in Nat /\ n >= 2
    BY DEF Size, TypeOK
  <1>2. \A k \in 1..n : n + 1 - k \in 1..n /\ k = n + 1 - (n + 1 - k)
    BY <1>1
  <1>3. \A k \in 1..n : CertAt(r, k) \in Cert
    BY CertFacts
  <1> HIDE DEF n
  <1>4. Up(r) = [k \in 1..n |-> CertAt(r, n + 1 - k)]
    BY DEF Up, n
  <1>5. Up(r) \in [1..n -> Cert]
    BY <1>2, <1>3, <1>4
  <1>6. Up(r) \in Seq(Cert) /\ Len(Up(r)) = n
    BY <1>1, <1>5
  <1>7. \A k \in 1..n : Up(r)[k] = CertAt(r, n + 1 - k)
    BY <1>4
  <1>8. Certs(Up(r)) = Chain(r)
    <2>1. Certs(Up(r)) = {Up(r)[k] : k \in 1..n} /\ Chain(r) = {CertAt(r, k) : k \in 1..n}
      BY <1>6 DEF Certs, Chain, n
    <2>2. \A k \in 1..n : Up(r)[n + 1 - k] = CertAt(r, k)
      BY <1>2, <1>7
    <2> QED  BY <1>2, <1>7, <2>1, <2>2
  <1>9. Up(r)[1] = CertAt(r, n) /\ Last(Up(r)) = CertAt(r, 1)
    <2>1. 1 \in 1..n /\ n \in 1..n /\ n + 1 - 1 = n /\ n + 1 - n = 1
      BY <1>1
    <2> QED  BY <1>6, <1>7, <2>1 DEF Last
  <1> QED  BY <1>1, <1>6, <1>7, <1>8, <1>9 DEF n

\* In a bundle of these certificates, in whatever order, each has the one
\* above it for a parent, and the last issued is the leaf.
LEMMA ChainRelations ==
    ASSUME TypeOK, Asked, NEW r \in Runs, count[r] >= 0,
           NEW b \in Seq(Cert), Certs(b) = Chain(r), NEW i \in 1..Size(r)
    PROVE  /\ \A j \in 1..Size(r) :
                 /\ CertAt(r, i) = CertAt(r, j) => i = j
                 /\ IsParent(CertAt(r, i), CertAt(r, j)) <=> j = Upper(i)
           /\ IsLeaf(b, CertAt(r, i)) <=> i = Size(r)
  <1> DEFINE n == Size(r)
             C(k) == CertAt(r, k)
  <1>1. \A k \in 1..n :
           /\ Upper(k) \in 1..n /\ Upper(k) < n /\ Parses(C(k)) /\ (is_ca(C(k)) <=> k < n)
           /\ Subject[C(k)] = NameAt(r, k) /\ Issuer[C(k)] = NameAt(r, Upper(k))
    BY CertFacts
  <1>2. \A k, l \in 1..n : NameAt(r, k) = NameAt(r, l) => k = l
    BY NamesDiffer
  <1>3. n \in Nat /\ n >= 2
    BY UpFacts
  <1>4. Certs(b) = {C(k) : k \in 1..n}
    BY DEF Chain
  <1>5. i \in 1..n
    OBVIOUS
  <1> HIDE DEF n, C
  <1>6. ASSUME NEW j \in 1..n
        PROVE  /\ C(i) = C(j) => i = j
               /\ IsParent(C(i), C(j)) <=> j = Upper(i)
    BY <1>1, <1>2, <1>5 DEF IsParent
  <1>7. IsLeaf(b, C(i)) <=> i = n
    <2>1. IssuersOf(b) = {NameAt(r, Upper(k)) : k \in 1..n}
      BY <1>1, <1>4 DEF IssuersOf
    <2>2. NameAt(r, n) \notin IssuersOf(b)
      <3>1. n \in 1..n
        BY <1>3
      <3>2. \A k \in 1..n : Upper(k) # n
        BY <1>1, <1>3
      <3> QED  BY <1>1, <1>2, <2>1, <3>1, <3>2
    <2>3. i < n <=> i # n
      BY <1>3, <1>5
    <2> QED  BY <1>1, <1>5, <2>2, <2>3 DEF IsLeaf
  <1> QED  BY <1>6, <1>7 DEF n, C

LEMMA UpIsPath ==
    ASSUME TypeOK, Asked, NEW r \in Runs, count[r] >= 0,
           NEW b \in Seq(Cert), Certs(b) = Chain(r)
    PROVE  IsPath(b, Up(r))
  <1> DEFINE n == Size(r)
             p == Up(r)
  <1>1. /\ p \in Seq(Cert) /\ Len(p) = n /\ n \in Nat /\ n >= 2
        /\ \A k \in 1..n : p[k] = CertAt(r, n + 1 - k)
        /\ p[1] = CertAt(r, n) /\ Last(p) = CertAt(r, 1) /\ Certs(p) = Chain(r)
    BY UpFacts
  <1>2. \A i, j \in 1..n :
           /\ CertAt(r, i) = CertAt(r, j) => i = j
           /\ IsParent(CertAt(r, i), CertAt(r, j)) <=> j = Upper(i)
    BY ChainRelations
  <1>3. IsLeaf(b, CertAt(r, n))
    BY <1>1, ChainRelations
  <1> HIDE DEF n, p
  <1>4. p # <<>>
    BY <1>1, EmptySeq
  <1>5. \A k \in 1..n-1 : IsParent(p[k], p[k+1])
    <2> TAKE k \in 1..n-1
    <2>1. /\ k \in 1..n /\ k + 1 \in 1..n /\ n + 1 - k \in 1..n /\ n + 1 - (k + 1) \in 1..n
          /\ n + 1 - (k + 1) = Upper(n + 1 - k)
      BY <1>1 DEF Upper
    <2> QED  BY <1>1, <1>2, <2>1
  <1>6. NoRepeats(p)
    <2> SUFFICES ASSUME NEW i \in 1..n, NEW j \in 1..n, p[i] = p[j]
                 PROVE  i = j
      BY <1>1 DEF NoRepeats
    <2>1. n + 1 - i \in 1..n /\ n + 1 - j \in 1..n
      BY <1>1
    <2>2. n + 1 - i = n + 1 - j
      BY <1>1, <1>2, <2>1
    <2> QED  BY <1>1, <2>2
  <1> QED  BY <1>1, <1>3, <1>4, <1>5, <1>6 DEF IsPath, IsClimb, n, p

LEMMA PathIsUp ==
    ASSUME TypeOK, Asked, NEW r \in Runs, count[r] >= 0,
           NEW b \in Seq(Cert), Certs(b) = Chain(r), NEW q \in Seq(Cert), IsPath(b, q)
    PROVE  q = Up(r)
  <1> DEFINE n == Size(r)
             C(k) == CertAt(r, k)
  <1>1. /\ Len(Up(r)) = n /\ Up(r) \in Seq(Cert) /\ n \in Nat /\ n >= 2
        /\ \A k \in 1..n : Up(r)[k] = C(n + 1 - k)
    BY UpFacts
  <1>2. \A i, j \in 1..n : IsParent(C(i), C(j)) <=> j = Upper(i)
    BY ChainRelations
  <1>3. \A i \in 1..n : IsLeaf(b, C(i)) => i = n
    BY ChainRelations
  <1>4. \A i, j \in 1..n : C(i) = C(j) => i = j
    BY ChainRelations
  <1>5. Certs(b) = {C(k) : k \in 1..n}
    BY DEF Chain
  <1> HIDE DEF n, C
  <1>6. Len(q) \in Nat /\ Len(q) >= 1
    BY ClimbFacts DEF IsPath
  <1>7. \A k \in 1..Len(q) : \E i \in 1..n : q[k] = C(i)
    BY <1>5 DEF IsPath, IsClimb, Certs
  <1>8. /\ \A k \in 1..Len(q)-1 : IsParent(q[k], q[k+1])
        /\ IsLeaf(b, q[1])
        /\ \A i, j \in 1..Len(q) : q[i] = q[j] => i = j
        /\ \A c \in Certs(b) : IsParent(q[Len(q)], c) => \E k \in 1..Len(q) : c = q[k]
    BY DEF IsPath, IsClimb, NoRepeats, Last, Certs
  <1>9. \A k \in 1..Len(q) : k <= n /\ q[k] = C(n + 1 - k)
    <2> DEFINE Off == {k \in 1..Len(q) : ~(k <= n /\ q[k] = C(n + 1 - k))}
    <2> SUFFICES ASSUME Off # {}
                 PROVE  FALSE
      OBVIOUS
    <2>1. PICK m \in Off : \A k \in Off : m <= k
      <3>1. Off \in SUBSET Nat
        OBVIOUS
      <3> HIDE DEF Off
      <3> QED  BY <3>1, Least
    <2>2. m \in 1..Len(q) /\ ~(m <= n /\ q[m] = C(n + 1 - m))
      OBVIOUS
    <2>3. m # 1
      <3>1. 1 \in 1..Len(q)
        BY <1>6
      <3>2. q[1] = C(n) /\ 1 <= n /\ n + 1 - 1 = n
        BY <1>1, <1>3, <1>7, <1>8, <3>1
      <3> QED  BY <2>2, <3>2
    <2>4. m - 1 \in 1..Len(q)-1 /\ m - 1 \in 1..Len(q) /\ (m - 1) + 1 = m
      BY <1>6, <2>2, <2>3
    <2>5. m - 1 <= n /\ q[m-1] = C(n + 1 - (m - 1))
      <3>1. m - 1 \notin Off
        BY <2>1, <2>4
      <3> QED  BY <2>4, <3>1
    <2> HIDE DEF Off
    <2> DEFINE a == n + 1 - (m - 1)
    <2>6. a \in 1..n
      BY <1>1, <1>6, <2>2, <2>3, <2>5
    <2>7. PICK i \in 1..n : q[m] = C(i)
      BY <1>7, <2>2
    <2>8. i = Upper(a)
      <3>1. IsParent(q[m-1], q[m])
        BY <1>8, <2>4
      <3> QED  BY <1>2, <2>5, <2>6, <2>7, <3>1
    <2>9. CASE a = 1
      <3>1. q[m] = q[m-1]
        BY <2>5, <2>7, <2>8, <2>9 DEF Upper
      <3> QED  BY <1>8, <2>2, <2>4, <3>1
    <2>10. CASE a # 1
      <3>1. i = n + 1 - m /\ m <= n
        BY <1>1, <2>2, <2>6, <2>8, <2>10 DEF Upper
      <3> QED  BY <2>2, <2>7, <3>1
    <2> QED  BY <2>9, <2>10
  <1>10. Len(q) = n
    <2> DEFINE l == Len(q)
    <2>1. l \in Nat /\ l >= 1 /\ l <= n /\ q[l] = C(n + 1 - l)
      BY <1>6, <1>9
    <2> SUFFICES ASSUME l # n
                 PROVE  FALSE
      OBVIOUS
    <2> DEFINE a == n + 1 - l
    <2>2. a \in 2..n /\ a \in 1..n /\ a - 1 \in 1..n /\ Upper(a) = a - 1
      BY <1>1, <2>1 DEF Upper
    <2>3. IsParent(q[l], C(a - 1)) /\ C(a - 1) \in Certs(b)
      BY <1>2, <1>5, <2>1, <2>2
    <2>4. PICK k \in 1..l : C(a - 1) = q[k]
      BY <1>8, <2>3
    <2>5. q[k] = C(n + 1 - k) /\ n + 1 - k \in 1..n
      BY <1>1, <1>9, <2>1, <2>4
    <2>6. a - 1 = n + 1 - k
      BY <1>4, <2>2, <2>4, <2>5
    <2> QED  BY <1>1, <2>1, <2>6
  <1>11. \A k \in 1..n : q[k] = Up(r)[k]
    BY <1>1, <1>9, <1>10
  <1> QED  BY <1>1, <1>10, <1>11, SeqEqual

LEMMA UpIsSound ==
    ASSUME TypeOK, Asked, NEW r \in Runs, count[r] >= 0
    PROVE  /\ Sound(Up(r), {})
           /\ find_root(Up(r)) = {CertAt(r, 1)}
  <1> DEFINE n == Size(r)
             p == Up(r)
  <1>1. /\ p \in Seq(Cert) /\ Len(p) = n /\ n \in Nat /\ n >= 2
        /\ \A k \in 1..n : p[k] = CertAt(r, n + 1 - k)
        /\ Last(p) = CertAt(r, 1)
    BY UpFacts
  <1>2. \A k \in 1..n :
           /\ Upper(k) \in 1..n
           /\ Subject[CertAt(r, k)] = NameAt(r, k)
           /\ Issuer[CertAt(r, k)] = NameAt(r, Upper(k))
    BY CertFacts
  <1>a. \A k \in 1..n :
           /\ SubjectKey[CertAt(r, k)] = <<r, NameAt(r, k)>>
           /\ SignerKey[CertAt(r, k)] = <<r, NameAt(r, Upper(k))>>
    BY CertFacts
  <1>b. \A k \in 1..n :
           CertAt(r, k) \in Cert /\ Parses(CertAt(r, k)) /\ (is_ca(CertAt(r, k)) <=> k < n)
    BY CertFacts
  <1>3. \A k, l \in 1..n : NameAt(r, k) = NameAt(r, l) => k = l
    BY NamesDiffer
  <1> HIDE DEF n, p
  <1>4. \A k \in 1..n : n + 1 - k \in 1..n
    BY <1>1
  <1>c. ASSUME NEW k \in 1..n
        PROVE  /\ Subject[p[k]] = NameAt(r, n + 1 - k)
               /\ Issuer[p[k]] = NameAt(r, Upper(n + 1 - k))
    <2> DEFINE i == n + 1 - k
    <2>1. i \in 1..n /\ p[k] = CertAt(r, i)
      BY <1>1, <1>4
    <2> HIDE DEF i
    <2>2. Subject[p[k]] = NameAt(r, i) /\ Issuer[p[k]] = NameAt(r, Upper(i))
      BY <1>2, <2>1
    <2> QED  BY <2>2 DEF i
  <1>5. DistinctNames(p)
    <2> SUFFICES ASSUME NEW i \in 1..n, NEW j \in 1..n, Subject[p[i]] = Subject[p[j]]
                 PROVE  i = j
      BY <1>1 DEF DistinctNames
    <2>1. NameAt(r, n + 1 - i) = NameAt(r, n + 1 - j)
      BY <1>c
    <2>2. n + 1 - i = n + 1 - j
      BY <1>3, <1>4, <2>1
    <2> QED  BY <1>1, <2>2
  <1>6. \A k \in 1..n-1 : Signed(p[k], p[k+1])
    <2> TAKE k \in 1..n-1
    <2>1. /\ k \in 1..n /\ k + 1 \in 1..n /\ n + 1 - (k + 1) = Upper(n + 1 - k)
      BY <1>1 DEF Upper
    <2> DEFINE i == n + 1 - k
    <2>2. /\ i \in 1..n /\ Upper(i) \in 1..n
          /\ p[k] = CertAt(r, i) /\ p[k+1] = CertAt(r, Upper(i))
      BY <1>1, <1>2, <1>4, <2>1
    <2> HIDE DEF i
    <2>3. Subject[p[k+1]] = Issuer[p[k]]
      BY <1>2, <2>2
    <2>4. SubjectKey[p[k+1]] = SignerKey[p[k]]
      BY <1>a, <2>2
    <2> QED  BY <2>3, <2>4 DEF Signed
  <1>7. 1 \in 1..n /\ Upper(1) = 1
    BY <1>1 DEF Upper
  <1>8. SignsItself(Last(p))
    <2>1. Subject[CertAt(r, 1)] = Issuer[CertAt(r, 1)]
      BY <1>2, <1>7
    <2>2. SubjectKey[CertAt(r, 1)] = SignerKey[CertAt(r, 1)]
      BY <1>a, <1>7
    <2> QED  BY <1>1, <2>1, <2>2 DEF SignsItself
  <1>9. Certs(p) \subseteq Identified \ (Unfit \cup {})
    <2>1. \A k \in 1..n : p[k] \in Cert
      BY <1>1, <1>4, <1>b
    <2>2. Identified = Cert /\ Unfit = {}
      BY GenerateAssumption
    <2> QED  BY <1>1, <2>1, <2>2 DEF Certs
  <1>10. Sound(p, {})
    BY <1>1, <1>5, <1>6, <1>8, <1>9 DEF Sound
  <1>11. is_ca(Last(p)) /\ is_self_signed(Last(p))
    BY <1>1, <1>2, <1>7, <1>b DEF is_self_signed
  <1>12. SingleRoot(p)
    <2>1. ASSUME NEW i \in 1..n, is_self_signed(p[i])
          PROVE  i = n
      <3>1. NameAt(r, n + 1 - i) = NameAt(r, Upper(n + 1 - i))
        BY <1>c, <2>1 DEF is_self_signed
      <3>2. n + 1 - i = Upper(n + 1 - i)
        BY <1>2, <1>3, <1>4, <3>1
      <3> QED  BY <1>1, <3>2 DEF Upper
    <2> QED  BY <1>1, <2>1 DEF SingleRoot
  <1>13. find_root(p) = {Last(p)}
    BY <1>1, <1>11, <1>12, RootIsLast
  <1> QED  BY <1>1, <1>10, <1>13 DEF p

-----------------------------------------------------------------------------
(* Its steps                                                               *)

\* The chain a run issues depends on its count alone.
LEMMA ChainKeeps ==
    ASSUME UNCHANGED count, NEW r \in Runs
    PROVE  /\ Size(r)' = Size(r) /\ Chain(r)' = Chain(r)
           /\ \A i \in Nat : CertAt(r, i)' = CertAt(r, i)
           /\ \A n \in Nat : KeysTo(r, n)' = KeysTo(r, n)
  BY DEF Size, Chain, CertAt, NameAt, Upper, KeysTo

\* A run on which nothing is done stays as it was.
LEMMA WellKeeps ==
    ASSUME GInv, NEW q \in Runs, Well(q), UNCHANGED count,
           phase'[q] = phase[q], issued'[q] = issued[q], order'[q] = order[q],
           base'[q] = base[q], \A d \in base[q] : disk'[d] = disk[d]
    PROVE  Well(q)'
  <1>1. /\ Size(q)' = Size(q) /\ Chain(q)' = Chain(q)
        /\ \A i \in Nat : CertAt(q, i)' = CertAt(q, i)
        /\ \A n \in Nat : KeysTo(q, n)' = KeysTo(q, n)
    BY ChainKeeps
  <1>2. Len(issued[q]) \in Nat /\ Size(q) \in Int
    BY DEF GInv, TypeOK, Size
  <1>3. count'[q] = count[q]
    OBVIOUS
  <1>4. Issuing(q)'
    BY <1>1, <1>2, <1>3 DEF Well, Issuing
  <1>5. Keeping(q)'
    <2>1. KeysTo(q, Len(issued[q]))' = KeysTo(q, Len(issued[q]))
      BY <1>2, ChainKeeps DEF KeysTo, NameAt, Size
    <2>2. KeysTo(q, Len(issued[q]) + 1)' = KeysTo(q, Len(issued[q]) + 1)
      BY <1>2, ChainKeeps DEF KeysTo, NameAt, Size
    <2> QED  BY <2>1, <2>2 DEF Well, Keeping
  <1>6. Copying(q)'
    BY <1>1 DEF Well, Copying
  <1>7. Pinned(q)'
    <2>1. KeysTo(q, Size(q))' = KeysTo(q, Size(q)) /\ CertAt(q, 1)' = CertAt(q, 1)
      BY DEF KeysTo, NameAt, Size, CertAt, Upper
    <2> QED  BY <1>1, <1>3, <2>1 DEF Well, Pinned
  <1> QED  BY <1>4, <1>5, <1>6, <1>7 DEF Well

\* One that stops leaves behind what it has, pinned only if it is whole.
LEMMA WellStops ==
    ASSUME GInv, NEW r \in Runs, Well(r), UNCHANGED <<count, base, issued, order, disk>>,
           phase'[r] \in {"finally", "over"}
    PROVE  Well(r)'
  <1>1. /\ Chain(r)' = Chain(r) /\ \A i \in Nat : CertAt(r, i)' = CertAt(r, i)
    BY ChainKeeps
  <1>2. KeysTo(r, Size(r))' = KeysTo(r, Size(r)) /\ CertAt(r, 1)' = CertAt(r, 1)
    BY DEF KeysTo, NameAt, Size, CertAt, Upper
  <1>3. Len(issued[r]) \in Nat
    BY DEF GInv, TypeOK
  <1>4. Issuing(r)'
    BY <1>1, <1>3 DEF Well, Issuing, Inside
  <1>5. Keeping(r)' /\ Copying(r)'
    BY DEF Keeping, Copying, Inside
  <1>6. Pinned(r)'
    BY <1>1, <1>2 DEF Well, Pinned
  <1> QED  BY <1>4, <1>5, <1>6 DEF Well

LEMMA WellRaises ==
    ASSUME GInv, NEW r \in Runs, NEW how \in {"refused", "failed", "done"}, Raise(r, how),
           Well(r), UNCHANGED <<base, issued, order, disk>>
    PROVE  Well(r)'
  <1>1. phase'[r] \in {"finally", "over"} /\ UNCHANGED count
    BY GPhased, RaisePhase DEF GInv
  <1> QED  BY <1>1, WellStops

\* No run has a pin before its end.
LEMMA NoPinYet ==
    ASSUME NEW r \in Runs, Well(r), NEW d \in base[r], phase[r] \notin {"finally", "over"}
    PROVE  disk[d].pin = {}
  BY DEF Well, Pinned

LEMMA ChangeFacts ==
    ASSUME GInv, NEW r \in Runs, NEW contents \in Contents, NEW d \in DOMAIN disk,
           base[r] = {d}, Change(r, contents)
    PROVE  /\ DOMAIN disk' = DOMAIN disk /\ disk'[d] = contents
           /\ \A q \in Runs \ {r} : \A e \in base[q] : disk'[e] = disk[e]
  <1>1. /\ DOMAIN disk' = DOMAIN disk /\ disk'[d] = contents
        /\ \A e \in DOMAIN disk \ {d} : disk'[e] = disk[e]
    BY DEF Change
  <1>2. \A q \in Runs \ {r} : base[q] \subseteq DOMAIN disk \ {d}
    BY DEF GInv, Apart, Placed
  <1> QED  BY <1>1, <1>2

\* The name that is asked for is the next of the chain's.
LEMMA NextName ==
    ASSUME GInv, NEW r \in Runs, count[r] >= 0, Len(issued[r]) < Size(r)
    PROVE  /\ CommonName(r) = NameAt(r, Len(issued[r]) + 1)
           /\ Len(issued[r]) \in Nat /\ Len(issued[r]) + 1 \in 1..Size(r)
  <1>1. Len(issued[r]) \in Nat /\ count[r] \in Int
    BY DEF GInv, TypeOK
  <1> QED  BY <1>1 DEF CommonName, NameAt, Size

LEMMA KeysGrow ==
    ASSUME NEW r \in Runs, NEW n \in Nat
    PROVE  KeysTo(r, n + 1) = KeysTo(r, n) \cup {<<r, NameAt(r, n + 1)>>}
  <1>1. \A i : i \in 1..n+1 <=> i \in 1..n \/ i = n + 1
    OBVIOUS
  <1> QED  BY <1>1 DEF KeysTo

\* Steps that write nothing.
LEMMA PassWell ==
    ASSUME GInv, NEW r \in Runs, Well(r),
           Resolve(r) \/ MakeTemp(r) \/ EnterTry(r) \/ CleanUp(r) \/ Stop(r) \/ Kill(r)
    PROVE  Well(r)'
  <1>0. Phased /\ Size(r) \in Int /\ Size(r) = count[r] + 2 /\ count[r] \in Int
    BY GPhased DEF GInv, TypeOK, Size
  <1>1. CASE Resolve(r)
    <2>1. UNCHANGED <<base, issued, order, disk>> /\ phase[r] = "resolve"
      BY <1>1 DEF Resolve, Untouched
    <2>2. CASE count[r] < 0
      BY <1>1, <2>1, <2>2, WellRaises DEF Resolve
    <2>3. CASE ~(count[r] < 0)
      <3>1. GoTo(r, "mkdir") /\ "mkdir" \in Phases
        BY <1>1, <2>3 DEF Resolve, Phases
      <3>2. phase'[r] = "mkdir" /\ UNCHANGED count
        BY <1>0, <3>1, GoToPhase
      <3>3. base[r] = {} /\ issued[r] = <<>>
        BY <2>1 DEF GInv, Placed, Well, Issuing
      <3> QED  BY <1>0, <2>1, <2>3, <3>2, <3>3 DEF Well, Issuing, Keeping, Copying, Pinned, Inside
    <2> QED  BY <2>2, <2>3
  <1>2. CASE MakeTemp(r)
    <2>1. /\ UNCHANGED <<base, issued, order, disk>> /\ phase[r] = "mkdtemp"
          /\ GoTo(r, "try") /\ "try" \in Phases
      BY <1>2 DEF MakeTemp, Phases
    <2>2. phase'[r] = "try" /\ UNCHANGED count
      BY <1>0, <2>1, GoToPhase
    <2>3. /\ issued[r] = <<>> /\ count[r] >= 0 /\ \A d \in base[r] : disk[d].keys = {}
          /\ \A d \in base[r] : disk[d].pin = {}
      BY <2>1, NoPinYet DEF Well, Issuing, Keeping
    <2> QED  BY <2>1, <2>2, <2>3 DEF Well, Issuing, Keeping, Copying, Pinned, Inside
  <1>3. CASE EnterTry(r)
    <2>1. /\ UNCHANGED <<base, issued, order, disk>> /\ phase[r] = "try"
          /\ GoTo(r, "key") /\ "key" \in Phases
      BY <1>3 DEF EnterTry, Untouched, Phases
    <2>2. phase'[r] = "key" /\ UNCHANGED count
      BY <1>0, <2>1, GoToPhase
    <2>3. /\ issued[r] = <<>> /\ count[r] >= 0 /\ \A d \in base[r] : disk[d].keys = {}
          /\ \A d \in base[r] : disk[d].pin = {}
      BY <2>1, NoPinYet DEF Well, Issuing, Keeping
    <2>4. Len(issued'[r]) = 0 /\ count'[r] = count[r] /\ Size(r)' = Size(r)
      BY <2>1, <2>2, <2>3, ChainKeeps
    <2>5. KeysTo(r, Len(issued[r]))' = {}
      BY <2>4 DEF KeysTo
    <2>6. Issuing(r)'
      BY <1>0, <2>1, <2>2, <2>3, <2>4 DEF Issuing, Inside
    <2>7. Keeping(r)' /\ Copying(r)' /\ Pinned(r)'
      BY <2>1, <2>2, <2>3, <2>5 DEF Keeping, Copying, Pinned
    <2> QED  BY <2>6, <2>7 DEF Well
  <1>4. CASE CleanUp(r)
    <2>1. UNCHANGED <<base, issued, order, disk>> /\ GoTo(r, "over") /\ "over" \in Phases
      BY <1>4 DEF CleanUp, Phases
    <2>2. phase'[r] = "over" /\ UNCHANGED count
      BY <1>0, <2>1, GoToPhase
    <2> QED  BY <2>1, <2>2, WellStops
  <1>5. CASE Stop(r)
    BY <1>5, WellRaises DEF Stop, Untouched
  <1>6. CASE Kill(r)
    <2>1. /\ UNCHANGED <<base, issued, order, disk>> /\ Leave(r, "killed", "over")
          /\ "over" \in Phases
      BY <1>6 DEF Kill, Untouched, Phases
    <2>2. phase'[r] = "over" /\ UNCHANGED count
      BY <1>0, <2>1, LeavePhase
    <2> QED  BY <2>1, <2>2, WellStops
  <1> QED  BY <1>1, <1>2, <1>3, <1>4, <1>5, <1>6

LEMMA MakeRunDirWell ==
    ASSUME GInv, NEW r \in Runs, Well(r), MakeRunDir(r)
    PROVE  Well(r)'
  <1>1. PICK d \in Stamps :
           IF d \in DOMAIN disk THEN Raise(r, "failed") /\ UNCHANGED <<base, disk>>
           ELSE /\ GoTo(r, "mkdtemp")
                /\ base' = [base EXCEPT ![r] = {d}]
                /\ disk' = [e \in DOMAIN disk \cup {d} |->
                              IF e = d THEN [keys |-> {}, certs |-> <<>>, pin |-> {}] ELSE disk[e]]
    BY DEF MakeRunDir
  <1>2. phase[r] = "mkdir" /\ UNCHANGED <<temps, issued, order>>
    BY DEF MakeRunDir
  <1>3. CASE d \in DOMAIN disk
    BY <1>1, <1>2, <1>3, WellRaises
  <1>4. CASE d \notin DOMAIN disk
    <2>1. disk'[d].keys = {} /\ disk'[d].pin = {}
      BY <1>1, <1>4
    <2>2. base'[r] = {d}
      BY <1>1, <1>4 DEF GInv, TypeOK
    <2>3. phase'[r] = "mkdtemp" /\ UNCHANGED count
      <3>1. "mkdtemp" \in Phases
        BY DEF Phases
      <3> QED  BY <1>1, <1>4, <3>1, GPhased, GoToPhase DEF GInv
    <2>4. issued[r] = <<>> /\ count[r] >= 0
      BY <1>2 DEF Well, Issuing
    <2> QED  BY <1>2, <2>1, <2>2, <2>3, <2>4 DEF Well, Issuing, Keeping, Copying, Pinned, Inside
  <1> QED  BY <1>3, <1>4

LEMMA GenerateKeyWell ==
    ASSUME GInv, NEW r \in Runs, Well(r), GenerateKey(r)
    PROVE  Well(r)'
  <1>1. phase[r] = "key" /\ UNCHANGED <<base, temps, issued, order>> /\ base[r] # {}
    BY DEF GenerateKey, GInv, Placed, Inside
  <1>2. PICK d \in DOMAIN disk : base[r] = {d} /\ Here(r) = disk[d] /\ disk[d] \in Contents
    BY <1>1, HereIs
  <1> DEFINE n == Len(issued[r])
             key == <<r, CommonName(r)>>
             contents == [Here(r) EXCEPT !.keys = @ \cup {key}]
  <1>3. count[r] >= 0 /\ n < Size(r)
    BY <1>1 DEF Well, Issuing, Inside
  <1>4. key = <<r, NameAt(r, n + 1)>> /\ n \in Nat /\ key \in Key
    BY <1>3, NextName, NameIsName, GenerateAssumption
  <1>5. Change(r, contents)
    BY DEF GenerateKey
  <1> HIDE DEF key
  <1>6. /\ contents \in Contents /\ contents.keys = disk[d].keys \cup {key}
        /\ contents.pin = disk[d].pin
    BY <1>2, <1>4 DEF Contents
  <1> HIDE DEF contents
  <1>7. disk'[d] = contents
    BY <1>2, <1>5, <1>6, ChangeFacts
  <1>8. phase'[r] = "sign" /\ UNCHANGED count
    <2>1. "sign" \in Phases /\ GoTo(r, "sign")
      BY DEF Phases, GenerateKey
    <2> QED  BY <2>1, GPhased, GoToPhase DEF GInv
  <1>9. disk[d].keys = KeysTo(r, n) /\ disk[d].pin = {}
    BY <1>1, <1>2, NoPinYet DEF Well, Keeping, Inside
  <1>10. disk'[d].keys = KeysTo(r, n + 1) /\ disk'[d].pin = {}
    BY <1>4, <1>6, <1>7, <1>9, KeysGrow
  <1>11. /\ Size(r)' = Size(r) /\ KeysTo(r, n + 1)' = KeysTo(r, n + 1)
         /\ \A i \in Nat : CertAt(r, i)' = CertAt(r, i)
    <2>1. KeysTo(r, n + 1)' = KeysTo(r, n + 1)
      BY <1>1, <1>8 DEF KeysTo, NameAt, Size
    <2> QED  BY <1>8, <2>1, ChainKeeps
  <1>12. Issuing(r)'
    <2>1. \A i \in 1..n : i \in Nat /\ issued[r][i] = CertAt(r, i)
      BY <1>4 DEF Well, Issuing
    <2> QED  BY <1>1, <1>3, <1>8, <1>11, <2>1 DEF Issuing, Inside
  <1>13. Keeping(r)' /\ Copying(r)' /\ Pinned(r)'
    BY <1>1, <1>2, <1>8, <1>10, <1>11 DEF Keeping, Copying, Pinned
  <1> QED  BY <1>12, <1>13 DEF Well

\* The next certificate is the next of the chain, and the leaf the last.
LEMMA SignWell ==
    ASSUME GInv, NEW r \in Runs, Well(r), Sign(r)
    PROVE  Well(r)'
  <1> DEFINE n == Len(issued[r])
             name == CommonName(r)
             cert == [subject |-> name,
                      issuer  |-> IF issued[r] = <<>> THEN name ELSE Last(issued[r]).subject,
                      key     |-> <<r, name>>,
                      signer  |-> IssuerKey(r),
                      ca      |-> name # LEAF_DNS_NAME]
             next == IF name = LEAF_DNS_NAME THEN "arrange" ELSE "key"
  <1>1. /\ phase[r] = "sign" /\ UNCHANGED <<base, temps, order, disk>>
        /\ issued' = [issued EXCEPT ![r] = Append(@, cert)]
        /\ GoTo(r, next)
    BY DEF Sign
  <1>2. count[r] >= 0 /\ n < Size(r) /\ issued[r] \in Seq(Cert) /\ TypeOK /\ Asked
    BY <1>1 DEF Well, Issuing, Inside, GInv, TypeOK
  <1>3. /\ name = NameAt(r, n + 1) /\ n \in Nat /\ n + 1 \in 1..Size(r)
        /\ name = LEAF_DNS_NAME <=> n + 1 = Size(r)
    BY <1>2, NextName, NamesDiffer
  <1>4. \A i \in 1..n : issued[r][i] = CertAt(r, i)
    BY DEF Well, Issuing
  <1>5. cert = CertAt(r, n + 1)
    <2>1. CASE n = 0
      <3>1. issued[r] = <<>> /\ NameAt(r, n + 1) = RootCA /\ Upper(n + 1) = n + 1
        BY <1>2, <2>1, EmptySeq DEF NameAt, Upper
      <3>2. /\ cert.subject = NameAt(r, n + 1) /\ cert.issuer = NameAt(r, n + 1)
            /\ cert.signer = <<r, NameAt(r, n + 1)>>
        BY <1>3, <3>1 DEF IssuerKey
      <3>3. (name # LEAF_DNS_NAME) = (n + 1 < Size(r))
        BY <1>2, <1>3 DEF Size, TypeOK
      <3> HIDE DEF name, n
      <3> QED  BY <1>3, <3>1, <3>2, <3>3 DEF CertAt
    <2>2. CASE n # 0
      <3>1. n \in 1..n /\ issued[r] # <<>> /\ Upper(n + 1) = n
        BY <1>2, <1>3, <2>2, EmptySeq DEF Upper
      <3>2. Last(issued[r]) = CertAt(r, n)
        BY <1>4, <3>1 DEF Last
      <3>3. /\ Last(issued[r]).subject = NameAt(r, n)
            /\ Last(issued[r]).key = <<r, NameAt(r, n)>>
        BY <3>2 DEF CertAt
      <3>4. /\ cert.issuer = NameAt(r, n) /\ cert.signer = <<r, NameAt(r, n)>>
        BY <3>1, <3>3 DEF IssuerKey
      <3>5. (name # LEAF_DNS_NAME) = (n + 1 < Size(r))
        BY <1>2, <1>3 DEF Size, TypeOK
      <3> HIDE DEF name, n
      <3> QED  BY <1>3, <3>1, <3>4, <3>5 DEF CertAt
    <2> QED  BY <2>1, <2>2
  <1>6. next = "arrange" <=> n + 1 = Size(r)
    BY <1>3
  <1>7. next \in {"arrange", "key"} /\ next \in Phases
    BY DEF Phases
  <1>8. CertAt(r, n + 1) \in Cert
    BY <1>2, <1>3, CertFacts
  <1> HIDE DEF cert, next, name
  <1>9. phase'[r] = next /\ UNCHANGED count
    BY <1>1, <1>7, GPhased, GoToPhase DEF GInv
  <1>10. issued'[r] = Append(issued[r], CertAt(r, n + 1))
    BY <1>1, <1>5 DEF GInv, TypeOK
  <1>11. /\ Len(issued'[r]) = n + 1
         /\ \A i \in 1..n+1 : issued'[r][i] = CertAt(r, i)
    <2>1. /\ Len(issued'[r]) = n + 1 /\ issued'[r][n + 1] = CertAt(r, n + 1)
          /\ \A i \in 1..n : issued'[r][i] = issued[r][i]
      BY <1>2, <1>8, <1>10
    <2>2. \A i \in 1..n+1 : i \in 1..n \/ i = n + 1
      BY <1>3
    <2> HIDE DEF n
    <2> QED  BY <1>4, <2>1, <2>2
  <1>12. Size(r)' = Size(r) /\ (\A i \in Nat : CertAt(r, i)' = CertAt(r, i)) /\ count'[r] = count[r]
    BY <1>9, ChainKeeps
  <1>13. KeysTo(r, Len(issued[r]))' = KeysTo(r, n + 1)
    BY <1>9, <1>11 DEF KeysTo, NameAt, Size
  <1>14. Issuing(r)'
    <2> DEFINE m == n + 1
    <2>1. /\ m \in Nat /\ m <= Size(r) /\ (next = "arrange" => m = Size(r))
          /\ (next = "key" => m < Size(r)) /\ \A i \in 1..m : i \in Nat
      <3>1. Size(r) \in Int
        BY <1>2 DEF TypeOK, Size
      <3> QED  BY <1>2, <1>3, <1>6, <3>1
    <2>2. Len(issued'[r]) = m /\ \A i \in 1..m : issued'[r][i] = CertAt(r, i)
      BY <1>11
    <2> HIDE DEF m, n
    <2> QED  BY <1>2, <1>7, <1>9, <1>12, <2>1, <2>2 DEF Issuing, Inside
  <1>15. \A d \in base[r] : disk[d].keys = KeysTo(r, n + 1) /\ disk[d].pin = {}
    BY <1>1, NoPinYet DEF Well, Keeping
  <1>16. Keeping(r)' /\ Copying(r)' /\ Pinned(r)'
    BY <1>1, <1>7, <1>9, <1>13, <1>15 DEF Keeping, Copying, Pinned
  <1> QED  BY <1>14, <1>16 DEF Well

\* Either layout lists the whole chain.
LEMMA LayoutIsWhole ==
    ASSUME GInv, NEW r \in Runs, Well(r), phase[r] = "arrange",
           NEW layout \in IF format[r] = "single" THEN Listings(Certs(issued[r]))
                         ELSE {<<Last(issued[r]), issued[r][1]>> \o intermediates(r)}
    PROVE  layout \in Seq(Cert) /\ Certs(layout) = Chain(r)
  <1> DEFINE s == issued[r]
             n == Size(r)
  <1>1. /\ s \in Seq(Cert) /\ Len(s) = n /\ n \in Nat /\ n >= 2
        /\ \A i \in 1..n : s[i] = CertAt(r, i)
    BY DEF GInv, TypeOK, Well, Issuing, Inside, Size
  <1>2. Certs(s) = Chain(r)
    BY <1>1 DEF Certs, Chain
  <1> HIDE DEF s, n
  <1>3. CASE format[r] = "single"
    <2>1. layout \in Listings(Certs(s))
      BY <1>3 DEF s
    <2>2. IsFiniteSet(Certs(s)) /\ Certs(s) \subseteq Cert
      <3>1. \A i \in 1..Len(s) : s[i] \in Cert
        BY <1>1
      <3> QED  BY <1>1, <3>1, BundleIsFinite DEF Certs
    <2>3. layout \in Seq(Certs(s)) /\ Certs(layout) = Certs(s)
      BY <2>1, <2>2, ListingFacts
    <2> QED  BY <1>2, <2>2, <2>3, SeqMonotonic
  <1>4. CASE format[r] # "single"
    <2> DEFINE ends == <<s[n], s[1]>>
               middle == SubSeq(s, 2, n - 1)
    <2>1. layout = ends \o middle
      BY <1>1, <1>4 DEF Last, intermediates, s
    <2>2. ends \in Seq(Cert) /\ Len(ends) = 2 /\ ends[1] = s[n] /\ ends[2] = s[1]
      BY <1>1
    <2>3. middle \in Seq(Cert) /\ Len(middle) = n - 2 /\ \A i \in 1..n-2 : middle[i] = s[i + 1]
      <3>1. 2 \in 1..n+1 /\ n - 1 \in Nat /\ n - 1 <= n /\ 2 <= (n - 1) + 1
            /\ (n - 1) - 2 + 1 = n - 2
        BY <1>1
      <3>2. \A i \in 2..n-1 : s[i] \in Cert
        BY <1>1
      <3>3. middle \in Seq(Cert) /\ Len(middle) = n - 2
        BY <1>1, <3>1, <3>2, SubSeqProperties
      <3>4. \A i \in 1..n-2 : middle[i] = s[2 + i - 1]
        BY <1>1, <3>1, <3>3, SubSeqProperties
      <3> QED  BY <1>1, <3>3, <3>4
    <2> HIDE DEF ends, middle
    <2>4. /\ layout \in Seq(Cert) /\ Len(layout) = n
          /\ layout[1] = s[n] /\ layout[2] = s[1]
          /\ \A i \in 3..n : layout[i] = s[i - 1]
      <3>1. /\ layout \in Seq(Cert) /\ Len(layout) = 2 + (n - 2)
            /\ \A i \in 1..2 : layout[i] = ends[i]
            /\ \A i \in 3..n : layout[i] = middle[i - 2]
        <4>1. /\ layout \in Seq(Cert) /\ Len(layout) = Len(ends) + Len(middle)
              /\ \A i \in 1..Len(layout) : layout[i] =
                     IF i <= Len(ends) THEN ends[i] ELSE middle[i - Len(ends)]
          <5>1. /\ ends \o middle \in Seq(Cert)
                /\ Len(ends \o middle) = Len(ends) + Len(middle)
                /\ \A i \in 1..Len(ends) + Len(middle) : (ends \o middle)[i] =
                       IF i <= Len(ends) THEN ends[i] ELSE middle[i - Len(ends)]
            BY <2>2, <2>3, ConcatProperties
          <5> QED  BY <2>1, <5>1
        <4> QED  BY <1>1, <2>2, <2>3, <4>1
      <3>2. \A i \in 3..n : i - 2 \in 1..n-2 /\ (i - 2) + 1 = i - 1
        BY <1>1
      <3> QED  BY <1>1, <2>2, <2>3, <3>1, <3>2
    <2>5. \A i \in 1..n : \E j \in 1..n : layout[i] = s[j]
      <3>1. \A i \in 1..n : i = 1 \/ i = 2 \/ (i \in 3..n /\ i - 1 \in 1..n)
        BY <1>1
      <3>2. 1 \in 1..n /\ n \in 1..n
        BY <1>1
      <3> QED  BY <2>4, <3>1, <3>2
    <2>6. \A j \in 1..n : \E i \in 1..n : layout[i] = s[j]
      <3>1. \A j \in 1..n : j = 1 \/ j = n \/ (j + 1 \in 3..n /\ j + 1 \in 1..n /\ (j + 1) - 1 = j)
        BY <1>1
      <3>2. 1 \in 1..n /\ 2 \in 1..n
        BY <1>1
      <3> QED  BY <2>4, <3>1, <3>2
    <2>7. Certs(layout) = Certs(s)
      <3>1. Certs(layout) = {layout[i] : i \in 1..n} /\ Certs(s) = {s[i] : i \in 1..n}
        BY <1>1, <2>4 DEF Certs
      <3>2. ASSUME NEW c \in Certs(layout)
            PROVE  c \in Certs(s)
        <4>1. PICK i \in 1..n : c = layout[i]
          BY <3>1
        <4>2. PICK j \in 1..n : layout[i] = s[j]
          BY <2>5
        <4> QED  BY <3>1, <4>1, <4>2
      <3>3. ASSUME NEW c \in Certs(s)
            PROVE  c \in Certs(layout)
        <4>1. PICK j \in 1..n : c = s[j]
          BY <3>1
        <4>2. PICK i \in 1..n : layout[i] = s[j]
          BY <2>6
        <4> QED  BY <3>1, <4>1, <4>2
      <3> QED  BY <3>2, <3>3
    <2> QED  BY <1>2, <2>4, <2>7
  <1> QED  BY <1>3, <1>4

LEMMA ArrangeWell ==
    ASSUME GInv, NEW r \in Runs, Well(r), Arrange(r)
    PROVE  Well(r)'
  <1>1. /\ phase[r] = "arrange" /\ UNCHANGED <<base, temps, issued, disk>>
        /\ GoTo(r, "copy") /\ "copy" \in Phases
    BY DEF Arrange, Phases
  <1>2. PICK layout \in IF format[r] = "single" THEN Listings(Certs(issued[r]))
                       ELSE {<<Last(issued[r]), issued[r][1]>> \o intermediates(r)} :
           order' = [order EXCEPT ![r] = layout]
    BY DEF Arrange
  <1>3. Certs(layout) = Chain(r) /\ order'[r] = layout
    BY <1>1, <1>2, LayoutIsWhole DEF GInv, TypeOK
  <1>4. phase'[r] = "copy" /\ UNCHANGED count
    BY <1>1, GPhased, GoToPhase DEF GInv
  <1>5. /\ Size(r)' = Size(r) /\ Chain(r)' = Chain(r) /\ count'[r] = count[r]
        /\ \A i \in Nat : CertAt(r, i)' = CertAt(r, i)
    BY <1>4, ChainKeeps
  <1>6. KeysTo(r, Len(issued[r]))' = KeysTo(r, Len(issued[r]))
    BY <1>1, <1>4 DEF KeysTo, NameAt, Size
  <1>7. Issuing(r)'
    <2>1. Len(issued[r]) \in Nat
      BY DEF GInv, TypeOK
    <2> QED  BY <1>1, <1>4, <1>5, <2>1 DEF Well, Issuing, Inside
  <1>8. \A d \in base[r] : disk[d].certs = <<>> /\ disk[d].pin = {}
    BY <1>1, NoPinYet DEF GInv, Laid
  <1>9. Keeping(r)'
    BY <1>1, <1>4, <1>6 DEF Well, Keeping, Inside
  <1>10. Copying(r)' /\ Pinned(r)'
    <2>1. \A d \in base[r] : Len(disk[d].certs) = 0
      BY <1>8
    <2>2. \A d \in base[r] : \A i \in 1..Len(disk[d].certs) : FALSE
      BY <2>1
    <2> QED  BY <1>1, <1>3, <1>4, <1>5, <1>8, <2>2 DEF Copying, Pinned
  <1> QED  BY <1>7, <1>9, <1>10 DEF Well

LEMMA CopyWell ==
    ASSUME GInv, NEW r \in Runs, Well(r), Copy(r)
    PROVE  Well(r)'
  <1>1. /\ phase[r] = "copy" /\ UNCHANGED <<base, temps, issued, order>>
        /\ base[r] # {}
    BY DEF Copy, GInv, Placed, Inside
  <1>2. PICK d \in DOMAIN disk : base[r] = {d} /\ Here(r) = disk[d] /\ disk[d] \in Contents
    BY <1>1, HereIs
  <1> DEFINE old == disk[d].certs
             all == order[r]
             written == Len(old) + 1
             certs == Append(old, all[written])
             contents == [Here(r) EXCEPT !.certs = certs]
             next == IF written = Len(all) THEN "pin" ELSE "copy"
  <1>3. /\ old \in Seq(Cert) /\ Len(old) \in Nat
        /\ all \in Seq(Cert) /\ Len(all) \in Nat /\ Len(old) < Len(all)
        /\ \A i \in 1..Len(old) : old[i] = all[i]
        /\ Certs(all) = Chain(r)
        /\ disk[d].pin = {} /\ disk[d].keys = KeysTo(r, Len(issued[r]))
    <2>1. old \in Seq(Cert) /\ all \in Seq(Cert)
      BY <1>2 DEF Contents, GInv, TypeOK
    <2>2. Len(old) < Len(all)
      BY <1>1, <1>2 DEF GInv, Laid
    <2>3. disk[d].pin = {} /\ disk[d].keys = KeysTo(r, Len(issued[r]))
      BY <1>1, <1>2, NoPinYet DEF Well, Keeping, Inside
    <2>4. /\ \A i \in 1..Len(old) : old[i] = all[i]
          /\ Certs(all) = Chain(r)
      BY <1>1, <1>2 DEF Well, Copying
    <2> QED  BY <2>1, <2>2, <2>3, <2>4
  <1>4. Change(r, contents) /\ GoTo(r, next)
    BY <1>2 DEF Copy
  <1> HIDE DEF old, all
  <1>5. written \in 1..Len(all) /\ all[written] \in Cert
    BY <1>3
  <1>6. /\ certs \in Seq(Cert) /\ Len(certs) = written
        /\ \A i \in 1..Len(certs) : certs[i] = all[i]
    <2>1. /\ certs \in Seq(Cert) /\ Len(certs) = Len(old) + 1
          /\ \A i \in 1..Len(old) : certs[i] = old[i]
          /\ certs[Len(old) + 1] = all[written]
      BY <1>3, <1>5
    <2>2. \A i \in 1..Len(certs) : i \in 1..Len(old) \/ i = written
      BY <1>3, <2>1
    <2> QED  BY <1>3, <2>1, <2>2
  <1> HIDE DEF certs
  <1>7. /\ contents \in Contents
        /\ contents.keys = disk[d].keys /\ contents.pin = disk[d].pin /\ contents.certs = certs
    BY <1>2, <1>6 DEF Contents
  <1> HIDE DEF contents
  <1>8. disk'[d] = contents
    BY <1>2, <1>4, <1>7, ChangeFacts
  <1>9. /\ next \in Phases /\ next \in {"pin", "copy"}
        /\ next = "pin" => Len(certs) = Len(all)
    BY <1>6 DEF Phases
  <1> HIDE DEF next
  <1>10. phase'[r] = next /\ UNCHANGED count
    BY <1>4, <1>9, GPhased, GoToPhase DEF GInv
  <1>11. next = "pin" => Certs(certs) = Chain(r)
    <2> SUFFICES ASSUME next = "pin"
                 PROVE  Certs(certs) = Certs(all)
      BY <1>3
    <2>1. Len(certs) = Len(all)
      BY <1>9
    <2> QED  BY <1>6, <2>1 DEF Certs
  <1>12. /\ Size(r)' = Size(r) /\ Chain(r)' = Chain(r) /\ count'[r] = count[r]
         /\ \A i \in Nat : CertAt(r, i)' = CertAt(r, i)
    BY <1>10, ChainKeeps
  <1>13. KeysTo(r, Len(issued[r]))' = KeysTo(r, Len(issued[r]))
    BY <1>1, <1>10 DEF KeysTo, NameAt, Size
  <1>14. Issuing(r)'
    <2>1. Len(issued[r]) \in Nat
      BY DEF GInv, TypeOK
    <2> QED  BY <1>1, <1>9, <1>10, <1>12, <2>1 DEF Well, Issuing, Inside
  <1>15. Keeping(r)' /\ Pinned(r)'
    BY <1>1, <1>2, <1>3, <1>7, <1>8, <1>9, <1>10, <1>13 DEF Keeping, Pinned
  <1>16. Copying(r)'
    <2>1. order'[r] = all /\ base'[r] = {d} /\ disk'[d].certs = certs
      BY <1>1, <1>2, <1>7, <1>8 DEF all
    <2> QED  BY <1>3, <1>6, <1>9, <1>10, <1>11, <1>12, <2>1 DEF Copying
  <1> QED  BY <1>14, <1>15, <1>16 DEF Well

LEMMA WritePinWell ==
    ASSUME GInv, NEW r \in Runs, Well(r), WritePin(r)
    PROVE  Well(r)'
  <1>1. /\ phase[r] = "pin" /\ UNCHANGED <<base, temps, issued, order>>
        /\ base[r] # {} /\ issued[r] \in Seq(Cert)
    BY DEF WritePin, GInv, TypeOK, Placed, Inside
  <1>2. PICK d \in DOMAIN disk : base[r] = {d} /\ Here(r) = disk[d] /\ disk[d] \in Contents
    BY <1>1, HereIs
  <1>3. /\ count[r] >= 0 /\ count[r] \in Int /\ Len(issued[r]) = Size(r)
        /\ issued[r][1] = CertAt(r, 1) /\ issued[r][1] \in Cert
        /\ Certs(disk[d].certs) = Chain(r)
        /\ disk[d].keys = KeysTo(r, Size(r))
    <2>1. count[r] >= 0 /\ count[r] \in Int /\ Len(issued[r]) = Size(r)
      BY <1>1 DEF Well, Issuing, Inside, GInv, TypeOK
    <2>2. 1 \in 1..Len(issued[r])
      BY <2>1 DEF Size
    <2>3. issued[r][1] = CertAt(r, 1) /\ issued[r][1] \in Cert
      BY <1>1, <2>2 DEF Well, Issuing
    <2>4. disk[d].keys = KeysTo(r, Len(issued[r])) /\ Certs(disk[d].certs) = Chain(r)
      BY <1>1, <1>2 DEF Well, Keeping, Copying, Inside
    <2> QED  BY <2>1, <2>3, <2>4
  <1> DEFINE root == issued[r][1]
             contents == [Here(r) EXCEPT !.pin = {root}]
  <1>4. Change(r, contents) /\ Raise(r, "done")
    BY DEF WritePin
  <1> HIDE DEF root
  <1>5. /\ contents \in Contents /\ contents.pin = {root}
        /\ contents.keys = disk[d].keys /\ contents.certs = disk[d].certs
    BY <1>2, <1>3 DEF Contents, root
  <1> HIDE DEF contents
  <1>6. disk'[d] = contents
    BY <1>2, <1>4, <1>5, ChangeFacts
  <1>7. phase'[r] = "finally" /\ UNCHANGED count
    BY <1>1, <1>4, GPhased, RaisePhase DEF GInv, Inside
  <1>8. /\ Chain(r)' = Chain(r) /\ count'[r] = count[r]
        /\ \A i \in Nat : CertAt(r, i)' = CertAt(r, i)
    BY <1>7, ChainKeeps
  <1>9. KeysTo(r, Size(r))' = KeysTo(r, Size(r)) /\ CertAt(r, 1)' = CertAt(r, 1)
    BY <1>7 DEF KeysTo, NameAt, Size, CertAt, Upper
  <1>10. Issuing(r)'
    <2>1. Len(issued[r]) \in Nat
      BY <1>1
    <2> QED  BY <1>1, <1>7, <1>8, <2>1 DEF Well, Issuing, Inside
  <1>11. Keeping(r)' /\ Copying(r)'
    BY <1>7 DEF Keeping, Copying, Inside
  <1>12. Pinned(r)'
    BY <1>1, <1>2, <1>3, <1>5, <1>6, <1>7, <1>8, <1>9 DEF Pinned, root
  <1> QED  BY <1>10, <1>11, <1>12 DEF Well

-----------------------------------------------------------------------------
(* All runs together                                                       *)

LEMMA WInitInv == Init => WInv
  <1> SUFFICES ASSUME Init
               PROVE  WInv
    OBVIOUS
  <1>1. GInv
    BY GInitInv
  <1>2. \A r \in Runs : phase[r] = "resolve" /\ issued[r] = <<>> /\ base[r] = {}
    BY DEF Init
  <1>3. \A r \in Runs : Well(r)
    BY <1>2 DEF Well, Issuing, Keeping, Copying, Pinned, Inside
  <1>4. DOMAIN disk = {}
    BY DEF Init
  <1> QED  BY <1>1, <1>3, <1>4 DEF WInv, Owned

\* A step of one run leaves the others alone.
LEMMA Elsewhere ==
    ASSUME GInv, NEW r \in Runs, Step(r) \/ Stop(r) \/ Kill(r), NEW q \in Runs \ {r}
    PROVE  /\ phase'[q] = phase[q] /\ issued'[q] = issued[q] /\ order'[q] = order[q]
           /\ base'[q] = base[q] /\ UNCHANGED count
           /\ \A d \in base[q] : disk'[d] = disk[d]
  <1>0. Phased /\ q \in Runs /\ q # r
    BY GPhased DEF GInv
  <1>1. ASSUME NEW next, GoTo(r, next)
        PROVE  phase'[q] = phase[q] /\ UNCHANGED count
    BY <1>0, <1>1 DEF GoTo, Phased
  <1>2. ASSUME NEW next, NEW how, Leave(r, how, next)
        PROVE  phase'[q] = phase[q] /\ UNCHANGED count
    BY <1>0, <1>2 DEF Leave, Phased
  <1>3. ASSUME NEW how, Raise(r, how)
        PROVE  phase'[q] = phase[q] /\ UNCHANGED count
    BY <1>2, <1>3 DEF Raise
  <1>4. ASSUME UNCHANGED <<base, issued, order, disk>>
        PROVE  /\ issued'[q] = issued[q] /\ order'[q] = order[q] /\ base'[q] = base[q]
               /\ \A d \in base[q] : disk'[d] = disk[d]
    BY <1>4
  <1>5. CASE Resolve(r)
    BY <1>1, <1>3, <1>4, <1>5 DEF Resolve, Untouched
  <1>6. CASE MakeRunDir(r)
    <2>1. PICK d \in Stamps :
             IF d \in DOMAIN disk THEN Raise(r, "failed") /\ UNCHANGED <<base, disk>>
             ELSE /\ GoTo(r, "mkdtemp")
                  /\ base' = [base EXCEPT ![r] = {d}]
                  /\ disk' = [e \in DOMAIN disk \cup {d} |->
                                IF e = d THEN [keys |-> {}, certs |-> <<>>, pin |-> {}]
                                         ELSE disk[e]]
      BY <1>6 DEF MakeRunDir
    <2>2. UNCHANGED <<issued, order>>
      BY <1>6 DEF MakeRunDir
    <2>3. CASE d \in DOMAIN disk
      BY <1>3, <1>4, <2>1, <2>2, <2>3
    <2>4. CASE d \notin DOMAIN disk
      <3>1. base[q] \subseteq DOMAIN disk
        BY DEF GInv, Placed
      <3>2. base'[q] = base[q]
        BY <1>0, <2>1, <2>4 DEF GInv, TypeOK
      <3>3. \A e \in base[q] : disk'[e] = disk[e]
        BY <2>1, <2>4, <3>1
      <3> QED  BY <1>1, <2>1, <2>2, <2>4, <3>2, <3>3
    <2> QED  BY <2>3, <2>4
  <1>7. CASE MakeTemp(r)
    BY <1>1, <1>4, <1>7 DEF MakeTemp
  <1>8. CASE EnterTry(r)
    BY <1>1, <1>4, <1>8 DEF EnterTry, Untouched
  <1>9. ASSUME NEW contents, Change(r, contents), UNCHANGED <<base, issued, order>>
        PROVE  /\ issued'[q] = issued[q] /\ order'[q] = order[q] /\ base'[q] = base[q]
               /\ \A d \in base[q] : disk'[d] = disk[d]
    <2>1. \A d \in base[q] : d \in DOMAIN disk /\ d \notin base[r]
      BY <1>0 DEF GInv, Apart, Placed
    <2> QED  BY <1>9, <2>1 DEF Change
  <1>10. CASE GenerateKey(r)
    BY <1>1, <1>9, <1>10 DEF GenerateKey
  <1>11. CASE Sign(r)
    <2>1. UNCHANGED <<base, order, disk>>
      BY <1>11 DEF Sign
    <2>2. \E x : issued' = [issued EXCEPT ![r] = x]
      BY <1>11 DEF Sign
    <2>3. issued'[q] = issued[q]
      BY <1>0, <2>2 DEF GInv, TypeOK
    <2>4. \E next : GoTo(r, next)
      BY <1>11 DEF Sign
    <2> QED  BY <1>1, <2>1, <2>3, <2>4
  <1>12. CASE Arrange(r)
    <2>1. UNCHANGED <<base, issued, disk>> /\ GoTo(r, "copy")
      BY <1>12 DEF Arrange
    <2>2. \E x : order' = [order EXCEPT ![r] = x]
      BY <1>12 DEF Arrange
    <2>3. order'[q] = order[q]
      BY <1>0, <2>2 DEF GInv, TypeOK
    <2> QED  BY <1>1, <2>1, <2>3
  <1>13. CASE Copy(r)
    <2>1. UNCHANGED <<base, issued, order>> /\ \E contents : Change(r, contents)
      BY <1>13 DEF Copy
    <2>2. \E next : GoTo(r, next)
      BY <1>13 DEF Copy
    <2> QED  BY <1>1, <1>9, <2>1, <2>2
  <1>14. CASE WritePin(r)
    BY <1>3, <1>9, <1>14 DEF WritePin
  <1>15. CASE CleanUp(r)
    BY <1>1, <1>4, <1>15 DEF CleanUp
  <1>16. CASE Stop(r)
    BY <1>3, <1>4, <1>16 DEF Stop, Untouched
  <1>17. CASE Kill(r)
    BY <1>2, <1>4, <1>17 DEF Kill, Untouched
  <1> QED
    BY <1>5, <1>6, <1>7, <1>8, <1>10, <1>11, <1>12, <1>13, <1>14, <1>15, <1>16, <1>17 DEF Step

\* No step leaves a directory without its run.
LEMMA OwnedKeeps ==
    ASSUME GInv, Owned, NEW r \in Runs, Step(r) \/ Stop(r) \/ Kill(r)
    PROVE  Owned'
  <1>1. ASSUME UNCHANGED base, DOMAIN disk' = DOMAIN disk
        PROVE  Owned'
    BY <1>1 DEF Owned
  <1>2. CASE MakeRunDir(r)
    <2>1. PICK d \in Stamps :
             IF d \in DOMAIN disk THEN UNCHANGED <<base, disk>>
             ELSE /\ base' = [base EXCEPT ![r] = {d}]
                  /\ DOMAIN disk' = DOMAIN disk \cup {d}
      BY <1>2 DEF MakeRunDir
    <2>2. CASE d \in DOMAIN disk
      BY <1>1, <2>1, <2>2
    <2>3. CASE d \notin DOMAIN disk
      <3>1. base[r] = {}
        BY <1>2 DEF MakeRunDir, GInv, Placed
      <3>2. base'[r] = {d} /\ \A q \in Runs \ {r} : base'[q] = base[q]
        BY <2>1, <2>3 DEF GInv, TypeOK
      <3>3. \A q \in Runs : \A e \in base[q] : e \in base'[q]
        BY <3>1, <3>2
      <3> QED  BY <2>1, <2>3, <3>2, <3>3 DEF Owned
    <2> QED  BY <2>2, <2>3
  <1>3. ASSUME NEW contents, Change(r, contents)
        PROVE  DOMAIN disk' = DOMAIN disk
    BY <1>3 DEF Change
  <1>4. CASE GenerateKey(r) \/ Copy(r) \/ WritePin(r)
    <2>1. UNCHANGED base /\ \E contents : Change(r, contents)
      BY <1>4 DEF GenerateKey, Copy, WritePin
    <2> QED  BY <1>1, <1>3, <2>1
  <1>5. CASE \/ Resolve(r) \/ MakeTemp(r) \/ EnterTry(r) \/ Sign(r) \/ Arrange(r)
             \/ CleanUp(r) \/ Stop(r) \/ Kill(r)
    <2>1. UNCHANGED <<base, disk>>
      BY <1>5 DEF Resolve, MakeTemp, EnterTry, Sign, Arrange, CleanUp, Stop, Kill, Untouched
    <2> QED  BY <1>1, <2>1
  <1> QED  BY <1>2, <1>4, <1>5 DEF Step

LEMMA WNextInv == WInv /\ [Next]_vars => WInv'
  <1> SUFFICES ASSUME WInv, [Next]_vars
               PROVE  WInv'
    OBVIOUS
  <1>0. GInv /\ GInv' /\ Owned /\ \A r \in Runs : Well(r)
    BY GNextInv DEF WInv
  <1>1. CASE UNCHANGED vars
    <2>1. \A q \in Runs : Well(q)'
      <3> TAKE q \in Runs
      <3>1. Well(q)
        BY <1>0
      <3>2. UNCHANGED <<count, phase, issued, order, base, disk>>
        BY <1>1 DEF vars
      <3> QED  BY <1>0, <3>1, <3>2, WellKeeps
    <2>2. Owned'
      BY <1>0, <1>1 DEF vars, Owned
    <2> QED  BY <1>0, <2>1, <2>2 DEF WInv
  <1>2. CASE Next
    <2>1. PICK r \in Runs : Step(r) \/ Stop(r) \/ Kill(r)
      BY <1>2 DEF Next
    <2>2. Well(r)'
      BY <1>0, <2>1, PassWell, MakeRunDirWell, GenerateKeyWell, SignWell, ArrangeWell,
         CopyWell, WritePinWell
         DEF Step
    <2>3. ASSUME NEW q \in Runs \ {r}
          PROVE  Well(q)'
      BY <1>0, <2>1, Elsewhere, WellKeeps
    <2>4. Owned'
      BY <1>0, <2>1, OwnedKeeps
    <2> QED  BY <1>0, <2>2, <2>3, <2>4 DEF WInv
  <1> QED  BY <1>1, <1>2

\* A directory with a pin holds the whole chain of the run that made it.
LEMMA WholeIsFound ==
    ASSUME WInv, NEW d \in DOMAIN disk, disk[d].pin # {}
    PROVE  LET b == disk[d].certs
           IN  /\ Cardinality(PathsOf(b)) = 1
               /\ \A p \in PathsOf(b) :
                     /\ Certs(p) = Certs(b) /\ find_root(p) = disk[d].pin
                     /\ Unaided(p) => verify_chain(p, {}) = {{}}
               /\ {c.key : c \in Certs(b)} = disk[d].keys
  <1> DEFINE b == disk[d].certs
  <1>1. PICK r \in Runs : d \in base[r]
    BY DEF WInv, Owned
  <1>2. /\ TypeOK /\ Asked /\ b \in Seq(Cert)
        /\ count[r] >= 0 /\ disk[d].pin = {CertAt(r, 1)}
        /\ Certs(b) = Chain(r) /\ disk[d].keys = KeysTo(r, Size(r))
    <2>1. TypeOK /\ Asked /\ b \in Seq(Cert)
      BY DEF WInv, GInv, TypeOK, Contents
    <2> QED  BY <1>1, <2>1 DEF WInv, Well, Pinned
  <1> HIDE DEF b
  <1> DEFINE p == Up(r)
  <1>3. p \in Seq(Cert) /\ Len(p) >= 2 /\ Certs(p) = Certs(b)
    BY <1>2, UpFacts
  <1>4. IsPath(b, p) /\ IsClimb(b, p)
    BY <1>2, UpIsPath DEF IsPath
  <1>5. Sound(p, {}) /\ find_root(p) = disk[d].pin
    BY <1>2, UpIsSound
  <1>6. \A q \in Seq(Cert) : IsPath(b, q) => q = p
    BY <1>2, PathIsUp
  <1> HIDE DEF p
  <1>7. PathsOf(b) = {p}
    <2>1. \A q : q \in PathsOf(b) <=> q \in Seq(Cert) /\ IsPath(b, q)
      BY <1>2, PathsOfIsPath
    <2> QED  BY <1>3, <1>4, <1>6, <2>1
  <1>8. Cardinality(PathsOf(b)) = 1
    BY <1>7, FS_Singleton
  <1>9. Unaided(p) => verify_chain(p, {}) = {{}}
    BY <1>2, <1>3, <1>4, <1>5, SoundVerifies
  <1>10. {c.key : c \in Certs(b)} = disk[d].keys
    <2>1. \A i \in 1..Size(r) : CertAt(r, i).key = <<r, NameAt(r, i)>>
      BY DEF CertAt
    <2> DEFINE n == Size(r)
               C(i) == CertAt(r, i)
               K(i) == <<r, NameAt(r, i)>>
    <2>2. Certs(b) = {C(i) : i \in 1..n} /\ disk[d].keys = {K(i) : i \in 1..n}
      BY <1>2 DEF Chain, KeysTo
    <2>3. \A i \in 1..n : C(i).key = K(i)
      BY <2>1
    <2> HIDE DEF n, C, K
    <2> QED  BY <2>2, <2>3
  <1> QED  BY <1>3, <1>5, <1>7, <1>8, <1>9, <1>10 DEF b

-----------------------------------------------------------------------------

\* Type correctness of the generator, for any number of runs.
THEOREM TypeCorrect == Spec => []TypeOK
  <1>1. GInv => TypeOK
    BY DEF GInv
  <1> QED  BY AlwaysGInv, <1>1, PTL

\* However many runs start in the same second, a directory holds what one of
\* them has made.
THEOREM DirectoriesAreApart == Spec => []RunsStayApart
  <1>1. GInv => RunsStayApart
    <2> SUFFICES ASSUME GInv, NEW d \in DOMAIN disk
                 PROVE  Cardinality({k[1] : k \in disk[d].keys \cup
                                          {c.key : c \in Certs(disk[d].certs)}}) <= 1
      BY DEF RunsStayApart
    <2> DEFINE marks == disk[d].keys \cup {c.key : c \in Certs(disk[d].certs)}
               makers == {k[1] : k \in marks}
    <2>1. \A k \in marks : k[1] \in Runs /\ d \in base[k[1]]
      BY DEF GInv, Marked, Certs
    <2>2. \A q, r \in makers : q = r
      BY <2>1 DEF GInv, Apart
    <2> HIDE DEF makers
    <2>3. CASE makers = {}
      <3>1. Cardinality(makers) = 0
        BY <2>3, FS_EmptySet
      <3> QED  BY <3>1 DEF makers
    <2>4. CASE makers # {}
      <3>1. PICK r \in makers : TRUE
        BY <2>4
      <3>2. makers = {r}
        BY <2>2, <3>1
      <3>3. Cardinality(makers) = 1
        BY <3>2, FS_Singleton
      <3> QED  BY <3>3 DEF makers
    <2> QED  BY <2>3, <2>4
  <1> QED  BY AlwaysGInv, <1>1, PTL

\* Wherever a pin was written, at any moment and however its run ends: the
\* certificates beside it, in whatever order they lie there, make one path,
\* whose root is the pinned one, which OpenSSL verifies unless the machine
\* knows a CA by the name of an intermediate, and all of whose keys are kept.
THEOREM PinnedChainIsWhole == Spec => []PinnedIsWhole
  <1>1. WInv => PinnedIsWhole
    BY WholeIsFound DEF PinnedIsWhole
  <1>2. Spec => []WInv
    BY WInitInv, WNextInv, PTL DEF Spec
  <1> QED  BY <1>1, <1>2, PTL
=============================================================================
