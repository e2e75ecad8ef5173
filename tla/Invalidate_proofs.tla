------------------------- MODULE Invalidate_proofs -------------------------
(***************************************************************************)
(* Proofs about the private keys an invalidator run copies and the chains  *)
(* it writes, for any number of runs, any chains, keys and answers.        *)
(***************************************************************************)
EXTENDS Invalidate, SequenceTheorems, FiniteSetTheorems, WellFoundedInduction, TLAPS

\* Where a run holds keys that it will remove, and where it is too late.
Guarded == {"keys", "trust", "choose", "place", "turn", "extras", "finally"}

Unguarded == {"keys", "finally"}

-----------------------------------------------------------------------------
(* The inductive invariant: only runs that have started have a directory;  *)
(* the run under way has it from MakeKeyDir on, and after it has ended     *)
(* only if it was killed or left the guarded part by one of its two ends;  *)
(* a run that was started with a typing error stays outside.               *)

Started == run \in Nat /\ \A r \in DOMAIN keydirs : r \in Nat /\ r <= run

Held ==
    run \in DOMAIN keydirs =>
        \/ phase \in Guarded
        \/ phase = "over" /\ (ended = "killed" \/ left \in Unguarded)

Outside == run # 0 /\ Mistyped => phase \in {"parse", "over"} /\ run \notin DOMAIN keydirs

Inv == Started /\ Held /\ Outside

LEMMA InitInv == Init => Inv
  BY DEF Init, Inv, Started, Held, Outside

\* A run that has not started yet has no directory.
LEMMA FreshRun ==
    ASSUME Started
    PROVE  run + 1 \in Nat /\ run + 1 \notin DOMAIN keydirs
  BY DEF Started

\* A run that is told to stop goes on to the finally clause, or is over and
\* has left the guarded part by one of its ends.
LEMMA RaiseKeeps ==
    ASSUME Inv, NEW how, Raise(how), phase # "over",
           UNCHANGED <<run, selection, where, keydirs>>
    PROVE  Inv'
  <1>1. Started'
    BY DEF Inv, Started
  <1>2. Held'
    <2>1. CASE phase \in {"trust", "choose", "place", "turn", "extras"}
      BY <2>1 DEF Held, Raise, Leave, Guarded
    <2>2. CASE phase \notin {"trust", "choose", "place", "turn", "extras"}
      BY <2>2 DEF Inv, Held, Raise, Leave, Guarded, Unguarded
    <2> QED  BY <2>1, <2>2
  <1>3. Outside'
    <2>1. Mistyped' = Mistyped
      BY DEF Mistyped
    <2> QED  BY <2>1 DEF Inv, Outside, Raise, Leave
  <1> QED  BY <1>1, <1>2, <1>3 DEF Inv

\* A step from one guarded place to another, whatever it does to the keys.
LEMMA GoOnKeeps ==
    ASSUME Inv, phase \in Guarded, phase' \in Guarded,
           DOMAIN keydirs' = DOMAIN keydirs, UNCHANGED <<run, selection, where>>
    PROVE  Inv'
  <1>1. Mistyped' = Mistyped
    BY DEF Mistyped
  <1>2. ~(run # 0 /\ Mistyped)
    BY DEF Inv, Outside, Guarded
  <1> QED  BY <1>1, <1>2 DEF Inv, Started, Held, Outside

LEMMA NextInv == Inv /\ [Next]_vars => Inv'
  <1> SUFFICES ASSUME Inv, [Next]_vars
               PROVE  Inv'
    OBVIOUS
  <1>1. CASE Start
    <2>1. run' = run + 1 /\ keydirs' = keydirs /\ phase' = "parse"
      BY <1>1 DEF Start
    <2> QED  BY <2>1, FreshRun DEF Inv, Started, Held, Outside
  <1>2. CASE Parse
    <2>1. ~Mistyped /\ ~Mistyped'
      BY <1>2 DEF Parse, Mistyped, call
    <2> QED  BY <1>2, <2>1 DEF Parse, GoTo, call, Inv, Started, Held, Outside, Guarded
  <1>3. CASE RefuseTypo
    BY <1>3, RaiseKeeps DEF RefuseTypo, Untouched, call
  <1>4. CASE RefuseMaterial
    BY <1>4, RaiseKeeps DEF RefuseMaterial, Untouched, call
  <1>5. CASE MakeKeyDir
    <2>1. ~(run # 0 /\ Mistyped) /\ Mistyped' = Mistyped /\ run' = run
      BY <1>5 DEF MakeKeyDir, Inv, Outside, Mistyped, call
    <2>2. DOMAIN keydirs' = DOMAIN keydirs \cup {run} /\ phase' = "keys"
      BY <1>5 DEF MakeKeyDir, GoTo
    <2> QED  BY <2>1, <2>2 DEF Inv, Started, Held, Outside, Guarded
  <1>6. CASE EnterTry
    BY <1>6, GoOnKeeps DEF EnterTry, GoTo, Untouched, call, Guarded
  <1>7. CASE RefuseChain
    BY <1>7, RaiseKeeps DEF RefuseChain, Untouched, call
  <1>8. CASE FindChain
    BY <1>8, GoOnKeeps DEF FindChain, GoTo, Untouched, call, Guarded
  <1>9. CASE Choose
    <2>1. phase = "choose" /\ UNCHANGED <<run, selection, where, keydirs>>
      BY <1>9 DEF Choose, call
    <2>2. CASE Raise("refused")
      BY <2>1, <2>2, RaiseKeeps
    <2>3. CASE GoTo("place")
      BY <2>1, <2>3, GoOnKeeps DEF GoTo, Guarded
    <2> QED  BY <1>9, <2>2, <2>3 DEF Choose
  <1>10. CASE Place
    <2>1. phase = "place" /\ UNCHANGED <<run, selection, where, keydirs>>
      BY <1>10 DEF Place, call
    <2>2. CASE Raise("refused")
      BY <2>1, <2>2, RaiseKeeps
    <2>3. CASE GoTo("turn")
      BY <2>1, <2>3, GoOnKeeps DEF GoTo, Guarded
    <2> QED  BY <1>10, <2>2, <2>3 DEF Place
  <1>11. CASE Skip
    BY <1>11, GoOnKeeps DEF Skip, call, Guarded
  <1>12. CASE WriteKey
    BY <1>12, GoOnKeeps DEF WriteKey, call, Guarded
  <1>13. CASE Save
    BY <1>13, GoOnKeeps DEF Save, GoTo, call, Guarded
  <1>14. CASE WriteExtras
    BY <1>14, GoOnKeeps DEF WriteExtras, GoTo, call, Guarded
  <1>15. CASE Finish
    BY <1>15, RaiseKeeps DEF Finish, Untouched, call
  <1>16. CASE Unlink
    BY <1>16, GoOnKeeps DEF Unlink, call, Guarded
  <1>17. CASE RemoveKeyDir
    <2>1. UNCHANGED <<run, selection, where>> /\ Mistyped' = Mistyped
      BY <1>17 DEF RemoveKeyDir, call, Mistyped
    <2>2. DOMAIN keydirs' = DOMAIN keydirs \ {run} /\ phase' = "over"
      BY <1>17 DEF RemoveKeyDir, GoTo
    <2> QED  BY <2>1, <2>2 DEF Inv, Started, Held, Outside
  <1>18. CASE GiveUp
    <2>1. UNCHANGED <<run, selection, where, keydirs>> /\ Mistyped' = Mistyped
      BY <1>18 DEF GiveUp, Untouched, call, Mistyped
    <2>2. phase = "finally" /\ phase' = "over" /\ left' = "finally"
      BY <1>18 DEF GiveUp, Leave
    <2> QED  BY <2>1, <2>2 DEF Inv, Started, Held, Outside, Unguarded
  <1>19. CASE Fail
    BY <1>19, RaiseKeeps DEF Fail, Untouched, call
  <1>20. CASE Interrupt
    BY <1>20, RaiseKeeps DEF Interrupt, Untouched, call
  <1>21. CASE Kill
    <2>1. UNCHANGED <<run, selection, where, keydirs>> /\ Mistyped' = Mistyped
      BY <1>21 DEF Kill, Untouched, call, Mistyped
    <2> QED  BY <1>21, <2>1 DEF Kill, Leave, Inv, Started, Held, Outside
  <1>22. CASE UNCHANGED vars
    <2>1. UNCHANGED <<run, selection, where, keydirs, phase, ended, left>> /\ Mistyped' = Mistyped
      BY <1>22 DEF vars, call, Mistyped
    <2> QED  BY <2>1 DEF Inv, Started, Held, Outside
  <1> QED
    BY <1>1, <1>2, <1>3, <1>4, <1>5, <1>6, <1>7, <1>8, <1>9, <1>10, <1>11, <1>12, <1>13,
       <1>14, <1>15, <1>16, <1>20, <1>21, <1>22, <1>17, <1>18, <1>19
    DEF Next, Step

LEMMA AlwaysInv == Spec => []Inv
  BY InitInv, NextInv, PTL DEF Spec

-----------------------------------------------------------------------------

\* A run that is over has removed the directory it made, unless it was killed,
\* or left the guarded part by one of its two ends.
THEOREM KeysAreRemoved == Spec => []KeysRemoved
  <1>1. Inv => KeysRemoved
    BY DEF Inv, Held, KeysRemoved, AtTheEnds, Guarded, Unguarded
  <1> QED  BY AlwaysInv, <1>1, PTL

\* No run that was started with a typing error copies keys.
THEOREM TyposCopyNothing == Spec => []TypoFailsEarly
  <1>1. Inv => TypoFailsEarly
    BY DEF Inv, Outside, TypoFailsEarly
  <1> QED  BY AlwaysInv, <1>1, PTL

-----------------------------------------------------------------------------
(* What has been delivered                                                 *)
(*                                                                         *)
(* Nothing is assumed about the turns: a slot may come up twice.  The      *)
(* directories hold what some run put there, none of a run to come; only   *)
(* root_hash_mismatch leaves a pin; and what this run wrote, it wrote for  *)
(* a slot that can be made, the chain before the pin.                      *)

PastIsSeq == past \in Seq(Certs(past))

Records ==
    \A s \in DOMAIN disk :
        /\ disk[s] = [chain |-> disk[s].chain, pin |-> disk[s].pin, by |-> disk[s].by]
        /\ disk[s].by \in Nat /\ disk[s].by <= run
        /\ s[1] # "root_hash_mismatch" => disk[s].pin = NoPin

Mine(s) == s \in DOMAIN disk /\ disk[s].by = run

Makes(s) == apply_scenario(s[1], base, s[2], keys)

Pinned(s) ==
    IF s[1] = "root_hash_mismatch" THEN CHOOSE root \in find_root(base) : TRUE ELSE NoPin

ChainsDone == \A s : Mine(s) => disk[s].chain \in Makes(s)

PastDone == \A s \in Certs(past) : Makes(s) # {} => Mine(s) /\ disk[s].pin = Pinned(s)

HalfWay == phase = "extras" => turns # <<>> /\ Mine(Slot)

DInv == run \in Nat /\ PastIsSeq /\ Records /\ ChainsDone /\ PastDone /\ HalfWay

LEMMA DInitInv == Init => DInv
  BY DEF Init, DInv, PastIsSeq, Records, ChainsDone, Mine, PastDone, HalfWay, Certs

\* One more turn is over.
LEMMA PastGrows ==
    ASSUME PastIsSeq, NEW s
    PROVE  Append(past, s) \in Seq(Certs(Append(past, s)))
           /\ Certs(Append(past, s)) = Certs(past) \cup {s}
  <1> DEFINE S == Certs(past) \cup {s}
             longer == Append(past, s)
  <1>1. past \in Seq(S)
    <2>1. past \in Seq(Certs(past)) /\ Certs(past) \subseteq S
      BY DEF PastIsSeq
    <2> HIDE DEF S
    <2> QED  BY <2>1
  <1>2. s \in S
    OBVIOUS
  <1>3. /\ Len(past) \in Nat
        /\ longer \in Seq(S)
        /\ Len(longer) = Len(past) + 1
        /\ \A i \in 1..Len(past) : longer[i] = past[i]
        /\ longer[Len(past) + 1] = s
    <2> HIDE DEF S
    <2> QED  BY <1>1, <1>2
  <1>4. Certs(longer) = S
    <2> HIDE DEF longer
    <2>1. \A i \in 1..Len(longer) : longer[i] \in S
      BY <1>3 DEF Certs
    <2>2. \A i \in 1..Len(past) : past[i] \in Certs(longer)
      BY <1>3 DEF Certs
    <2>3. s \in Certs(longer)
      BY <1>3 DEF Certs
    <2> QED  BY <2>1, <2>2, <2>3 DEF Certs
  <1> QED  BY <1>3, <1>4

\* A step that leaves the directories and the turns alone.
LEMMA DQuiet ==
    ASSUME DInv, UNCHANGED <<run, base, keys, turns, past, disk>>,
           phase' = "extras" => phase = "extras"
    PROVE  DInv'
  <1>1. \A s : Mine(s)' = Mine(s) /\ Makes(s)' = Makes(s) /\ Pinned(s)' = Pinned(s)
    BY DEF Mine, Makes, Pinned
  <1>2. Certs(past)' = Certs(past)
    BY DEF Certs
  <1>3. PastIsSeq'
    BY <1>2 DEF DInv, PastIsSeq
  <1>4. Records'
    BY DEF DInv, Records
  <1>5. ChainsDone' /\ PastDone'
    BY <1>1, <1>2 DEF DInv, ChainsDone, PastDone
  <1>6. HalfWay'
    <2>1. Slot' = Slot
      BY DEF Slot
    <2> QED  BY <1>1, <2>1 DEF DInv, HalfWay
  <1> QED  BY <1>3, <1>4, <1>5, <1>6 DEF DInv

LEMMA DRaise ==
    ASSUME NEW how, Raise(how)
    PROVE  phase' \in {"finally", "over"}
  BY DEF Raise, Leave

LEMMA DNextInv == DInv /\ [Next]_vars => DInv'
  <1> SUFFICES ASSUME DInv, [Next]_vars
               PROVE  DInv'
    OBVIOUS
  <1>1. CASE Start
    <2>1. run' = run + 1 /\ past' = <<>> /\ disk' = disk /\ phase' = "parse"
      BY <1>1 DEF Start
    <2>2. run' \in Nat /\ Records' /\ \A s : ~Mine(s)'
      BY <2>1 DEF DInv, Records, Mine
    <2>3. Certs(past') = {}
      BY <2>1 DEF Certs
    <2>4. PastIsSeq'
      BY <2>1, <2>3 DEF PastIsSeq, Certs
    <2> QED  BY <2>1, <2>2, <2>3, <2>4 DEF DInv, ChainsDone, PastDone, HalfWay
  <1>2. CASE Parse
    BY <1>2, DQuiet DEF Parse, GoTo, call
  <1>3. CASE RefuseTypo
    BY <1>3, DRaise, DQuiet DEF RefuseTypo, Untouched, call, progress
  <1>4. CASE RefuseMaterial
    BY <1>4, DRaise, DQuiet DEF RefuseMaterial, Untouched, call, progress
  <1>5. CASE MakeKeyDir
    BY <1>5, DQuiet DEF MakeKeyDir, GoTo, call, progress
  <1>6. CASE EnterTry
    BY <1>6, DQuiet DEF EnterTry, GoTo, Untouched, call, progress
  <1>7. CASE RefuseChain
    BY <1>7, DRaise, DQuiet DEF RefuseChain, Untouched, call, progress
  <1>8. CASE FindChain
    BY <1>8, DQuiet DEF FindChain, GoTo, Untouched, call, progress
  <1>9. CASE Choose
    <2>1. phase' # "extras"
      BY <1>9, DRaise DEF Choose, GoTo
    <2> QED  BY <1>9, <2>1, DQuiet DEF Choose, call
  <1>10. CASE Place
    <2>1. phase = "place" /\ phase' # "extras" /\ UNCHANGED <<run, base, keys, past, disk>>
      BY <1>10, DRaise DEF Place, GoTo, call
    <2>2. \A s : Mine(s)' = Mine(s) /\ Makes(s)' = Makes(s) /\ Pinned(s)' = Pinned(s)
      BY <2>1 DEF Mine, Makes, Pinned
    <2>3. PastIsSeq' /\ Certs(past)' = Certs(past)
      BY <2>1 DEF DInv, PastIsSeq, Certs
    <2>4. HalfWay'
      BY <2>1 DEF HalfWay
    <2> QED
      BY <2>1, <2>2, <2>3, <2>4 DEF DInv, Records, ChainsDone, PastDone
  <1>11. CASE Skip
    <2>1. /\ phase = "turn" /\ Corrupted = {} /\ past' = Append(past, Slot)
          /\ UNCHANGED <<run, base, keys, phase, disk>>
      BY <1>11 DEF Skip, call
    <2>2. PastIsSeq' /\ Certs(past') = Certs(past) \cup {Slot}
      BY <2>1, PastGrows DEF DInv, PastIsSeq
    <2>3. Makes(Slot) = {}
      BY <2>1 DEF Corrupted, Makes
    <2>4. PastDone'
      BY <2>1, <2>2, <2>3 DEF DInv, PastDone, Mine, Makes, Pinned
    <2> QED
      BY <2>1, <2>2, <2>4 DEF DInv, Records, ChainsDone, Mine, Makes, HalfWay
  <1>12. CASE WriteKey
    BY <1>12, DQuiet DEF WriteKey, call, progress
  <1>13. CASE Save
    <2>1. /\ phase' = "extras" /\ turns # <<>>
          /\ UNCHANGED <<run, base, keys, turns, past>>
      BY <1>13 DEF Save, GoTo, call, progress
    <2>2. PICK modified \in Makes(Slot) : Put(modified)
      BY <1>13 DEF Save, Corrupted, Makes
    <2> DEFINE pin == IF Slot \in DOMAIN disk THEN disk[Slot].pin ELSE NoPin
               new == [chain |-> modified, pin |-> pin, by |-> run]
    <2>3. /\ DOMAIN disk' = DOMAIN disk \cup {Slot}
          /\ disk'[Slot] = new
          /\ \A s \in DOMAIN disk \ {Slot} : disk'[s] = disk[s]
      BY <2>2 DEF Put
    <2>4. new.chain = modified /\ new.pin = pin /\ new.by = run
          /\ new = [chain |-> new.chain, pin |-> new.pin, by |-> new.by]
      OBVIOUS
    <2>5. Slot[1] # "root_hash_mismatch" => pin = NoPin
      BY DEF DInv, Records
    <2> HIDE DEF new
    <2>6. Records'
      BY <2>1, <2>3, <2>4, <2>5 DEF DInv, Records
    <2>7. Slot' = Slot /\ \A s : Makes(s)' = Makes(s) /\ Pinned(s)' = Pinned(s)
      BY <2>1 DEF Slot, Makes, Pinned
    <2>8. \A s : Mine(s)' <=> s = Slot \/ Mine(s)
      BY <2>1, <2>3, <2>4 DEF Mine
    <2>9. ChainsDone'
      BY <2>2, <2>3, <2>4, <2>7, <2>8 DEF DInv, ChainsDone, Mine
    <2>10. PastDone'
      <3> SUFFICES ASSUME NEW s \in Certs(past), Makes(s) # {}
                   PROVE  disk'[s].pin = Pinned(s)
        BY <2>1, <2>7, <2>8 DEF PastDone, DInv, Certs
      <3>1. Mine(s) /\ disk[s].pin = Pinned(s)
        BY DEF DInv, PastDone
      <3>2. CASE s = Slot
        BY <2>3, <2>4, <3>1, <3>2 DEF Mine
      <3>3. CASE s # Slot
        BY <2>3, <3>1, <3>3 DEF Mine
      <3> QED  BY <3>2, <3>3
    <2>11. HalfWay'
      BY <2>1, <2>7, <2>8 DEF HalfWay
    <2>12. PastIsSeq' /\ run' \in Nat
      BY <2>1 DEF DInv, PastIsSeq, Certs
    <2> QED  BY <2>6, <2>9, <2>10, <2>11, <2>12 DEF DInv
  <1>14. CASE WriteExtras
    <2>1. /\ phase = "extras" /\ phase' = "turn" /\ past' = Append(past, Slot)
          /\ UNCHANGED <<run, base, keys>>
      BY <1>14 DEF WriteExtras, GoTo, call
    <2>2. Mine(Slot)
      BY <2>1 DEF DInv, HalfWay
    <2>3. /\ DOMAIN disk' = DOMAIN disk
          /\ \A s \in DOMAIN disk \ {Slot} : disk'[s] = disk[s]
          /\ disk'[Slot].chain = disk[Slot].chain
          /\ disk'[Slot].by = disk[Slot].by
          /\ disk'[Slot].pin = Pinned(Slot)
          /\ disk'[Slot] = [chain |-> disk'[Slot].chain, pin |-> disk'[Slot].pin, by |-> disk'[Slot].by]
      <3>1. disk[Slot] = [chain |-> disk[Slot].chain, pin |-> disk[Slot].pin, by |-> disk[Slot].by]
        BY <2>2 DEF DInv, Records, Mine
      <3>2. CASE Slot[1] = "root_hash_mismatch"
        <4> DEFINE root == CHOOSE r \in find_root(base) : TRUE
        <4>1. disk' = [disk EXCEPT ![Slot].pin = root] /\ Pinned(Slot) = root
          BY <1>14, <3>2 DEF WriteExtras, Pinned
        <4> HIDE DEF root
        <4>2. disk'[Slot] = [chain |-> disk[Slot].chain, pin |-> root, by |-> disk[Slot].by]
          BY <2>2, <3>1, <4>1 DEF Mine
        <4> QED  BY <2>2, <4>1, <4>2 DEF Mine
      <3>3. CASE Slot[1] # "root_hash_mismatch"
        <4>1. disk' = disk /\ Pinned(Slot) = NoPin
          BY <1>14, <3>3 DEF WriteExtras, Pinned
        <4>2. disk[Slot].pin = NoPin
          BY <2>2, <3>3 DEF DInv, Records, Mine
        <4> QED  BY <3>1, <4>1, <4>2
      <3> QED  BY <3>2, <3>3
    <2>4. PastIsSeq' /\ Certs(past') = Certs(past) \cup {Slot}
      BY <2>1, PastGrows DEF DInv, PastIsSeq
    <2>5. \A s : /\ Mine(s)' = Mine(s)
                /\ Makes(s)' = Makes(s) /\ Pinned(s)' = Pinned(s)
      BY <2>1, <2>2, <2>3 DEF Mine, Makes, Pinned
    <2>6. Records'
      BY <2>1, <2>2, <2>3 DEF DInv, Records, Mine, Pinned
    <2>7. ChainsDone'
      BY <2>1, <2>2, <2>3, <2>5 DEF DInv, ChainsDone, Mine
    <2>8. PastDone'
      BY <2>1, <2>2, <2>3, <2>4, <2>5 DEF DInv, PastDone, Mine
    <2> QED  BY <2>1, <2>4, <2>6, <2>7, <2>8 DEF DInv, HalfWay
  <1>15. CASE Finish
    BY <1>15, DRaise, DQuiet DEF Finish, Untouched, call, progress
  <1>16. CASE Unlink
    BY <1>16, DQuiet DEF Unlink, call, progress
  <1>17. CASE RemoveKeyDir
    BY <1>17, DQuiet DEF RemoveKeyDir, GoTo, call, progress
  <1>18. CASE GiveUp
    BY <1>18, DQuiet DEF GiveUp, Leave, Untouched, call, progress
  <1>19. CASE Fail
    BY <1>19, DRaise, DQuiet DEF Fail, Untouched, call, progress
  <1>20. CASE Interrupt
    BY <1>20, DRaise, DQuiet DEF Interrupt, Untouched, call, progress
  <1>21. CASE Kill
    BY <1>21, DQuiet DEF Kill, Leave, Untouched, call, progress
  <1>22. CASE UNCHANGED vars
    BY <1>22, DQuiet DEF vars, call, progress
  <1> QED
    BY <1>1, <1>2, <1>3, <1>4, <1>5, <1>6, <1>7, <1>8, <1>9, <1>10, <1>11, <1>12, <1>13,
       <1>14, <1>15, <1>16, <1>20, <1>21, <1>22, <1>17, <1>18, <1>19
    DEF Next, Step

\* At any moment, and however the run ends, a turn that is over has left the
\* fault it was to make, with its pin, or nothing of this run's.
THEOREM Delivery == Spec => []DeliveredSoFar
  <1>1. DInv => DeliveredSoFar
    <2> SUFFICES ASSUME DInv, NEW s \in Certs(past)
                 PROVE  IF Intended(s) = {}
                        THEN s \in DOMAIN disk => disk[s].by # run
                        ELSE s \in DOMAIN disk /\ disk[s] \in Intended(s)
      BY DEF DeliveredSoFar
    <2>1. Intended(s) = {[chain |-> modified, pin |-> Pinned(s), by |-> run] : modified \in Makes(s)}
      BY DEF Intended, Pinned, Makes
    <2>2. CASE Makes(s) = {}
      BY <2>1, <2>2 DEF DInv, ChainsDone, Mine
    <2>3. CASE Makes(s) # {}
      <3>1. Mine(s) /\ disk[s].pin = Pinned(s) /\ disk[s].chain \in Makes(s)
        BY <2>3 DEF DInv, PastDone, ChainsDone
      <3>2. disk[s] = [chain |-> disk[s].chain, pin |-> Pinned(s), by |-> run]
        BY <3>1 DEF DInv, Records, Mine
      <3> QED  BY <2>1, <2>3, <3>1, <3>2 DEF Mine
    <2> QED  BY <2>2, <2>3
  <1> QED  BY DInitInv, DNextInv, <1>1, PTL DEF Spec

-----------------------------------------------------------------------------
(* Repetitions                                                             *)
(*                                                                         *)
(* Distinct and Turns are recursive functions on 0..n: that their equations *)
(* have solutions, and what these are like, is shown from the least        *)
(* counterexample.                                                         *)

\* A set of naturals has a least element.
LEMMA Least ==
    ASSUME NEW S \in SUBSET Nat, S # {}
    PROVE  \E m \in S : \A k \in S : m <= k
  <1>1. PICK m \in S : \A k \in S : ~ (<<k, m>> \in OpToRel(<, Nat))
    BY WFMin, NatLessThanWellFounded
  <1>2. \A k \in S : ~(k < m)
    BY <1>1 DEF OpToRel
  <1> QED  BY <1>2

Follows(f, S, start, k, step) ==
    /\ f \in [0..k -> S] /\ f[0] = start
    /\ \A i \in 1..k : f[i] = step[<<f[i-1], i>>]

\* Going on from a start by steps is possible any number of times.
LEMMA Recursion ==
    ASSUME NEW S, NEW start \in S, NEW n \in Nat, NEW step \in [S \X (1..n) -> S]
    PROVE  \E f : Follows(f, S, start, n, step)
  <1> DEFINE Bad == {k \in 0..n : ~\E f : Follows(f, S, start, k, step)}
  <1>1. SUFFICES ASSUME Bad # {} PROVE FALSE
    <2>1. n \in 0..n
      OBVIOUS
    <2>2. \E f : Follows(f, S, start, n, step)
      BY <2>1, <1>1
    <2> QED  BY <2>2
  <1>2. PICK k \in Bad : \A j \in Bad : k <= j
    <2>1. Bad \in SUBSET Nat
      OBVIOUS
    <2> HIDE DEF Bad
    <2> QED  BY <1>1, <2>1, Least
  <1>3. k \in 0..n /\ ~\E f : Follows(f, S, start, k, step)
    BY <1>2
  <1>4. k # 0
    <2> DEFINE f == [i \in 0..0 |-> start]
    <2>1. Follows(f, S, start, 0, step)
      BY DEF Follows
    <2> HIDE DEF f
    <2> QED  BY <2>1, <1>3
  <1>5. k - 1 \in 0..n /\ k - 1 \notin Bad
    <2>1. k - 1 \in 0..n /\ ~(k <= k - 1)
      BY <1>3, <1>4
    <2> HIDE DEF Bad
    <2> QED  BY <1>2, <2>1
  <1>6. PICK g : Follows(g, S, start, k - 1, step)
    BY <1>5
  <1> DEFINE f == [i \in 0..k |-> IF i = k THEN step[<<g[k-1], k>>] ELSE g[i]]
  <1>7. Follows(f, S, start, k, step)
    <2>0. /\ g \in [0..k-1 -> S] /\ g[0] = start
          /\ \A i \in 1..k-1 : g[i] = step[<<g[i-1], i>>]
      BY <1>6 DEF Follows
    <2>1. k \in 1..n /\ k - 1 \in 0..k-1 /\ g[k-1] \in S
      BY <1>3, <1>4, <2>0
    <2>2. step[<<g[k-1], k>>] \in S
      BY <2>1
    <2>3. f \in [0..k -> S] /\ f[0] = start
      BY <2>1, <2>2, <2>0
    <2>4. \A i \in 1..k : f[i] = step[<<f[i-1], i>>]
      <3> TAKE i \in 1..k
      <3>1. i \in 0..k /\ i - 1 \in 0..k-1 /\ f[i-1] = g[i-1]
        BY <2>1
      <3>2. CASE i = k
        BY <3>1, <3>2
      <3>3. CASE i # k
        <4>1. i \in 1..k-1 /\ f[i] = g[i]
          BY <3>1, <3>3, <2>1
        <4> QED  BY <4>1, <3>1, <2>0
      <3> QED  BY <3>2, <3>3
    <2> HIDE DEF f
    <2> QED  BY <2>3, <2>4 DEF Follows
  <1> HIDE DEF f
  <1> QED  BY <1>3, <1>7

\* What holds at 0 and is handed on holds all the way: the places where it
\* fails have no least.
LEMMA HandedOn ==
    ASSUME NEW n \in Nat, NEW Right \in SUBSET (0..n), 0 \in Right,
           \A k \in 1..n : k - 1 \in Right => k \in Right
    PROVE  n \in Right
  <1> DEFINE Bad == (0..n) \ Right
  <1>1. SUFFICES ASSUME Bad # {} PROVE FALSE
    BY <1>1
  <1>2. PICK k \in Bad : \A j \in Bad : k <= j
    <2>1. Bad \in SUBSET Nat
      OBVIOUS
    <2> HIDE DEF Bad
    <2> QED  BY <1>1, <2>1, Least
  <1>3. k \in 1..n /\ k - 1 \notin Bad
    BY <1>2
  <1> QED  BY <1>2, <1>3

\* Adding at the end.
LEMMA AddedAtEnd ==
    ASSUME NEW T, NEW s \in Seq(T), NEW x \in T, NoRepeats(s), x \notin Certs(s)
    PROVE  Append(s, x) \in Seq(T) /\ NoRepeats(Append(s, x))
  <1> DEFINE longer == Append(s, x)
  <1>1. /\ Len(s) \in Nat /\ longer \in Seq(T) /\ Len(longer) = Len(s) + 1
        /\ \A i \in 1..Len(s) : longer[i] = s[i]
        /\ longer[Len(s) + 1] = x
    OBVIOUS
  <1> HIDE DEF longer
  <1>2. \A i \in 1..Len(s) : s[i] # x
    BY DEF Certs
  <1>3. NoRepeats(longer)
    BY <1>1, <1>2 DEF NoRepeats
  <1> QED  BY <1>1, <1>3 DEF longer

\* The items of a list, once each.
LEMMA DistinctFacts ==
    ASSUME NEW T, NEW s \in Seq(T)
    PROVE  Distinct(s) \in Seq(T) /\ NoRepeats(Distinct(s))
  <1> DEFINE n == Len(s)
             Next1(q, i) == IF s[i] \in Certs(q) THEN q ELSE Append(q, s[i])
             Equation(f) == f = [i \in 0..n |-> IF i = 0 THEN <<>> ELSE Next1(f[i-1], i)]
             step == [x \in Seq(T) \X (1..n) |-> Next1(x[1], x[2])]
             seen == CHOOSE f : Equation(f)
  <1>1. n \in Nat /\ \A i \in 1..n : s[i] \in T
    OBVIOUS
  <1>2. \A q \in Seq(T) : \A i \in 1..n : Next1(q, i) \in Seq(T) /\ step[<<q, i>>] = Next1(q, i)
    BY <1>1
  <1>3. \E f : Equation(f)
    <2>1. step \in [Seq(T) \X (1..n) -> Seq(T)]
      <3> HIDE DEF n
      <3> SUFFICES ASSUME NEW x \in Seq(T) \X (1..n) PROVE Next1(x[1], x[2]) \in Seq(T)
        OBVIOUS
      <3> QED  BY <1>2
    <2>2. <<>> \in Seq(T)
      OBVIOUS
    <2> HIDE DEF step, n, Next1
    <2>3. PICK f : Follows(f, Seq(T), <<>>, n, step)
      <3>1. n \in Nat
        BY <1>1
      <3> QED  BY <3>1, <2>1, <2>2, Recursion
    <2>4. \A i \in 0..n : f[i] = IF i = 0 THEN <<>> ELSE Next1(f[i-1], i)
      <3>0. /\ f \in [0..n -> Seq(T)] /\ f[0] = <<>>
            /\ \A i \in 1..n : f[i] = step[<<f[i-1], i>>]
        BY <2>3 DEF Follows
      <3> TAKE i \in 0..n
      <3>1. CASE i # 0
        <4>1. i \in 1..n /\ f[i-1] \in Seq(T)
          BY <1>1, <3>0, <3>1
        <4> QED  BY <4>1, <1>2, <3>0, <3>1
      <3> QED  BY <3>0, <3>1
    <2>5. f = [i \in 0..n |-> f[i]]
      BY <2>3 DEF Follows
    <2>6. Equation(f)
      BY <2>4, <2>5
    <2> QED  BY <2>6
  <1>4. Distinct(s) = seen[n]
    BY DEF Distinct
  <1>5. Equation(seen)
    <2> HIDE DEF Equation
    <2> QED  BY <1>3
  <1>6. seen[0] = <<>> /\ \A k \in 1..n : seen[k] = Next1(seen[k-1], k)
    <2> HIDE DEF seen, step, n, Next1
    <2> SUFFICES ASSUME NEW k \in 0..n
                 PROVE  seen[k] = IF k = 0 THEN <<>> ELSE Next1(seen[k-1], k)
      BY <1>1
    <2> QED  BY <1>5
  <1> HIDE DEF seen, step, n, Equation
  <1> DEFINE Right == {k \in 0..n : seen[k] \in Seq(T) /\ NoRepeats(seen[k])}
  <1>7. 0 \in Right
    <2>1. <<>> \in Seq(T) /\ Len(<<>>) = 0
      OBVIOUS
    <2>2. 0 \in 0..n /\ seen[0] = <<>>
      BY <1>1, <1>6
    <2>3. NoRepeats(<<>>)
      BY <2>1 DEF NoRepeats
    <2> QED  BY <2>1, <2>2, <2>3
  <1>8. ASSUME NEW k \in 1..n, k - 1 \in Right
        PROVE  k \in Right
    <2>1. k \in 0..n /\ seen[k] = Next1(seen[k-1], k)
      BY <1>1, <1>6
    <2>2. seen[k-1] \in Seq(T) /\ NoRepeats(seen[k-1])
      BY <1>8
    <2>3. CASE s[k] \in Certs(seen[k-1])
      BY <2>1, <2>2, <2>3
    <2>4. CASE s[k] \notin Certs(seen[k-1])
      <3>1. s[k] \in T
        BY <1>1
      <3>2. seen[k] = Append(seen[k-1], s[k])
        BY <2>1, <2>4
      <3>3. seen[k] \in Seq(T) /\ NoRepeats(seen[k])
        BY <2>2, <2>4, <3>1, <3>2, AddedAtEnd
      <3> QED  BY <2>1, <3>3
    <2> QED  BY <2>3, <2>4
  <1>9. n \in Right
    <2> HIDE DEF Right
    <2>1. Right \in SUBSET (0..n)
      BY DEF Right
    <2> QED  BY <1>1, <1>7, <1>8, <2>1, HandedOn
  <1> QED  BY <1>4, <1>9

\* Two lists that have nothing in common, one after the other.
LEMMA Joined ==
    ASSUME NEW T, NEW s \in Seq(T), NEW t \in Seq(T),
           NoRepeats(s), NoRepeats(t), Certs(s) \cap Certs(t) = {}
    PROVE  /\ s \o t \in Seq(T) /\ NoRepeats(s \o t)
           /\ Certs(s \o t) = Certs(s) \cup Certs(t)
  <1> DEFINE j == s \o t
             m == Len(s)
             n == Len(t)
  <1>1. /\ m \in Nat /\ n \in Nat /\ j \in Seq(T) /\ Len(j) = m + n
        /\ \A i \in 1..m : j[i] = s[i]
        /\ \A i \in m+1..m+n : j[i] = t[i - m]
    BY ConcatProperties, LenProperties
  <1> HIDE DEF j
  <1>2. \A i \in 1..m : s[i] \in Certs(s)
    BY DEF Certs
  <1>3. \A i \in 1..n : t[i] \in Certs(t)
    BY DEF Certs
  <1> HIDE DEF m, n
  <1>4. \A i \in 1..Len(j) : i \in 1..m \/ (i \in m+1..m+n /\ i - m \in 1..n)
    BY <1>1
  <1>5. NoRepeats(j)
    <2> SUFFICES ASSUME NEW a \in 1..Len(j), NEW b \in 1..Len(j), j[a] = j[b]
                 PROVE  a = b
      BY DEF NoRepeats
    <2>1. CASE a \in 1..m /\ b \in 1..m
      BY <2>1, <1>1 DEF NoRepeats, m
    <2>2. CASE a \in m+1..m+n /\ b \in m+1..m+n
      <3>1. a - m \in 1..n /\ b - m \in 1..n /\ t[a - m] = t[b - m]
        BY <2>2, <1>1
      <3>2. a - m = b - m
        BY <3>1 DEF NoRepeats, n
      <3> QED  BY <3>2, <2>2, <1>1
    <2>3. CASE a \in 1..m /\ b \in m+1..m+n
      <3>1. b - m \in 1..n /\ j[a] = s[a] /\ j[b] = t[b - m]
        BY <2>3, <1>1
      <3> QED  BY <3>1, <2>3, <1>2, <1>3
    <2>4. CASE b \in 1..m /\ a \in m+1..m+n
      <3>1. a - m \in 1..n /\ j[b] = s[b] /\ j[a] = t[a - m]
        BY <2>4, <1>1
      <3> QED  BY <3>1, <2>4, <1>2, <1>3
    <2> QED  BY <2>1, <2>2, <2>3, <2>4, <1>4
  <1>6. Certs(j) = Certs(s) \cup Certs(t)
    <2>1. ASSUME NEW i \in 1..Len(j) PROVE j[i] \in Certs(s) \cup Certs(t)
      BY <1>1, <1>2, <1>3, <1>4
    <2>2. ASSUME NEW i \in 1..m PROVE s[i] \in Certs(j)
      <3>1. i \in 1..Len(j) /\ j[i] = s[i]
        BY <1>1
      <3> QED  BY <3>1 DEF Certs
    <2>3. ASSUME NEW i \in 1..n PROVE t[i] \in Certs(j)
      <3>1. m + i \in 1..Len(j) /\ m + i \in m+1..m+n /\ (m + i) - m = i
        BY <1>1
      <3>2. j[m + i] = t[i]
        BY <1>1, <3>1
      <3> QED  BY <3>1, <3>2 DEF Certs
    <2> QED  BY <2>1, <2>2, <2>3 DEF Certs, m, n
  <1> QED  BY <1>1, <1>5, <1>6 DEF j

\* No scenario is made twice for one position.
LEMMA TurnsFacts ==
    ASSUME NEW C, NEW chosen \in Seq(C), NEW positions \in Seq(Nat),
           NoRepeats(chosen), NoRepeats(positions)
    PROVE  /\ Turns(chosen, positions) \in Seq(C \X Nat)
           /\ NoRepeats(Turns(chosen, positions))
  <1> DEFINE n == Len(chosen)
             T == C \X Nat
             targets(i) == Targets(chosen[i], positions)
             block(i) == [j \in 1..Len(targets(i)) |-> <<chosen[i], targets(i)[j]>>]
             Equation(f) == f = [i \in 0..n |-> IF i = 0 THEN <<>> ELSE f[i-1] \o block(i)]
             step == [x \in Seq(T) \X (1..n) |-> x[1] \o block(x[2])]
             ahead == CHOOSE f : Equation(f)
  <1>1. n \in Nat /\ \A i \in 1..n : chosen[i] \in C
    OBVIOUS
  <1>2. ASSUME NEW i \in 1..n
        PROVE  /\ block(i) \in Seq(T) /\ NoRepeats(block(i))
               /\ \A t \in Certs(block(i)) : t[1] = chosen[i]
    <2> DEFINE q == targets(i)
               c == chosen[i]
    <2>1. q \in Seq(Nat) /\ NoRepeats(q) /\ c \in C
      <3>1. <<0>> \in Seq(Nat) /\ Len(<<0>>) = 1
        OBVIOUS
      <3>2. NoRepeats(<<0>>)
        BY <3>1 DEF NoRepeats
      <3> QED  BY <1>1, <3>1, <3>2 DEF Targets
    <2> HIDE DEF q, c
    <2>2. Len(q) \in Nat /\ \A j \in 1..Len(q) : q[j] \in Nat
      BY <2>1
    <2> DEFINE b == [j \in 1..Len(q) |-> <<c, q[j]>>]
    <2>3. b \in [1..Len(q) -> T]
      BY <2>1, <2>2
    <2>4. b \in Seq(T) /\ Len(b) = Len(q)
      BY <2>2, <2>3, SeqDef, LenProperties
    <2>5. \A j \in 1..Len(q) : b[j] = <<c, q[j]>>
      OBVIOUS
    <2>6. block(i) = b
      BY DEF q, c
    <2> HIDE DEF b, block
    <2>7. NoRepeats(b)
      BY <2>1, <2>4, <2>5 DEF NoRepeats
    <2>8. \A t \in Certs(b) : t[1] = c
      BY <2>4, <2>5 DEF Certs
    <2> QED  BY <2>4, <2>6, <2>7, <2>8 DEF c
  <1> HIDE DEF T, block
  <1>3. \E f : Equation(f)
    <2>1. step \in [Seq(T) \X (1..n) -> Seq(T)]
      <3> HIDE DEF n
      <3> SUFFICES ASSUME NEW x \in Seq(T) \X (1..n) PROVE x[1] \o block(x[2]) \in Seq(T)
        OBVIOUS
      <3> QED  BY <1>2, ConcatProperties
    <2>2. <<>> \in Seq(T)
      OBVIOUS
    <2>3. \A q \in Seq(T) : \A i \in 1..n : step[<<q, i>>] = q \o block(i)
      OBVIOUS
    <2> HIDE DEF step, n
    <2>4. PICK f : Follows(f, Seq(T), <<>>, n, step)
      <3>1. n \in Nat
        BY <1>1
      <3> QED  BY <3>1, <2>1, <2>2, Recursion
    <2>5. /\ f \in [0..n -> Seq(T)] /\ f[0] = <<>>
          /\ \A i \in 1..n : f[i] = step[<<f[i-1], i>>]
      BY <2>4 DEF Follows
    <2>6. \A i \in 0..n : f[i] = IF i = 0 THEN <<>> ELSE f[i-1] \o block(i)
      <3> TAKE i \in 0..n
      <3>1. CASE i # 0
        <4>1. i \in 1..n /\ f[i-1] \in Seq(T)
          BY <1>1, <2>5, <3>1
        <4> QED  BY <4>1, <2>3, <2>5, <3>1
      <3> QED  BY <2>5, <3>1
    <2>7. f = [i \in 0..n |-> f[i]]
      BY <2>5
    <2>8. Equation(f)
      BY <2>6, <2>7
    <2> QED  BY <2>8
  <1>4. Turns(chosen, positions) = ahead[n]
    BY DEF Turns, block
  <1>5. Equation(ahead)
    <2> HIDE DEF Equation
    <2> QED  BY <1>3
  <1>6. ahead[0] = <<>> /\ \A k \in 1..n : ahead[k] = ahead[k-1] \o block(k)
    <2> HIDE DEF ahead, step, n
    <2>1. n \in Nat /\ 0 \in 0..n /\ \A k \in 1..n : k \in 0..n /\ k # 0
      BY <1>1
    <2>2. ASSUME NEW k \in 0..n
          PROVE  ahead[k] = IF k = 0 THEN <<>> ELSE ahead[k-1] \o block(k)
      BY <1>5
    <2>3. ahead[0] = <<>>
      BY <2>1, <2>2
    <2>4. ASSUME NEW k \in 1..n PROVE ahead[k] = ahead[k-1] \o block(k)
      BY <2>1, <2>2
    <2> QED  BY <2>3, <2>4
  <1> DEFINE From(k) == \A t \in Certs(ahead[k]) : \E i \in 1..k : t[1] = chosen[i]
             Right == {k \in 0..n : ahead[k] \in Seq(T) /\ NoRepeats(ahead[k]) /\ From(k)}
  <1> HIDE DEF ahead, step, Equation
  <1>7. 0 \in Right
    <2>1. <<>> \in Seq(T) /\ Len(<<>>) = 0
      OBVIOUS
    <2>2. NoRepeats(<<>>) /\ Certs(<<>>) = {}
      BY <2>1 DEF NoRepeats, Certs
    <2>3. 0 \in 0..n /\ ahead[0] = <<>>
      BY <1>1, <1>6
    <2> QED  BY <2>1, <2>2, <2>3
  <1>8. ASSUME NEW k \in 1..n, k - 1 \in Right
        PROVE  k \in Right
    <2> DEFINE s == ahead[k-1]
    <2>1. k \in 0..n /\ ahead[k] = s \o block(k)
      BY <1>1, <1>6
    <2>2. s \in Seq(T) /\ NoRepeats(s) /\ From(k-1)
      BY <1>8
    <2>3. Certs(s) \cap Certs(block(k)) = {}
      <3> SUFFICES ASSUME NEW t \in Certs(s), t[1] = chosen[k]
                   PROVE  FALSE
        BY <1>2
      <3>1. PICK i \in 1..k-1 : t[1] = chosen[i]
        BY <2>2
      <3>2. i \in 1..n /\ i # k
        BY <1>1
      <3> QED  BY <3>1, <3>2 DEF NoRepeats
    <2> HIDE DEF s
    <2>4. /\ ahead[k] \in Seq(T) /\ NoRepeats(ahead[k])
          /\ Certs(ahead[k]) = Certs(s) \cup Certs(block(k))
      BY <1>2, <2>1, <2>2, <2>3, Joined
    <2>5. From(k)
      <3> SUFFICES ASSUME NEW t \in Certs(ahead[k])
                   PROVE  \E i \in 1..k : t[1] = chosen[i]
        OBVIOUS
      <3>1. CASE t \in Certs(s)
        BY <3>1, <2>2, <1>1 DEF s
      <3>2. CASE t \in Certs(block(k))
        <4>1. t[1] = chosen[k] /\ k \in 1..k
          BY <3>2, <1>1, <1>2
        <4> QED  BY <4>1
      <3> QED  BY <2>4, <3>1, <3>2
    <2> QED  BY <2>1, <2>4, <2>5
  <1>9. n \in Right
    <2> HIDE DEF Right
    <2>1. Right \in SUBSET (0..n)
      BY DEF Right
    <2> QED  BY <1>1, <1>7, <1>8, <2>1, HandedOn
  <1> QED  BY <1>4, <1>9 DEF T

-----------------------------------------------------------------------------
(* The count: the turns behind and ahead are all different, what this run  *)
(* has written belongs to one behind, but for the one half written.        *)

Slots == SCENARIOS \X Nat

Written == {s \in DOMAIN disk : disk[s].by = run}

Answered ==
    /\ selection \in Selections \cup {NotGiven}
    /\ where \in Places \cup {NotGiven}
    /\ choices \in Seq(SCENARIOS) /\ NoRepeats(choices)

Different ==
    /\ past \in Seq(Slots) /\ NoRepeats(past)
    /\ turns \in Seq(Slots) /\ NoRepeats(turns)
    /\ Certs(past) \cap Certs(turns) = {}

\* Before the turns are laid out.
Preparing == {"parse", "read", "keys", "trust", "choose", "place"}

Early == phase \in Preparing => past = <<>> /\ turns = <<>>

Own == \A s \in Written : s \in Certs(past) \/ (turns # <<>> /\ s = Slot)

Between == phase = "turn" => Written \subseteq Certs(past)

Counted == made = Cardinality(Written \cap Certs(past))

CInv == Answered /\ Different /\ Early /\ Own /\ Between /\ Counted

\* The empty list.
LEMMA NothingYet ==
    ASSUME NEW T
    PROVE  <<>> \in Seq(T) /\ NoRepeats(<<>>) /\ Certs(<<>>) = {}
  <1>1. <<>> \in Seq(T) /\ Len(<<>>) = 0
    OBVIOUS
  <1> QED  BY <1>1 DEF NoRepeats, Certs

LEMMA CInitInv == Init => CInv
  <1> SUFFICES ASSUME Init PROVE CInv
    OBVIOUS
  <1>1. Written = {}
    BY DEF Init, Written
  <1>2. Answered /\ Different
    <2>1. choices = <<>> /\ past = <<>> /\ turns = <<>>
          /\ selection = NotGiven /\ where = NotGiven
      BY DEF Init
    <2> QED  BY <2>1, NothingYet DEF Answered, Different
  <1>3. Counted
    <2>1. made = 0 /\ Written \cap Certs(past) = {}
      BY <1>1 DEF Init
    <2> QED  BY <2>1, FS_EmptySet DEF Counted
  <1> QED  BY <1>1, <1>2, <1>3 DEF Init, CInv, Early, Own, Between

\* What an answer's tokens stand for, read as a list.
LEMMA ReadFacts ==
    ASSUME NEW S, NEW tokens \in Seq(SUBSET S), {} \notin Certs(tokens)
    PROVE  Read(tokens) \in Seq(S) /\ NoRepeats(Read(tokens))
  <1> DEFINE n == Len(tokens)
             items == [i \in 1..n |-> CHOOSE x \in tokens[i] : TRUE]
  <1>1. n \in Nat /\ \A i \in 1..n : tokens[i] \in SUBSET S
    OBVIOUS
  <1>2. \A i \in 1..n : tokens[i] # {}
    BY DEF Certs
  <1>3. items \in [1..n -> S]
    BY <1>1, <1>2
  <1>4. items \in Seq(S)
    BY <1>1, <1>3, SeqDef
  <1>5. Read(tokens) = Distinct(items)
    BY DEF Read
  <1> HIDE DEF items
  <1> QED  BY <1>4, <1>5, DistinctFacts

\* Whatever scenarios are chosen, none is chosen twice; nor is a position.
LEMMA ParsedFacts ==
    ASSUME NEW tokens
    PROVE  /\ tokens \in Selections =>
                 \A s \in parse_scenarios(tokens) : s \in Seq(SCENARIOS) /\ NoRepeats(s)
           /\ tokens \in Places \cup {<<>>} =>
                 \A p \in parse_positions(tokens) : p \in Seq(Nat) /\ NoRepeats(p)
  <1>1. tokens \in Selections => tokens \in Seq(SUBSET SCENARIOS)
    BY InvalidateAssumption DEF AnswersIn
  <1>2. tokens \in Places \cup {<<>>} => tokens \in Seq(SUBSET Nat)
    BY InvalidateAssumption, NothingYet DEF AnswersIn
  <1>3. ASSUME tokens \in Selections, NEW s \in parse_scenarios(tokens)
        PROVE  s \in Seq(SCENARIOS) /\ NoRepeats(s)
    <2>1. {} \notin Certs(tokens) /\ s = Read(tokens)
      BY <1>3 DEF parse_scenarios
    <2> QED  BY <1>1, <1>3, <2>1, ReadFacts
  <1>4. ASSUME tokens \in Places \cup {<<>>}, NEW p \in parse_positions(tokens)
        PROVE  p \in Seq(Nat) /\ NoRepeats(p)
    <2>1. {} \notin Certs(tokens) /\ p = Read(tokens)
      BY <1>4 DEF parse_positions
    <2> QED  BY <1>2, <1>4, <2>1, ReadFacts
  <1> QED  BY <1>3, <1>4

\* The turn at hand goes behind.
LEMMA TurnOver ==
    ASSUME Different, turns # <<>>, turns' = Tail(turns), past' = Append(past, Slot)
    PROVE  /\ Different' /\ Slot \notin Certs(past)
           /\ Certs(past') = Certs(past) \cup {Slot}
  <1>1. /\ past \in Seq(Slots) /\ NoRepeats(past)
        /\ turns \in Seq(Slots) /\ NoRepeats(turns)
        /\ Certs(past) \cap Certs(turns) = {}
    BY DEF Different
  <1> DEFINE n == Len(turns)
             rest == Tail(turns)
  <1>2. /\ n \in Nat /\ n >= 1 /\ Slot = turns[1] /\ Slot \in Slots
        /\ rest \in Seq(Slots) /\ Len(rest) = n - 1
        /\ \A i \in 1..n-1 : rest[i] = turns[i+1]
    BY <1>1 DEF Slot
  <1> HIDE DEF rest
  <1>3. Slot \in Certs(turns)
    <2>1. 1 \in 1..n
      BY <1>2
    <2> QED  BY <1>2, <2>1 DEF Certs
  <1>4. NoRepeats(rest)
    <2> SUFFICES ASSUME NEW i \in 1..n-1, NEW j \in 1..n-1, turns[i+1] = turns[j+1]
                 PROVE  i = j
      BY <1>2 DEF NoRepeats
    <2>1. i+1 \in 1..n /\ j+1 \in 1..n
      BY <1>2
    <2>2. i+1 = j+1
      BY <1>1, <2>1 DEF NoRepeats
    <2> QED  BY <1>2, <2>2
  <1>5. \A c \in Certs(rest) : c \in Certs(turns) /\ c # Slot
    <2> SUFFICES ASSUME NEW i \in 1..n-1
                 PROVE  turns[i+1] \in Certs(turns) /\ turns[i+1] # turns[1]
      BY <1>2 DEF Certs
    <2>1. i+1 \in 1..n /\ 1 \in 1..n /\ i+1 # 1
      BY <1>2
    <2> QED  BY <1>1, <2>1 DEF Certs, NoRepeats
  <1>6. Slot \notin Certs(past)
    BY <1>1, <1>3
  <1>7. Append(past, Slot) \in Seq(Slots) /\ NoRepeats(Append(past, Slot))
    BY <1>1, <1>2, <1>6, AddedAtEnd
  <1>8. Certs(Append(past, Slot)) = Certs(past) \cup {Slot}
    <2>1. PastIsSeq
      <3>1. Len(past) \in Nat /\ past \in [1..Len(past) -> Slots]
        BY <1>1, LenProperties
      <3>2. past \in [1..Len(past) -> Certs(past)]
        BY <3>1 DEF Certs
      <3> HIDE DEF Slots
      <3> QED  BY <3>1, <3>2, SeqDef DEF PastIsSeq
    <2> QED  BY <2>1, PastGrows
  <1>9. Certs(past') \cap Certs(turns') = {}
    BY <1>1, <1>5, <1>8 DEF rest
  <1> QED  BY <1>1, <1>2, <1>4, <1>6, <1>7, <1>8, <1>9 DEF Different, rest

\* A step that writes nothing and leaves answers and turns alone.
LEMMA CQuiet ==
    ASSUME CInv, UNCHANGED <<run, selection, where, choices, turns, past, made, disk>>,
           phase' \in {"turn"} \cup Preparing => phase' = phase \/ phase \in Preparing
    PROVE  CInv'
  <1>1. Written' = Written /\ Certs(past)' = Certs(past) /\ Certs(turns)' = Certs(turns)
        /\ Slot' = Slot
    BY DEF Written, Certs, Slot
  <1>2. Answered' /\ Different'
    BY <1>1 DEF CInv, Answered, Different, NoRepeats
  <1>3. Early'
    BY DEF CInv, Early, Preparing
  <1>4. Own' /\ Counted'
    BY <1>1 DEF CInv, Own, Counted
  <1>5. Between'
    <2>1. CASE phase \in Preparing
      <3>1. \A s \in Written : s \in Certs(past)
        BY <2>1 DEF CInv, Early, Own
      <3> QED  BY <1>1, <3>1 DEF Between
    <2>2. CASE phase \notin Preparing
      BY <1>1, <2>2 DEF CInv, Between, Preparing
    <2> QED  BY <2>1, <2>2
  <1> QED  BY <1>2, <1>3, <1>4, <1>5 DEF CInv

LEMMA CRaise ==
    ASSUME CInv, NEW how, Raise(how),
           UNCHANGED <<run, selection, where, choices, turns, past, made, disk>>
    PROVE  CInv'
  <1>1. phase' \in {"finally", "over"}
    BY DRaise
  <1> QED  BY <1>1, CQuiet DEF Preparing

\* The turns that are laid out are all different.
LEMMA PlaceKeeps ==
    ASSUME CInv, Place
    PROVE  CInv'
  <1>1. /\ phase = "place" /\ past = <<>> /\ turns = <<>>
        /\ UNCHANGED <<run, selection, where, choices, past, made, disk>>
    BY DEF Place, call, CInv, Early, Preparing
  <1>2. CASE UNCHANGED turns /\ Raise("refused")
    BY <1>1, <1>2, CRaise
  <1>3. CASE GoTo("turn") /\ ~UNCHANGED turns
    <2>1. PICK answer \in (IF where # NotGiven THEN {where}
                           ELSE IF Certs(choices) \cap POSITION_SCENARIOS # {} THEN Places
                           ELSE {<<>>}) :
             \E positions \in parse_positions(answer) : turns' = Turns(choices, positions)
      BY <1>3 DEF Place
    <2>2. answer \in Places \cup {<<>>}
      BY <2>1 DEF CInv, Answered
    <2>3. PICK positions \in parse_positions(answer) : turns' = Turns(choices, positions)
      BY <2>1
    <2>4. positions \in Seq(Nat) /\ NoRepeats(positions)
      BY <2>2, <2>3, ParsedFacts
    <2>5. turns' \in Seq(Slots) /\ NoRepeats(turns')
      BY <2>3, <2>4, TurnsFacts DEF CInv, Answered, Slots
    <2>6. Certs(past) = {} /\ Certs(past') = {}
      BY <1>1, NothingYet
    <2>7. Written = {} /\ Written' = {}
      BY <1>1, <2>6 DEF CInv, Own, Written
    <2>8. Answered'
      BY <1>1 DEF CInv, Answered, NoRepeats
    <2>9. Different'
      BY <1>1, <2>5, <2>6 DEF CInv, Different
    <2>10. phase' = "turn"
      BY <1>3 DEF GoTo
    <2>11. Counted'
      BY <1>1, <2>7 DEF CInv, Counted
    <2> QED  BY <2>7, <2>8, <2>9, <2>10, <2>11 DEF CInv, Early, Own, Between, Preparing
  <1>4. CASE GoTo("turn") /\ UNCHANGED turns
    <2>1. phase' = "turn"
      BY <1>4 DEF GoTo
    <2>2. Written' = Written /\ Certs(past)' = Certs(past) /\ Slot' = Slot
      BY <1>1, <1>4 DEF Written, Certs, Slot
    <2>3. Answered' /\ Different'
      BY <1>1, <1>4 DEF CInv, Answered, Different, NoRepeats, Certs
    <2>4. \A s \in Written : s \in Certs(past)
      BY <1>1 DEF CInv, Own
    <2>5. Own' /\ Between' /\ Counted'
      BY <1>1, <1>4, <2>2, <2>4 DEF CInv, Own, Between, Counted
    <2> QED  BY <2>1, <2>3, <2>5 DEF CInv, Early, Preparing
  <1> QED  BY <1>2, <1>3, <1>4 DEF Place

LEMMA SkipKeeps ==
    ASSUME CInv, Skip
    PROVE  CInv'
  <1>1. /\ phase = "turn" /\ phase' = "turn" /\ turns # <<>>
        /\ turns' = Tail(turns) /\ past' = Append(past, Slot)
        /\ UNCHANGED <<run, selection, where, choices, made, disk>>
    BY DEF Skip, call
  <1>2. Different' /\ Slot \notin Certs(past) /\ Certs(past') = Certs(past) \cup {Slot}
    BY <1>1, TurnOver DEF CInv
  <1>3. Written \subseteq Certs(past) /\ Written' = Written
    BY <1>1 DEF CInv, Between, Written
  <1>4. Written \cap Certs(past') = Written \cap Certs(past)
    BY <1>2, <1>3
  <1>5. Answered'
    BY <1>1 DEF CInv, Answered, NoRepeats
  <1>6. Own' /\ Between'
    BY <1>2, <1>3 DEF Own, Between
  <1>7. Counted'
    BY <1>1, <1>3, <1>4 DEF CInv, Counted
  <1> QED  BY <1>1, <1>2, <1>5, <1>6, <1>7 DEF CInv, Early, Preparing

LEMMA SaveKeeps ==
    ASSUME CInv, Save
    PROVE  CInv'
  <1>1. /\ phase = "turn" /\ phase' = "extras" /\ turns # <<>>
        /\ UNCHANGED <<run, selection, where, choices, turns, past, made>>
    BY DEF Save, GoTo, call, progress
  <1>2. PICK modified : Put(modified)
    BY DEF Save
  <1>3. Written' = Written \cup {Slot}
    <2>1. /\ DOMAIN disk' = DOMAIN disk \cup {Slot} /\ disk'[Slot].by = run
          /\ \A s \in DOMAIN disk \ {Slot} : disk'[s] = disk[s]
      BY <1>2 DEF Put
    <2> QED  BY <1>1, <2>1 DEF Written
  <1>4. /\ Certs(past)' = Certs(past) /\ Certs(turns)' = Certs(turns) /\ Slot' = Slot
    BY <1>1 DEF Certs, Slot
  <1>5. Slot \notin Certs(past)
    <2>1. turns \in Seq(Slots)
      BY DEF CInv, Different
    <2>2. 1 \in 1..Len(turns) /\ Slot = turns[1]
      BY <1>1, <2>1 DEF Slot
    <2> QED  BY <2>2 DEF CInv, Different, Certs
  <1>6. Answered' /\ Different'
    BY <1>1, <1>4 DEF CInv, Answered, Different, NoRepeats
  <1>7. Own'
    BY <1>1, <1>3, <1>4 DEF CInv, Own
  <1>8. Counted'
    <2>1. Written' \cap Certs(past)' = Written \cap Certs(past)
      BY <1>3, <1>4, <1>5
    <2> QED  BY <1>1, <2>1 DEF CInv, Counted
  <1> QED  BY <1>1, <1>6, <1>7, <1>8 DEF CInv, Early, Between, Preparing

LEMMA ExtrasKeeps ==
    ASSUME DInv, CInv, WriteExtras
    PROVE  CInv'
  <1>1. /\ phase = "extras" /\ phase' = "turn" /\ turns # <<>> /\ Slot \in Written
        /\ turns' = Tail(turns) /\ past' = Append(past, Slot) /\ made' = made + 1
        /\ UNCHANGED <<run, selection, where, choices>>
    BY DEF WriteExtras, GoTo, call, DInv, HalfWay, Mine, Written
  <1>2. Different' /\ Slot \notin Certs(past) /\ Certs(past') = Certs(past) \cup {Slot}
    BY <1>1, TurnOver DEF CInv
  <1>3. Written' = Written
    <2>1. CASE Slot[1] = "root_hash_mismatch"
      <3> DEFINE root == CHOOSE r \in find_root(base) : TRUE
      <3>1. disk' = [disk EXCEPT ![Slot].pin = root]
        BY <2>1 DEF WriteExtras
      <3>2. disk[Slot] = [chain |-> disk[Slot].chain, pin |-> disk[Slot].pin, by |-> disk[Slot].by]
        BY <1>1 DEF DInv, Records, Written
      <3> HIDE DEF root
      <3>3. /\ DOMAIN disk' = DOMAIN disk
            /\ \A s \in DOMAIN disk \ {Slot} : disk'[s] = disk[s]
        BY <3>1
      <3>4. disk'[Slot] = [chain |-> disk[Slot].chain, pin |-> root, by |-> disk[Slot].by]
        BY <1>1, <3>1, <3>2 DEF Written
      <3>5. disk'[Slot].by = disk[Slot].by
        BY <3>4
      <3> QED  BY <1>1, <3>3, <3>5 DEF Written
    <2>2. CASE Slot[1] # "root_hash_mismatch"
      BY <1>1, <2>2 DEF WriteExtras, Written
    <2> QED  BY <2>1, <2>2
  <1>4. Own' /\ Between'
    BY <1>1, <1>2, <1>3 DEF CInv, Own, Between
  <1>5. Counted'
    <2> DEFINE counted == Written \cap Certs(past)
    <2>1. IsFiniteSet(counted)
      <3>1. Len(past) \in Nat /\ past \in [1..Len(past) -> Slots]
        BY LenProperties DEF CInv, Different
      <3>2. IsFiniteSet(1..Len(past))
        BY <3>1, FS_Interval
      <3>3. past \in Surjection(1..Len(past), Certs(past))
        BY <3>1 DEF Surjection, Certs
      <3>4. IsFiniteSet(Certs(past))
        BY <3>2, <3>3, FS_Surjection
      <3> QED  BY <3>4, FS_Subset
    <2>2. Slot \notin counted /\ Written' \cap Certs(past') = counted \cup {Slot}
      BY <1>1, <1>2, <1>3
    <2> HIDE DEF counted
    <2>3. Cardinality(counted \cup {Slot}) = Cardinality(counted) + 1
      BY <2>1, <2>2, FS_AddElement
    <2>4. made = Cardinality(counted)
      BY DEF CInv, Counted, counted
    <2> QED  BY <1>1, <2>2, <2>3, <2>4 DEF Counted
  <1>6. Answered'
    BY <1>1 DEF CInv, Answered, NoRepeats
  <1> QED  BY <1>1, <1>2, <1>4, <1>5, <1>6 DEF CInv, Early, Preparing

LEMMA CNextInv == DInv /\ CInv /\ [Next]_vars => CInv'
  <1> SUFFICES ASSUME DInv, CInv, [Next]_vars
               PROVE  CInv'
    OBVIOUS
  <1>1. CASE Start
    <2>1. /\ run' = run + 1 /\ disk' = disk /\ phase' = "parse" /\ made' = 0
          /\ choices' = <<>> /\ turns' = <<>> /\ past' = <<>>
          /\ selection' \in Selections \cup {NotGiven} /\ where' \in Places \cup {NotGiven}
      BY <1>1 DEF Start
    <2>2. Written' = {}
      BY <2>1 DEF DInv, Records, Written
    <2>3. Answered' /\ Different'
      BY <2>1, NothingYet DEF Answered, Different
    <2>4. Counted'
      BY <2>1, <2>2, FS_EmptySet DEF Counted
    <2> QED  BY <2>1, <2>2, <2>3, <2>4 DEF CInv, Early, Own, Between
  <1>2. CASE Parse
    <2>1. /\ phase = "parse" /\ phase' = "read"
          /\ UNCHANGED <<run, selection, where, turns, past, made, disk>>
      BY <1>2 DEF Parse, GoTo, call
    <2>2. choices' \in Seq(SCENARIOS) /\ NoRepeats(choices')
      <3>1. CASE selection = NotGiven
        BY <1>2, <3>1, NothingYet DEF Parse
      <3>2. CASE selection # NotGiven
        <4>1. selection \in Selections /\ choices' \in parse_scenarios(selection)
          BY <1>2, <3>2 DEF Parse, CInv, Answered
        <4> QED  BY <4>1, ParsedFacts
      <3> QED  BY <3>1, <3>2
    <2>3. Answered'
      BY <2>1, <2>2 DEF CInv, Answered
    <2>4. Written' = Written /\ Certs(past)' = Certs(past) /\ Certs(turns)' = Certs(turns)
          /\ Slot' = Slot
      BY <2>1 DEF Written, Certs, Slot
    <2>5. Different'
      BY <2>1, <2>4 DEF CInv, Different, NoRepeats
    <2>6. Early' /\ Own' /\ Between' /\ Counted'
      BY <2>1, <2>4 DEF CInv, Early, Own, Between, Counted, Preparing
    <2> QED  BY <2>3, <2>5, <2>6 DEF CInv
  <1>3. CASE RefuseTypo
    BY <1>3, CRaise DEF RefuseTypo, Untouched, call, progress
  <1>4. CASE RefuseMaterial
    BY <1>4, CRaise DEF RefuseMaterial, Untouched, call, progress
  <1>5. CASE MakeKeyDir
    BY <1>5, CQuiet DEF MakeKeyDir, GoTo, call, progress, Preparing
  <1>6. CASE EnterTry
    BY <1>6, CQuiet DEF EnterTry, GoTo, Untouched, call, progress, Preparing
  <1>7. CASE RefuseChain
    BY <1>7, CRaise DEF RefuseChain, Untouched, call, progress
  <1>8. CASE FindChain
    BY <1>8, CQuiet DEF FindChain, GoTo, Untouched, call, progress, Preparing
  <1>9. CASE Choose
    <2>1. /\ phase = "choose"
          /\ UNCHANGED <<run, selection, where, turns, past, made, disk>>
      BY <1>9 DEF Choose, call
    <2>2. CASE UNCHANGED choices /\ Raise("refused")
      BY <2>1, <2>2, CRaise
    <2>3. CASE phase' = "place" /\ \E answer \in Selections : choices' \in parse_scenarios(answer)
      <3>1. choices' \in Seq(SCENARIOS) /\ NoRepeats(choices')
        BY <2>3, ParsedFacts
      <3>2. Answered'
        BY <2>1, <3>1 DEF CInv, Answered
      <3>3. Written' = Written /\ Certs(past)' = Certs(past) /\ Certs(turns)' = Certs(turns)
            /\ Slot' = Slot
        BY <2>1 DEF Written, Certs, Slot
      <3>4. Different'
        BY <2>1, <3>3 DEF CInv, Different, NoRepeats
      <3>5. Early' /\ Own' /\ Between' /\ Counted'
        BY <2>1, <2>3, <3>3 DEF CInv, Early, Own, Between, Counted, Preparing
      <3> QED  BY <3>2, <3>4, <3>5 DEF CInv
    <2> QED  BY <1>9, <2>2, <2>3 DEF Choose, GoTo
  <1>10. CASE Place
    BY <1>10, PlaceKeeps
  <1>11. CASE Skip
    BY <1>11, SkipKeeps
  <1>12. CASE WriteKey
    BY <1>12, CQuiet DEF WriteKey, call, progress, Preparing
  <1>13. CASE Save
    BY <1>13, SaveKeeps
  <1>14. CASE WriteExtras
    BY <1>14, ExtrasKeeps
  <1>15. CASE Finish
    BY <1>15, CRaise DEF Finish, Untouched, call, progress
  <1>16. CASE Unlink
    BY <1>16, CQuiet DEF Unlink, call, progress, Preparing
  <1>17. CASE RemoveKeyDir
    BY <1>17, CQuiet DEF RemoveKeyDir, GoTo, call, progress, Preparing
  <1>18. CASE GiveUp
    BY <1>18, CQuiet DEF GiveUp, Leave, Untouched, call, progress, Preparing
  <1>19. CASE Fail
    BY <1>19, CRaise DEF Fail, Untouched, call, progress
  <1>20. CASE Interrupt
    BY <1>20, CRaise DEF Interrupt, Untouched, call, progress
  <1>21. CASE Kill
    BY <1>21, CQuiet DEF Kill, Leave, Untouched, call, progress, Preparing
  <1>22. CASE UNCHANGED vars
    BY <1>22, CQuiet DEF vars, call, progress, Preparing
  <1> QED
    BY <1>1, <1>2, <1>3, <1>4, <1>5, <1>6, <1>7, <1>8, <1>9, <1>10, <1>11, <1>12, <1>13,
       <1>14, <1>15, <1>16, <1>20, <1>21, <1>22, <1>17, <1>18, <1>19
    DEF Next, Step

\* The count is that of the directories this run has written to, less one
\* that is half written, at any moment and however the run ends.
THEOREM NothingWrittenTwice == Spec => []CountIsTrue
  <1>1. CInv => CountIsTrue
    <2> SUFFICES ASSUME CInv PROVE CountIsTrue
      OBVIOUS
    <2> DEFINE half == IF turns # <<>> THEN Written \cap {Slot} ELSE {}
    <2>1. turns # <<>> => Slot \notin Certs(past)
      <3> SUFFICES ASSUME turns # <<>> PROVE Slot \notin Certs(past)
        OBVIOUS
      <3>1. turns \in Seq(Slots)
        BY DEF CInv, Different
      <3>2. 1 \in 1..Len(turns) /\ Slot = turns[1]
        BY <3>1 DEF Slot
      <3> QED  BY <3>2 DEF CInv, Different, Certs
    <2>2. Written \ half = Written \cap Certs(past)
      BY <2>1 DEF CInv, Own
    <2>3. made = Cardinality(Written \ half)
      BY <2>2 DEF CInv, Counted
    <2> QED  BY <2>3 DEF CountIsTrue, Written
  <1>2. DInv /\ CInv /\ [Next]_vars => (DInv /\ CInv)'
    BY DNextInv, CNextInv
  <1> QED  BY DInitInv, CInitInv, <1>1, <1>2, PTL DEF Spec
=============================================================================
