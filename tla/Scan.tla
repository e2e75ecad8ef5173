-------------------------------- MODULE Scan --------------------------------
(***************************************************************************)
(* One run of the validator over a directory tree: analysis.discover_-      *)
(* scenarios finds the scenarios, analysis.build_family_groups takes them  *)
(* one after another, and for each pinning.find_pin_file climbs towards    *)
(* the target looking for root_hash.txt.                                   *)
(*                                                                         *)
(* A directory is the sequence of names that leads to it from the root of  *)
(* the file system.  A file stands for the directory it lies in: that is   *)
(* where both the search and its ceiling are moved (find_pin_file).  What  *)
(* the analysis makes of the certificates is the subject of Analysis.      *)
(* "Slips" are ways the code could have been wrong; see PathBuilding.      *)
(***************************************************************************)
EXTENDS Tree

CONSTANTS
    Dirs,              \* the directories of the file system
    MULTIPEM_SUBDIRS   \* the names of the generator's split layout

ASSUME ScanAssumption ==
    /\ Dirs \subseteq Seq(STRING)
    /\ <<>> \in Dirs
    /\ \A d \in Dirs : d # <<>> => SubSeq(d, 1, Len(d) - 1) \in Dirs

VARIABLES
    holding,    \* directories with a certificate file of their own
    pinned,     \* directories with a root_hash.txt
    target,     \* the argument; for a file, the directory it lies in
    isfile,     \* whether the argument is a file
    phase,      \* "discover", "pick", "load", "search" or "done"
    todo,       \* scenarios not analysed yet
    scenario,   \* the one at hand
    candidate,  \* the directory find_pin_file looks at
    analysed    \* for each scenario analysed, whether a pin was looked for, the
                \* one found (a set of at most one directory), and the
                \* directories its blocks came from

vars == <<holding, pinned, target, isfile, phase, todo, scenario, candidate,
          analysed>>

-----------------------------------------------------------------------------

IsSplit(d) == d # <<>> /\ d[Len(d)] \in MULTIPEM_SUBDIRS

\* Slip: every directory with certificates is a scenario.
discover_unfolded(top) == {d \in holding : Within(top, d)}

\* The parts of a split chain are one scenario, their parent.
discover_scenarios(top) ==
    {IF IsSplit(d) THEN dirname(d) ELSE d : d \in {h \in holding : Within(top, h)}}

\* Slip: only the files directly inside.
discover_chain_files_flat(s) == IF isfile THEN {target} ELSE holding \cap {s}

\* loading.discover_chain_files: everything below the scenario.
discover_chain_files(s) ==
    IF isfile THEN {target} ELSE {h \in holding : Within(s, h)}

-----------------------------------------------------------------------------

Init ==
    /\ holding \in SUBSET Dirs
    /\ pinned \in SUBSET Dirs
    /\ target \in Dirs
    /\ isfile \in BOOLEAN
    /\ isfile => target \in holding
    /\ phase = "discover"
    /\ todo = {}
    /\ scenario = target
    /\ candidate = target
    /\ analysed = {}

Discover ==
    /\ phase = "discover"
    /\ todo' = IF isfile THEN {target} ELSE discover_scenarios(target)
    /\ phase' = "pick"
    /\ UNCHANGED <<holding, pinned, target, isfile, scenario, candidate, analysed>>

Pick ==
    /\ phase = "pick"
    /\ \E s \in todo :
          /\ todo' = todo \ {s}
          /\ scenario' = s
    /\ phase' = "load"
    /\ UNCHANGED <<holding, pinned, target, isfile, candidate, analysed>>

\* The scenario has paths to judge: the pin is searched from where it lies.
Search ==
    /\ phase = "load"
    /\ candidate' = scenario
    /\ phase' = "search"
    /\ UNCHANGED <<holding, pinned, target, isfile, todo, scenario, analysed>>

Analyse(searched, pin) ==
    /\ analysed' = analysed \cup
            {[scenario |-> scenario, searched |-> searched, pin |-> pin,
              read |-> discover_chain_files(scenario)]}
    /\ phase' = "pick"
    /\ UNCHANGED <<holding, pinned, target, isfile, todo, scenario, candidate>>

\* It has none (Analysis!Conclude): the findings need no pin.
NothingToJudge == phase = "load" /\ Analyse(FALSE, {})

PinFound ==
    /\ phase = "search"
    /\ candidate \in pinned
    /\ Analyse(TRUE, {candidate})

\* Slips: the ceiling is tested before the pin; the root of the file system is
\* not noticed.
GiveUpFirst ==
    /\ phase = "search"
    /\ candidate = target \/ dirname(candidate) = candidate
    /\ Analyse(TRUE, {})

GiveUpAtCeiling ==
    /\ phase = "search"
    /\ candidate \notin pinned
    /\ candidate = target
    /\ Analyse(TRUE, {})

\* The ceiling, or the root of the file system, without a pin.
GiveUp ==
    /\ phase = "search"
    /\ candidate \notin pinned
    /\ candidate = target \/ dirname(candidate) = candidate
    /\ Analyse(TRUE, {})

\* Slip: the ceiling is not looked at.
ClimbPast ==
    /\ phase = "search"
    /\ candidate \notin pinned
    /\ dirname(candidate) # candidate
    /\ candidate' = dirname(candidate)
    /\ UNCHANGED <<holding, pinned, target, isfile, phase, todo, scenario, analysed>>

Climb ==
    /\ phase = "search"
    /\ candidate \notin pinned
    /\ candidate # target
    /\ dirname(candidate) # candidate
    /\ candidate' = dirname(candidate)
    /\ UNCHANGED <<holding, pinned, target, isfile, phase, todo, scenario, analysed>>

Finish ==
    /\ phase = "pick"
    /\ todo = {}
    /\ phase' = "done"
    /\ UNCHANGED <<holding, pinned, target, isfile, todo, scenario, candidate, analysed>>

Next ==
    \/ Discover \/ Pick \/ Search \/ NothingToJudge
    \/ PinFound \/ GiveUp \/ Climb \/ Finish

\* One thread of control that runs as long as it can.
Spec == Init /\ [][Next]_vars /\ WF_vars(Next)

-----------------------------------------------------------------------------
(* Properties *)

TypeOK ==
    /\ holding \subseteq Dirs
    /\ pinned \subseteq Dirs
    /\ target \in Dirs
    /\ isfile \in BOOLEAN
    /\ phase \in {"discover", "pick", "load", "search", "done"}
    /\ todo \subseteq Dirs
    /\ scenario \in Dirs
    /\ candidate \in Dirs
    /\ analysed \subseteq [scenario : Dirs, searched : BOOLEAN,
                           pin : SUBSET Dirs, read : SUBSET Dirs]

\* Unless the target itself bears a name of the split layout, no pin is looked
\* for, and no certificate read, outside it: a chain is judged by the material
\* the user pointed at.
NeverOutside ==
    ~IsSplit(target) \/ isfile =>
        /\ Within(target, candidate)
        /\ \A a \in analysed : \A d \in a.read \cup a.pin : Within(target, d)

\* The pin that decides is the nearest one above the scenario: none lies
\* between, and "no pin" is only said when there is none up to the target.
NearestPin ==
    ~IsSplit(target) \/ isfile =>
        \A a \in {b \in analysed : b.searched} :
            LET above == {d \in pinned : Within(d, a.scenario) /\ Within(target, d)}
            IN  a.pin = {d \in above : \A e \in above : Len(e) <= Len(d)}

\* The parts of a chain that was written in the split layout are never
\* analysed apart: whoever reads one of them reads all its sisters.  (Only a
\* split chain inside a part of another one would be cut off; the generator
\* does not nest them.)
SplitChainsStayWhole ==
    ~isfile /\ (\A d \in holding : IsSplit(d) => ~IsSplit(dirname(d))) =>
        \A a \in analysed : \A d \in a.read : \A e \in holding :
            IsSplit(d) /\ IsSplit(e) /\ dirname(d) = dirname(e) => e \in a.read

\* Every directory with certificates below the target is part of a scenario.
NothingOverlooked ==
    phase = "done" /\ ~isfile =>
        \A d \in holding : Within(target, d) => \E a \in analysed : d \in a.read

\* The run ends.
Terminates == <>(phase = "done")
=============================================================================
