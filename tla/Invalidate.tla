----------------------------- MODULE Invalidate -----------------------------
(***************************************************************************)
(* invalidate.main and write_scenarios: runs of the invalidator, one after *)
(* the other, in one working directory.  A run copies the private keys it  *)
(* found to a temporary directory, chooses what to make, and writes one    *)
(* chain per turn under invalid_chain/, which all runs share.  It may end  *)
(* early: a SystemExit, an error of openssl or of the file system, ^C, or  *)
(* the process being killed.                                               *)
(*                                                                         *)
(* Which chain is corrupted is TrustedChain's business, what a scenario    *)
(* makes of it that of Scenarios.  A token of -s stands for the scenario   *)
(* it numbers or names, a token of -p for a number; a token that stands    *)
(* for nothing is {}.                                                      *)
(*                                                                         *)
(* "Slips" are ways the code could have been wrong; see PathBuilding.      *)
(***************************************************************************)
EXTENDS Scenarios

CONSTANTS
    Runs,        \* 1..n, the runs started in turn
    Chains,      \* the chains they may be given
    KeyRings,    \* the private keys they may find
    Selections,  \* what -s, or its prompt, may be answered with
    Places,      \* what -p, or its prompt, may be answered with
    NotGiven,    \* the option is left out
    NoPin        \* no root_hash.txt

\* Answers whose tokens each stand for at most one member of S.
AnswersIn(answers, S) ==
    /\ answers \subseteq Seq(SUBSET S)
    /\ \A a \in answers : \A i \in 1..Len(a) : Cardinality(a[i]) <= 1

ASSUME InvalidateAssumption ==
    /\ Runs \subseteq Nat /\ 0 \notin Runs
    /\ Chains \subseteq Seq(Cert)
    /\ AnswersIn(Selections, SCENARIOS)
    /\ AnswersIn(Places, Nat)
    /\ NotGiven \notin Selections /\ NotGiven \notin Places
    /\ NoPin \notin Cert

VARIABLES
    run,        \* the number of the run under way, or of the last one
    phase,      \* what it does next; "over" between runs
    ended,      \* how it ended
    left,       \* what it was doing when it was told to stop
    base,       \* the chain it found valid
    keys,       \* the private keys it found
    selection,  \* -s as typed
    where,      \* -p as typed
    choices,    \* the scenarios to make
    turns,      \* the turns ahead
    past,       \* the turns behind
    made,       \* the count write_scenarios returns
    keydirs,    \* the key directories on disk: by run, the keys in it
    disk        \* invalid_chain/: by scenario and position, the chain, the
                \* root its pin was made up to differ from, and the run

call == <<run, base, keys, selection, where>>
progress == <<choices, turns, past, made>>
vars == <<call, progress, phase, ended, left, keydirs, disk>>

-----------------------------------------------------------------------------
(* Selections *)

\* Slip: repetitions stay.
Distinct_kept(s) == s

\* list(dict.fromkeys(s))
Distinct(s) ==
    LET seen[i \in 0..Len(s)] ==
            IF i = 0 THEN <<>>
            ELSE IF s[i] \in Certs(seen[i-1]) THEN seen[i-1] ELSE Append(seen[i-1], s[i])
    IN  seen[Len(s)]

Read(tokens) == Distinct([i \in 1..Len(tokens) |-> CHOOSE x \in tokens[i] : TRUE])

\* The scenarios typed, as a set; empty (SystemExit) for one unknown or none.
parse_scenarios(tokens) ==
    IF tokens # <<>> /\ {} \notin Certs(tokens) THEN {Read(tokens)} ELSE {}

\* The positions typed, as a set; empty (SystemExit) for one not a number.
parse_positions(tokens) ==
    IF {} \notin Certs(tokens) THEN {Read(tokens)} ELSE {}

\* What a scenario is written for; 0 is the position nobody gave.
Targets(choice, positions) ==
    IF choice \in POSITION_SCENARIOS /\ positions # <<>> THEN positions ELSE <<0>>

\* The turns of write_scenarios: for choice in choices, for position in targets.
Turns(chosen, positions) ==
    LET targets(i) == Targets(chosen[i], positions)
        ahead[i \in 0..Len(chosen)] ==
            IF i = 0 THEN <<>>
            ELSE ahead[i-1] \o [j \in 1..Len(targets(i)) |-> <<chosen[i], targets(i)[j]>>]
    IN  ahead[Len(chosen)]

-----------------------------------------------------------------------------

Init ==
    /\ run = 0 /\ base = <<>> /\ keys = {} /\ selection = NotGiven /\ where = NotGiven
    /\ choices = <<>> /\ turns = <<>> /\ past = <<>> /\ made = 0
    /\ phase = "over" /\ ended = "none" /\ left = "over"
    /\ keydirs = [r \in {} |-> {}]
    /\ disk = [slot \in {} |-> <<>>]

GoTo(next) == phase' = next /\ UNCHANGED <<ended, left>>

Leave(how, next) == ended' = how /\ left' = phase /\ phase' = next

\* Slip: without the try, the directory is removed after the last turn only.
RaiseUntried(how) == Leave(how, IF how = "done" THEN "finally" ELSE "over")

\* An exception, or the end: inside the try the finally clause comes next.
Raise(how) ==
    Leave(how, IF phase \in {"trust", "choose", "place", "turn", "extras"}
               THEN "finally" ELSE "over")

Untouched == UNCHANGED <<call, progress, keydirs, disk>>

Start ==
    /\ phase = "over"
    /\ run + 1 \in Runs
    /\ run' = run + 1
    /\ base' \in Chains
    /\ keys' \in KeyRings
    /\ selection' \in Selections \cup {NotGiven}
    /\ where' \in Places \cup {NotGiven}
    /\ choices' = <<>> /\ turns' = <<>> /\ past' = <<>> /\ made' = 0
    /\ phase' = "parse" /\ ended' = "running" /\ left' = "over"
    /\ UNCHANGED <<keydirs, disk>>

Mistyped ==
    \/ selection # NotGiven /\ parse_scenarios(selection) = {}
    \/ where # NotGiven /\ parse_positions(where) = {}

\* Slip: a selection is looked at when it is needed.
ParseLater ==
    /\ phase = "parse"
    /\ choices' \in IF selection = NotGiven THEN {<<>>} ELSE parse_scenarios(selection) \cup {<<>>}
    /\ GoTo("read")
    /\ UNCHANGED <<call, turns, past, made, keydirs, disk>>

\* Command-line selections are looked at before anything is read.
Parse ==
    /\ phase = "parse"
    /\ ~Mistyped
    /\ choices' \in IF selection = NotGiven THEN {<<>>} ELSE parse_scenarios(selection)
    /\ GoTo("read")
    /\ UNCHANGED <<call, turns, past, made, keydirs, disk>>

RefuseTypo == phase = "parse" /\ Mistyped /\ Raise("refused") /\ Untouched

\* No certificates, or a container that could not be opened.
RefuseMaterial == phase = "read" /\ Raise("refused") /\ Untouched

\* write_key_dir makes a directory of its own, and then writes the keys one by
\* one; a key half written counts as written.
MakeKeyDir ==
    /\ phase = "read"
    /\ keydirs' = [r \in DOMAIN keydirs \cup {run} |-> IF r = run THEN {} ELSE keydirs[r]]
    /\ GoTo("keys")
    /\ UNCHANGED <<call, progress, disk>>

WriteKey ==
    /\ phase = "keys"
    /\ \E key \in keys \ keydirs[run] :
        keydirs' = [keydirs EXCEPT ![run] = @ \cup {key}]
    /\ UNCHANGED <<call, progress, phase, ended, left, disk>>

EnterTry ==
    /\ phase = "keys"
    /\ keydirs[run] = keys
    /\ GoTo("trust")
    /\ Untouched

-----------------------------------------------------------------------------
(* Inside the try *)

\* Slip: the way out for an untrusted chain leads past the finally clause.
RefuseChainAtOnce == phase = "trust" /\ Leave("refused", "over") /\ Untouched

RefuseChain == phase = "trust" /\ Raise("refused") /\ Untouched

FindChain ==
    /\ phase = "trust"
    /\ GoTo(IF selection = NotGiven THEN "choose" ELSE "place")
    /\ Untouched

\* The menu, and its answer.
Choose ==
    /\ phase = "choose"
    /\ \E answer \in Selections :
        IF parse_scenarios(answer) = {} THEN Raise("refused") /\ UNCHANGED choices
        ELSE GoTo("place") /\ choices' \in parse_scenarios(answer)
    /\ UNCHANGED <<call, turns, past, made, keydirs, disk>>

\* Positions are asked for when a chosen scenario needs them.
Place ==
    /\ phase = "place"
    /\ \E answer \in IF where # NotGiven THEN {where}
                     ELSE IF Certs(choices) \cap POSITION_SCENARIOS # {} THEN Places
                     ELSE {<<>>} :
        IF parse_positions(answer) = {} THEN Raise("refused") /\ UNCHANGED turns
        ELSE /\ GoTo("turn")
             /\ \E positions \in parse_positions(answer) : turns' = Turns(choices, positions)
    /\ UNCHANGED <<call, choices, past, made, keydirs, disk>>

Slot == Head(turns)

\* What the current turn makes of the chain.
Corrupted == apply_scenario(Slot[1], base, Slot[2], keys)

\* [skip]
Skip ==
    /\ phase = "turn" /\ turns # <<>>
    /\ Corrupted = {}
    /\ turns' = Tail(turns)
    /\ past' = Append(past, Slot)
    /\ UNCHANGED <<call, choices, made, phase, ended, left, keydirs, disk>>

\* The chain is put where the slot's older one was; an older pin stays.
Put(modified) ==
    LET pin == IF Slot \in DOMAIN disk THEN disk[Slot].pin ELSE NoPin
    IN  disk' = [s \in DOMAIN disk \cup {Slot} |->
                    IF s = Slot THEN [chain |-> modified, pin |-> pin, by |-> run]
                    ELSE disk[s]]

\* Slip: the link is deleted from the chain itself, not from a copy.
SaveInPlace ==
    /\ phase = "turn" /\ turns # <<>>
    /\ \E modified \in Corrupted :
        /\ Put(modified)
        /\ base' = IF Slot[1] = "missing_intermediate" THEN modified ELSE base
    /\ GoTo("extras")
    /\ UNCHANGED <<run, keys, selection, where, progress, keydirs>>

\* save_chain
Save ==
    /\ phase = "turn" /\ turns # <<>>
    /\ \E modified \in Corrupted : Put(modified)
    /\ GoTo("extras")
    /\ UNCHANGED <<call, progress, keydirs>>

\* The pin that is wrong on purpose is written after the chain it is for.
WriteExtras ==
    /\ phase = "extras"
    /\ IF Slot[1] = "root_hash_mismatch"
       THEN disk' = [disk EXCEPT ![Slot].pin = CHOOSE root \in find_root(base) : TRUE]
       ELSE UNCHANGED disk
    /\ made' = made + 1
    /\ turns' = Tail(turns)
    /\ past' = Append(past, Slot)
    /\ GoTo("turn")
    /\ UNCHANGED <<call, choices, keydirs>>

Finish == phase = "turn" /\ turns = <<>> /\ Raise("done") /\ Untouched

-----------------------------------------------------------------------------

\* shutil.rmtree removes the keys one by one, and then the directory.
Unlink ==
    /\ phase = "finally"
    /\ \E key \in keydirs[run] : keydirs' = [keydirs EXCEPT ![run] = @ \ {key}]
    /\ UNCHANGED <<call, progress, phase, ended, left, disk>>

RemoveKeyDir ==
    /\ phase = "finally"
    /\ keydirs[run] = {}
    /\ keydirs' = [r \in DOMAIN keydirs \ {run} |-> keydirs[r]]
    /\ GoTo("over")
    /\ UNCHANGED <<call, progress, disk>>

\* ignore_errors=True: what cannot be removed stays, and nobody is told.
GiveUp == phase = "finally" /\ Leave(ended, "over") /\ Untouched

\* OSError, OpenSSLError and EOFError are no SystemExit: any reading, writing,
\* asking or printing may end the run.
Fail ==
    /\ phase \in {"read", "keys", "trust", "choose", "place", "turn", "extras"}
    /\ Raise("failed")
    /\ Untouched

\* ^C raises where the program stands, in the finally clause too.
Interrupt == phase # "over" /\ Raise("interrupted") /\ Untouched

Kill == phase # "over" /\ Leave("killed", "over") /\ Untouched

Step ==
    \/ Parse \/ RefuseTypo \/ RefuseMaterial \/ MakeKeyDir \/ WriteKey \/ EnterTry
    \/ RefuseChain \/ FindChain \/ Choose \/ Place
    \/ Skip \/ Save \/ WriteExtras \/ Finish
    \/ Unlink \/ RemoveKeyDir \/ GiveUp \/ Fail

Next == Start \/ Step \/ Interrupt \/ Kill

\* A run that has been started goes on, prompts being answered; nobody has to
\* start one, interrupt it or kill it.
Spec == Init /\ [][Next]_vars /\ WF_vars(Step)

-----------------------------------------------------------------------------
(* Properties *)

\* The run's keys could not all be written, or not all be removed; it was
\* stopped there, or the file system refused.
AtTheEnds == left \in {"keys", "finally"}

\* However a run ends, its key directory is gone, if it was in the try when
\* the end came, was not killed, and rmtree met no error.
KeysRemoved ==
    phase = "over" /\ ended # "killed" /\ ~AtTheEnds => run \notin DOMAIN keydirs

\* The chain of a slot and its pin, made from the chain the run found.
Intended(slot) ==
    {[chain |-> modified,
      pin |-> IF slot[1] = "root_hash_mismatch"
              THEN CHOOSE root \in find_root(base) : TRUE ELSE NoPin,
      by |-> run] : modified \in apply_scenario(slot[1], base, slot[2], keys)}

\* Whatever becomes of the rest of the run: each turn that is over has left
\* exactly one fault in a chain of its own, with its pin, or has touched
\* nothing, whatever the turns before it and the runs before this one wrote.
DeliveredSoFar ==
    \A slot \in Certs(past) :
        IF Intended(slot) = {}
        THEN slot \in DOMAIN disk => disk[slot].by # run
        ELSE slot \in DOMAIN disk /\ disk[slot] \in Intended(slot)

\* The count is that of the directories this run has written to, less one
\* that is half written: no turn writes over another.
CountIsTrue ==
    LET written == {slot \in DOMAIN disk : disk[slot].by = run}
        half    == IF turns # <<>> THEN written \cap {Slot} ELSE {}
    IN  made = Cardinality(written \ half)

\* A typing error on the command line fails the run before any private key
\* is copied.
TypoFailsEarly == run # 0 /\ Mistyped => run \notin DOMAIN keydirs

\* A key directory that has been made does not stay, unless the run is killed,
\* or is stopped or fails while the keys are being written or removed.
KeysGoAway ==
    \A r \in Runs :
        r \in DOMAIN keydirs /\ run = r
            ~> r \notin DOMAIN keydirs \/ ended = "killed" \/ AtTheEnds
=============================================================================
