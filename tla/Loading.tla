------------------------------- MODULE Loading -------------------------------
(***************************************************************************)
(* What the invalidator reads before it corrupts anything: the pin, the    *)
(* certificates of its inputs, then their private keys, then those of the  *)
(* keys/ directory beside the chain (invalidate.main, collect_keys), with  *)
(* one Pkcs12Reader for all three readings.                                *)
(*                                                                         *)
(* A path is a place in the file system and the way it was written:        *)
(* resolve_base_dir makes paths absolute, the command line need not.  A    *)
(* file is a container in one format; what it holds is read or is not.     *)
(* A pin file among the inputs is looked into as well, and holds nothing.  *)
(*                                                                         *)
(* "Slips" are ways the code could have been wrong; see PathBuilding.      *)
(***************************************************************************)
EXTENDS Tree, FiniteSets

CONSTANTS
    Dirs,         \* the directories of the file system
    Files,        \* the files that hold certificates or keys
    Containers,   \* those named like one (CONTAINER_EXTS)
    Labelled,     \* those named like a PKCS#12 (PKCS12_EXTS)
    Format,       \* [Files -> Formats]
    Certified,    \* the files that hold a certificate, in one of the formats
    Keyed,        \* those that hold a private key
    Old,          \* PKCS#12 with algorithms that need -legacy
    Passphrase,   \* [Files -> Password]
    Password, Empty, NotGiven,
    Pinnable,     \* directories that may hold a root_hash.txt
    Given         \* the paths the command may be given

PIN_FILENAME == "root_hash.txt"

Formats == {"unreadable", "text", "pkcs12", "pkcs7", "cert", "key", "other"}

ASSUME LoadingAssumption ==
    /\ Dirs \cup Files \subseteq Seq(STRING)
    /\ \A d \in Dirs : dirname(d) \in Dirs
    /\ Files \cap Dirs = {} /\ \A f \in Files : dirname(f) \in Dirs
    /\ Containers \subseteq Files /\ Labelled \subseteq Containers
    /\ Format \in [Files -> Formats]
    /\ Certified \subseteq Files /\ Keyed \subseteq Files /\ Old \subseteq Files
    /\ \A f \in Certified \cup Keyed : Format[f] # "other"
    /\ Passphrase \in [Files -> Password]
    /\ Empty \in Password /\ NotGiven \notin Password
    /\ Pinnable \subseteq Dirs
    /\ \A d \in Dirs : d # <<>> /\ d[Len(d)] = PIN_FILENAME => dirname(d) \notin Pinnable
    /\ Given \subseteq Seq([at : Seq(STRING), way : {"typed", "absolute"}]) \ {<<>>}

VARIABLES
    pinned,    \* the directories with a root_hash.txt
    inputs,    \* the paths on the command line
    supplied,  \* CRACY_P12_PASSWORD or --p12-password
    reading,   \* 1: the certificates, 2: the inputs' keys, 3: those beside them
    todo,      \* paths still to read
    path,      \* the one at hand
    phase,     \* what happens to it next
    settings,  \* Pkcs12Reader._settings
    asked,     \* who asked for the password of which path in which reading
    read       \* in which reading each path gave material, taken for which format

setup == <<pinned, inputs, supplied>>
vars == <<setup, reading, todo, path, phase, settings, asked, read>>

-----------------------------------------------------------------------------
(* Which files are read *)

IsPinFile(p) == p.at # <<>> /\ p.at[Len(p.at)] = PIN_FILENAME /\ dirname(p.at) \in pinned

Exists(p) == p.at \in Dirs \cup Files \/ IsPinFile(p)

\* A file named as such is always read, others if they are named like one.
gather_files(paths) ==
    {p \in [at : Files, way : {paths[i].way : i \in 1..Len(paths)}] :
        \E i \in 1..Len(paths) :
            /\ paths[i].way = p.way
            /\ \/ paths[i].at = p.at
               \/ paths[i].at \in Dirs /\ Within(paths[i].at, p.at) /\ p.at \in Containers}

Top(p) == IF p.at \in Dirs THEN p.at ELSE dirname(p.at)

\* The nearest member of S from d upwards, as a set.
Above(S, d) ==
    {e \in S : Within(e, d) /\ \A other \in S : Within(other, d) => Len(other) <= Len(e)}

\* What F says of the first path it says something of.
FirstSaid(F) ==
    LET hits == {i \in 1..Len(inputs) : Exists(inputs[i]) /\ F[inputs[i]] # {}}
    IN  UNION {F[inputs[i]] : i \in {k \in hits : \A j \in hits : k <= j}}

\* The directory of the pin: one named as such before one found upwards.
resolve_pin_path ==
    LET named  == [p \in {inputs[i] : i \in 1..Len(inputs)} |->
                      IF IsPinFile(p) THEN {Top(p)} ELSE {}]
        upward == [p \in DOMAIN named |-> Above(pinned, Top(p))]
    IN  IF FirstSaid(named) # {} THEN FirstSaid(named) ELSE FirstSaid(upward)

\* Slip: keys/ is looked for beside the input only.
resolve_base_dir_beside ==
    FirstSaid([p \in {inputs[i] : i \in 1..Len(inputs)} |->
        {Top(p)} \cap {d \in Dirs : Append(d, "keys") \in Dirs}])

\* The code falls back to the inputs' common ancestor, when no directory from
\* it upwards has keys/: the set is empty then.
resolve_base_dir ==
    IF resolve_pin_path # {} THEN resolve_pin_path
    ELSE FirstSaid([p \in {inputs[i] : i \in 1..Len(inputs)} |->
            Above({d \in Dirs : Append(d, "keys") \in Dirs}, Top(p))])

\* keys/ in the base directory, if there is one, under its absolute path.
sibling == {[at |-> Append(d, "keys"), way |-> "absolute"] :
                d \in {b \in resolve_base_dir : Append(b, "keys") \in Dirs}}

-----------------------------------------------------------------------------

Init ==
    /\ pinned \in SUBSET Pinnable
    /\ inputs \in Given
    /\ supplied \in Password \cup {NotGiven}
    /\ reading = 1
    /\ todo = gather_files(inputs)
    /\ path = inputs[1]
    /\ phase = "next"
    /\ settings = [p \in {} |-> Empty] /\ asked = {} /\ read = {}

GoTo(next) == phase' = next /\ UNCHANGED <<setup, reading, todo, path>>

Take ==
    /\ phase = "next"
    /\ \E p \in todo : path' = p /\ todo' = todo \ {p}
    /\ phase' = "open"
    /\ UNCHANGED <<setup, reading, settings, asked, read>>

Remember(p, as) == read' = read \cup {[reading |-> reading, path |-> p, as |-> as]}

TakenFor(as) == Remember(path, as) /\ GoTo("next") /\ UNCHANGED <<settings, asked>>

Is(format) == Format[path.at] = format

CannotRead ==
    phase = "open" /\ Is("unreadable") /\ GoTo("next") /\ UNCHANGED <<settings, asked, read>>

ReadText == phase = "open" /\ Is("text") /\ TakenFor("text")

\* openssl pkcs12 reads f with this password, and -legacy or not.
Opens(f, password, legacy) ==
    Format[f] = "pkcs12" /\ Passphrase[f] = password /\ (f \in Old => legacy)

\* Slip: only the contents are looked at.
looks_like_pkcs12_inside == Opens(path.at, Empty, FALSE)

looks_like_pkcs12 == path.at \in Labelled \/ Opens(path.at, Empty, FALSE)

\* Slip: only the name is looked at.
SniffName ==
    /\ phase = "open" /\ ~Is("unreadable") /\ ~Is("text")
    /\ GoTo(IF path.at \in Labelled THEN "settings" ELSE "der")
    /\ UNCHANGED <<settings, asked, read>>

Sniff ==
    /\ phase = "open" /\ ~Is("unreadable") /\ ~Is("text")
    /\ GoTo(IF looks_like_pkcs12 THEN "settings" ELSE "der")
    /\ UNCHANGED <<settings, asked, read>>

-----------------------------------------------------------------------------
(* Pkcs12Reader *)

\* The settings that open the container with this password, plain before
\* -legacy, as a set.
Try(password) ==
    LET ways == {legacy \in BOOLEAN : Opens(path.at, password, legacy)}
    IN  {[password |-> password, legacy |-> legacy] :
            legacy \in IF FALSE \in ways THEN {FALSE} ELSE ways}

Keep(setting) ==
    settings' = [p \in DOMAIN settings \cup {path} |->
                    IF p = path THEN setting ELSE settings[p]]

\* Slip: an answer is used and forgotten.
SettleAndForget(tried) ==
    IF tried = {} THEN GoTo("refused") /\ UNCHANGED <<settings, read>>
    ELSE Remember(path, "pkcs12") /\ GoTo("next") /\ UNCHANGED settings

\* The settings found are kept; a password that is wrong ends the run.
Settle(tried) ==
    IF tried = {} THEN GoTo("refused") /\ UNCHANGED <<settings, read>>
    ELSE (\E setting \in tried : Keep(setting)) /\ GoTo("extract") /\ UNCHANGED read

Recall ==
    /\ phase = "settings" /\ path \in DOMAIN settings
    /\ GoTo("extract")
    /\ UNCHANGED <<settings, asked, read>>

\* Without a password, or with the one supplied.
OpenUnasked ==
    /\ phase = "settings" /\ path \notin DOMAIN settings
    /\ Try(Empty) # {} \/ supplied # NotGiven
    /\ Settle(IF Try(Empty) # {} THEN Try(Empty) ELSE Try(supplied))
    /\ UNCHANGED asked

Note(who) == asked' = asked \cup {[who |-> who, path |-> path, reading |-> reading]}

AskPassword ==
    /\ phase = "settings" /\ path \notin DOMAIN settings
    /\ Try(Empty) = {} /\ supplied = NotGiven
    /\ \E answer \in Password : Settle(Try(answer))
    /\ Note("getpass")

Extract ==
    /\ phase = "extract"
    /\ Opens(path.at, settings[path].password, settings[path].legacy)
    /\ TakenFor("pkcs12")

-----------------------------------------------------------------------------
(* Single objects.  A PKCS#12 that got this far is handed to openssl x509  *)
(* and openssl pkey, which ask for its password at the terminal.           *)

ReadSingle ==
    /\ phase = "der" /\ ~Is("pkcs12")
    /\ IF Is("other") THEN GoTo("next") /\ UNCHANGED <<settings, asked, read>>
       ELSE TakenFor(Format[path.at])

\* Without a password openssl needs not ask, but it knows no old algorithms.
PassOver ==
    /\ phase = "der" /\ Is("pkcs12") /\ Passphrase[path.at] = Empty
    /\ IF path.at \in Old THEN UNCHANGED read ELSE Remember(path, "cert")
    /\ GoTo("next")
    /\ UNCHANGED <<settings, asked>>

\* Answered rightly, it is taken for one certificate, or else for one key.
AskAtTerminal ==
    /\ phase \in {"der", "pkey"} /\ Is("pkcs12") /\ Passphrase[path.at] # Empty
    /\ Note(IF phase = "der" THEN "x509" ELSE "pkey")
    /\ \E answer \in Password :
        IF /\ Opens(path.at, answer, FALSE)
           /\ path.at \in IF phase = "der" THEN Certified ELSE Keyed
        THEN Remember(path, IF phase = "der" THEN "cert" ELSE "key") /\ GoTo("next")
        ELSE UNCHANGED read /\ GoTo(IF phase = "der" THEN "pkey" ELSE "next")
    /\ UNCHANGED settings

-----------------------------------------------------------------------------

certs == {r \in read : r.reading = 1 /\ r.path.at \in Certified /\ r.as # "key"}

\* No certificates end the run; the keys are read even where the first
\* reading has seen them.
EndReading ==
    /\ phase = "next" /\ todo = {}
    /\ UNCHANGED <<setup, path, settings, asked, read>>
    /\ IF reading = 1 /\ certs = {} THEN phase' = "refused" /\ UNCHANGED <<reading, todo>>
       ELSE IF reading = 3 THEN phase' = "done" /\ UNCHANGED <<reading, todo>>
       ELSE /\ reading' = reading + 1
            /\ todo' = IF reading = 1 THEN gather_files(inputs)
                       ELSE UNION {gather_files(<<p>>) : p \in sibling}
            /\ UNCHANGED phase

Next ==
    \/ Take \/ CannotRead \/ ReadText \/ Sniff
    \/ Recall \/ OpenUnasked \/ AskPassword \/ Extract
    \/ ReadSingle \/ PassOver \/ AskAtTerminal \/ EndReading

Spec == Init /\ [][Next]_vars

-----------------------------------------------------------------------------
(* Properties *)

\* A container nothing outside reveals: no name, and a password or old
\* algorithms that hide its contents from the probe.
Hidden(f) ==
    Format[f] = "pkcs12" /\ f \notin Labelled /\ (Passphrase[f] # Empty \/ f \in Old)

\* The inputs are read three times over and hold the same container again and
\* again; as long as its path is written the same way, its password is asked
\* for once.
OneQuestionPerPath ==
    \A a, b \in asked :
        a.who = "getpass" /\ b.who = "getpass" /\ a.path = b.path => a = b

\* A run that goes on has read every file it was given, in each reading, for
\* what it is: a container is not taken for the first thing inside it.
EverythingRead ==
    phase = "done" =>
        \A p \in gather_files(inputs) : \A n \in 1..2 :
            ~Hidden(p.at) =>
                {r.as : r \in {m \in read : m.path = p /\ m.reading = n}} =
                    {Format[p.at]} \ {"unreadable", "other"}

\* Pointed at any part of a chain the toolkit generated, the invalidator finds
\* that chain's own pin, and every key beside it, whatever lies further up.
OwnMaterialReached ==
    \A top \in {d \in pinned : Append(d, "keys") \in Dirs} :
        /\ phase = "done"
        /\ \A i \in 1..Len(inputs) : Within(top, inputs[i].at)
        /\ \A d \in pinned : Within(top, d) => d = top
        =>
        /\ resolve_pin_path = {top}
        /\ \A f \in Containers \cap Keyed :
               Within(Append(top, "keys"), f) /\ Format[f] # "unreadable" /\ ~Hidden(f) =>
                   \E r \in read : r.path.at = f /\ r.reading > 1

\* With a password supplied nobody is asked about a container that shows what
\* it is: a wrong password ends the run, and is not asked for anew.
AsksOnlyForHidden ==
    supplied # NotGiven => \A a \in asked : Hidden(a.path.at)

-----------------------------------------------------------------------------
(* What the repository says of loading and the code does not keep          *)

\* "... is used instead of prompting, which is what keeps an unattended run
\* unattended" (loading.py:53).
StaysUnattended == supplied # NotGiven => asked = {}
=============================================================================
