------------------------------- MODULE Report -------------------------------
(***************************************************************************)
(* validate.main from the command line to the last line printed: the       *)
(* target, the findings grouped by what was found, and the report on the   *)
(* console, in a file and on standard output.                              *)
(*                                                                         *)
(* What the analysis finds in each scenario is given (Analysis), and in    *)
(* what order scenarios are discovered (Scan).  A finding is known by its  *)
(* scenario and its place among that scenario's findings.                  *)
(*                                                                         *)
(* "Slips" are ways the code could have been wrong; see PathBuilding.      *)
(***************************************************************************)
EXTENDS Naturals, Sequences, FiniteSets

SX == INSTANCE SequencesExt

CONSTANTS
    Target,    \* the path to look at
    Found,     \* lists of scenarios: [dir : its name, classes : Seq(Class)]
    IntLabel,  \* the names that begin with int and a number, with their label
    Class,     \* the classifications
    Destination, NoFile   \* what --json-out may name, but for ""; no such option

ASSUME ReportAssumption ==
    \A list \in Found :
        /\ list \in Seq(SX!ToSet(list))
        /\ \A s \in 1..Len(list) : list[s].classes \in Seq(Class)

VARIABLES
    typed,      \* the target on the command line, or "" for none
    json, json_only, json_out,   \* the options
    scenarios,  \* what lies below the target
    stage,      \* what main does next
    done, nth,  \* how many scenarios are through; findings of the next grouped
    grouped,    \* build_family_groups: families in the order they first appear
    stdout, stderr,
    files       \* the files written, with what they hold

options == <<typed, json, json_only, json_out, scenarios>>
everything == <<options, stage, done, nth, grouped, stdout, stderr, files>>

-----------------------------------------------------------------------------
(* Findings and families *)

variant_name(dir) == IF dir \in DOMAIN IntLabel THEN IntLabel[dir] ELSE "DEFAULT"

\* The i-th finding of the s-th scenario.
Finding(s, i) ==
    [scenario |-> s, nth |-> i, class |-> scenarios[s].classes[i],
     variant |-> variant_name(scenarios[s].dir)]

\* Slip: grouped by what the directory is called.
Family_by_name(f) == f.variant

\* grouped[finding.classification]
Family(f) == f.class

Grouped(families, f) ==
    IF \E i \in 1..Len(families) : families[i].family = Family(f)
    THEN [i \in 1..Len(families) |->
            IF families[i].family = Family(f)
            THEN [families[i] EXCEPT !.results = Append(@, f)] ELSE families[i]]
    ELSE Append(families, [family |-> Family(f), results |-> <<f>>])

\* Counter(...) of a list of findings
Counter(fs) ==
    [c \in {fs[i].class : i \in 1..Len(fs)} |->
        Cardinality({i \in 1..Len(fs) : fs[i].class = c})]

Sum(counts) ==
    LET total[S \in SUBSET DOMAIN counts] ==
            IF S = {} THEN 0
            ELSE LET c == CHOOSE x \in S : TRUE IN counts[c] + total[S \ {c}]
    IN  total[DOMAIN counts]

\* Slip: the totals are those of the last family.
Totals_last(counts) == IF counts = <<>> THEN [c \in {} |-> 0] ELSE counts[Len(counts)]

\* totals += counts
Totals(counts) ==
    [c \in UNION {DOMAIN counts[i] : i \in 1..Len(counts)} |->
        Sum([i \in {j \in 1..Len(counts) : c \in DOMAIN counts[j]} |-> counts[i][c]])]

build_json_report ==
    LET counts == [i \in 1..Len(grouped) |-> Counter(grouped[i].results)]
    IN  [summary  |-> Totals(counts),
         families |-> [i \in 1..Len(grouped) |->
             [family   |-> grouped[i].family,
              results  |-> grouped[i].results,
              variants |-> {f.variant : f \in SX!ToSet(grouped[i].results)},
              summary  |-> counts[i]]]]

-----------------------------------------------------------------------------

MainInit ==
    /\ typed \in {"", Target, "missing"}
    /\ json \in BOOLEAN /\ json_only \in BOOLEAN
    /\ json_out \in {NoFile, "", Destination}
    /\ scenarios \in Found
    /\ stage = "target"
    /\ done = 0 /\ nth = 0
    /\ grouped = <<>>
    /\ stdout = <<>> /\ stderr = <<>>
    /\ files = [f \in {} |-> <<>>]

GoTo(next) == stage' = next /\ UNCHANGED options

\* input() writes its prompt to standard output, where that is not a terminal.
ResolveTarget ==
    /\ stage = "target"
    /\ stdout' = IF typed = "" THEN <<"prompt">> ELSE <<>>
    /\ \E path \in IF typed = "" THEN {"", Target, "missing"} ELSE {typed} :
            GoTo(IF path = Target /\ scenarios # <<>> THEN "analyse" ELSE "refused")
    /\ UNCHANGED <<done, nth, grouped, stderr, files>>

\* for finding in analyze_scenario(...): grouped[...].append(finding)
GroupFinding ==
    /\ stage = "analyse" /\ done < Len(scenarios)
    /\ nth < Len(scenarios[done + 1].classes)
    /\ grouped' = Grouped(grouped, Finding(done + 1, nth + 1))
    /\ nth' = nth + 1
    /\ UNCHANGED <<options, stage, done, stdout, stderr, files>>

NextScenario ==
    /\ stage = "analyse" /\ done < Len(scenarios)
    /\ nth = Len(scenarios[done + 1].classes)
    /\ done' = done + 1 /\ nth' = 0
    /\ UNCHANGED <<options, stage, grouped, stdout, stderr, files>>

EndScenarios ==
    /\ stage = "analyse" /\ done = Len(scenarios)
    /\ GoTo("console")
    /\ UNCHANGED <<done, nth, grouped, stdout, stderr, files>>

PrintConsole ==
    /\ stage = "console"
    /\ stdout' = IF json_only THEN stdout
                 ELSE Append(stdout, "found") \o [i \in 1..Len(grouped) |-> "family report"]
    /\ GoTo(IF json \/ json_only \/ json_out # NoFile THEN "json" ELSE "done")
    /\ UNCHANGED <<done, nth, grouped, stderr, files>>

default_json_path == "report"

\* args.json_out or default_json_path(target): an empty name is no name.
ReportPath == IF json_out \in {NoFile, ""} THEN default_json_path ELSE json_out

\* Slips: a file is written whenever there is a report; only when it is named.
WritesAlways == TRUE

WritesNamed == json_out # NoFile

Writes == ~json_only \/ json_out # NoFile

Write(path, content) ==
    files' = [f \in DOMAIN files \cup {path} |-> IF f = path THEN content ELSE files[f]]

WriteReport ==
    /\ stage = "json" /\ Writes
    /\ Write(ReportPath, <<build_json_report>>)
    /\ stdout' = IF json_only THEN stdout ELSE Append(stdout, "notice")
    /\ stderr' = IF json_only THEN Append(stderr, "notice") ELSE stderr
    /\ GoTo("payload")
    /\ UNCHANGED <<done, nth, grouped>>

\* The file cannot be opened, or not be written to the end.
FailToWrite ==
    /\ stage = "json" /\ Writes
    /\ \/ UNCHANGED files
       \/ Write(ReportPath, <<>>)
    /\ GoTo("failed")
    /\ UNCHANGED <<done, nth, grouped, stdout, stderr>>

WriteNothing ==
    /\ stage = "json" /\ ~Writes
    /\ GoTo("payload")
    /\ UNCHANGED <<done, nth, grouped, stdout, stderr, files>>

PrintPayload ==
    /\ stage = "payload"
    /\ stdout' = IF json_only THEN Append(stdout, "payload") ELSE stdout
    /\ GoTo("done")
    /\ UNCHANGED <<done, nth, grouped, stderr, files>>

MainNext ==
    \/ ResolveTarget \/ GroupFinding \/ NextScenario \/ EndScenarios \/ PrintConsole
    \/ WriteReport \/ FailToWrite \/ WriteNothing \/ PrintPayload

MainSpec == MainInit /\ [][MainNext]_everything

-----------------------------------------------------------------------------
(* Properties *)

AllFindings ==
    {Finding(x[1], x[2]) : x \in UNION {{s} \X (1..Len(scenarios[s].classes)) :
                                        s \in 1..Len(scenarios)}}

\* What the loops have come to so far.
Met(f) == f.scenario <= done \/ (f.scenario = done + 1 /\ f.nth <= nth)

Before(f, g) ==
    f.scenario < g.scenario \/ (f.scenario = g.scenario /\ f.nth < g.nth)

\* Every finding of every scenario analysed is reported once, under what was
\* found and whatever its directory is called, in the order of the analysis.
EveryFindingOnce ==
    /\ UNION {SX!ToSet(grouped[i].results) : i \in 1..Len(grouped)}
          = {f \in AllFindings : Met(f)}
    /\ \A i, j \in 1..Len(grouped) :
        \A k \in 1..Len(grouped[i].results), l \in 1..Len(grouped[j].results) :
            LET f == grouped[i].results[k]
                g == grouped[j].results[l]
            IN  /\ f = g => i = j /\ k = l
                /\ (f.class = g.class) <=> (i = j)
                /\ i = j /\ k < l => Before(f, g)

\* "A summary that disagrees with its own detail is not evidence"
\* (tests/test_reporting.py:49): the totals are those of the findings, overall
\* and in each family.
SummariesAgree ==
    stage = "json" =>
        LET report == build_json_report
        IN  /\ report.summary =
                  [c \in {f.class : f \in AllFindings} |->
                      Cardinality({f \in AllFindings : f.class = c})]
            /\ \A i \in 1..Len(report.families) :
                Sum(report.families[i].summary) = Len(report.families[i].results)

\* With --json-only and a target, standard output is the report and nothing
\* else, and a file appears only if one was asked for, where it was.
PayloadAlone ==
    json_only /\ typed # "" =>
        /\ \A i \in 1..Len(stdout) : stdout[i] = "payload" /\ i = 1
        /\ stage = "done" => stdout = <<"payload">>
        /\ DOMAIN files \subseteq IF json_out = NoFile THEN {} ELSE {ReportPath}

\* A run that ends well has delivered the report wherever it was asked for; one
\* that could not write it does not pretend otherwise.
DeliveredOrFailed ==
    /\ stage = "done" =>
        /\ json \/ json_only \/ json_out # NoFile =>
            ("payload" \in SX!ToSet(stdout) \/ DOMAIN files # {})
        /\ json_out # NoFile => ReportPath \in DOMAIN files
        /\ \A f \in DOMAIN files : files[f] = <<build_json_report>>
    /\ stage = "failed" =>
        "payload" \notin SX!ToSet(stdout) /\ "notice" \notin SX!ToSet(stdout \o stderr)
=============================================================================
