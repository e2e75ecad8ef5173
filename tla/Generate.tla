------------------------------ MODULE Generate ------------------------------
(***************************************************************************)
(* generate.generate_chain, run by several people in one directory: each   *)
(* run makes a directory of its own, issues a root, the intermediates and  *)
(* a leaf into a temporary one, lays the certificates out and pins the     *)
(* root.  openssl, the file system or ^C may stop it anywhere, and it may  *)
(* be killed; others may look at what it has written at any time.          *)
(*                                                                         *)
(* A certificate is what its openssl call makes of the request, the issuer *)
(* and the key it is given.  Extensions come down to CA or not, and the    *)
(* path lengths, which admit every chain made here, are left out.          *)
(*                                                                         *)
(* "Slips" are ways the code could have been wrong; see PathBuilding.      *)
(***************************************************************************)
EXTENDS Integers, Paths, Verify

CONSTANTS
    Runs,           \* the runs of the generator
    Stamps,         \* the names a run directory may get: second and id
    Counts,         \* [Runs -> SUBSET Int] what -n, or its prompt, may be answered with
    Intermediate    \* the intermediates' names, from the root downwards

RootCA == "RootCA"
LEAF_DNS_NAME == "example.com"
FORMATS == {"single", "multi"}

ASSUME GenerateAssumption ==
    /\ Intermediate \in Seq(Name)
    /\ \A r \in Runs : \A n \in Counts[r] : n \in Int /\ n <= Len(Intermediate)
    /\ Name = {RootCA, LEAF_DNS_NAME} \cup {Intermediate[i] : i \in 1..Len(Intermediate)}
    /\ \A i \in 1..Len(Intermediate) :
          /\ Intermediate[i] \notin {RootCA, LEAF_DNS_NAME}
          /\ \A j \in 1..i-1 : Intermediate[i] # Intermediate[j]
    /\ Key = Runs \X Name
    /\ Cert = [subject : Name, issuer : Name, key : Key, signer : Key, ca : BOOLEAN]
    /\ \A c \in Cert : Subject[c] = c.subject /\ Issuer[c] = c.issuer
    /\ \A c \in Cert : SubjectKey[c] = c.key /\ SignerKey[c] = c.signer
    /\ Authority = {c \in Cert : c.ca} /\ Unparsable = {}
    /\ Identified = Cert /\ Unfit = {}

VARIABLES
    count,    \* how many intermediates are asked for
    format,   \* and in which layout
    phase,    \* what each run does next
    ended,    \* how each run ended
    left,     \* what it was doing when it was stopped
    base,     \* its directory, as a set: empty before there is one
    temps,    \* the runs whose temporary directory is on disk
    issued,   \* the certificates in it, from the root downwards
    order,    \* the certificates in the order they are laid out
    disk      \* the run directories

vars == <<count, format, phase, ended, left, base, temps, issued, order, disk>>

-----------------------------------------------------------------------------

Init ==
    /\ count \in {n \in [Runs -> UNION {Counts[r] : r \in Runs}] : \A r \in Runs : n[r] \in Counts[r]}
    /\ format \in [Runs -> FORMATS]
    /\ phase = [r \in Runs |-> "resolve"]
    /\ ended = [r \in Runs |-> "running"]
    /\ left = [r \in Runs |-> "resolve"]
    /\ base = [r \in Runs |-> {}]
    /\ temps = {}
    /\ issued = [r \in Runs |-> <<>>]
    /\ order = [r \in Runs |-> <<>>]
    /\ disk = [d \in {} |-> <<>>]

GoTo(r, next) == phase' = [phase EXCEPT ![r] = next] /\ UNCHANGED <<count, format, ended, left>>

Leave(r, how, next) ==
    /\ ended' = [ended EXCEPT ![r] = how]
    /\ left' = [left EXCEPT ![r] = phase[r]]
    /\ phase' = [phase EXCEPT ![r] = next]
    /\ UNCHANGED <<count, format>>

\* An exception, or the end: inside the try the finally clause comes next.
Raise(r, how) ==
    Leave(r, how, IF phase[r] \in {"key", "sign", "arrange", "copy", "pin"}
                  THEN "finally" ELSE "over")

Untouched == UNCHANGED <<base, temps, issued, order, disk>>

\* resolve_intermediates; the format's spellings are left out.
Resolve(r) ==
    /\ phase[r] = "resolve"
    /\ IF count[r] < 0 THEN Raise(r, "refused") ELSE GoTo(r, "mkdir")
    /\ Untouched

\* Slip: os.makedirs(base, exist_ok=True)
MakeRunDirAnyway(r) ==
    /\ phase[r] = "mkdir"
    /\ \E d \in Stamps :
          /\ base' = [base EXCEPT ![r] = {d}]
          /\ disk' = [e \in DOMAIN disk \cup {d} |->
                        IF e \in DOMAIN disk THEN disk[e] ELSE [keys |-> {}, certs |-> <<>>, pin |-> {}]]
    /\ GoTo(r, "mkdtemp")
    /\ UNCHANGED <<temps, issued, order>>

\* make_run_dir: the second and four random digits may be another run's.
MakeRunDir(r) ==
    /\ phase[r] = "mkdir"
    /\ \E d \in Stamps :
        IF d \in DOMAIN disk THEN Raise(r, "failed") /\ UNCHANGED <<base, disk>>
        ELSE /\ GoTo(r, "mkdtemp")
             /\ base' = [base EXCEPT ![r] = {d}]
             /\ disk' = [e \in DOMAIN disk \cup {d} |->
                            IF e = d THEN [keys |-> {}, certs |-> <<>>, pin |-> {}] ELSE disk[e]]
    /\ UNCHANGED <<temps, issued, order>>

MakeTemp(r) ==
    /\ phase[r] = "mkdtemp"
    /\ temps' = temps \cup {r}
    /\ GoTo(r, "try")
    /\ UNCHANGED <<base, issued, order, disk>>

EnterTry(r) == phase[r] = "try" /\ GoTo(r, "key") /\ Untouched

-----------------------------------------------------------------------------
(* generate_material: key, request and certificate, from the root down *)

\* The name of the next certificate.
CommonName(r) ==
    LET made == Len(issued[r])
    IN  IF made = 0 THEN RootCA
        ELSE IF made <= count[r] THEN Intermediate[made]
        ELSE LEAF_DNS_NAME

Here(r) == disk[CHOOSE d \in base[r] : TRUE]

Change(r, contents) ==
    disk' = [d \in DOMAIN disk |-> IF d \in base[r] THEN contents ELSE disk[d]]

GenerateKey(r) ==
    /\ phase[r] = "key"
    /\ Change(r, [Here(r) EXCEPT !.keys = @ \cup {<<r, CommonName(r)>>}])
    /\ GoTo(r, "sign")
    /\ UNCHANGED <<base, temps, issued, order>>

\* Slip: issuer_key stays the root's.
IssuerKey_root(r) == <<r, RootCA>>

\* The root signs itself, any other certificate the one above it.
IssuerKey(r) == IF issued[r] = <<>> THEN <<r, RootCA>> ELSE Last(issued[r]).key

Sign(r) ==
    /\ phase[r] = "sign"
    /\ LET name == CommonName(r)
           cert == [subject |-> name,
                    issuer  |-> IF issued[r] = <<>> THEN name ELSE Last(issued[r]).subject,
                    key     |-> <<r, name>>,
                    signer  |-> IssuerKey(r),
                    ca      |-> name # LEAF_DNS_NAME]
       IN  /\ issued' = [issued EXCEPT ![r] = Append(@, cert)]
           /\ GoTo(r, IF name = LEAF_DNS_NAME THEN "arrange" ELSE "key")
    /\ UNCHANGED <<base, temps, order, disk>>

\* What generate_material returns.
intermediates(r) == SubSeq(issued[r], 2, Len(issued[r]) - 1)

\* output_single_pem shuffles; output_multi_pem copies leaf, root, the rest.
Arrange(r) ==
    /\ phase[r] = "arrange"
    /\ order' \in
        {[order EXCEPT ![r] = layout] : layout \in
            IF format[r] = "single" THEN Listings(Certs(issued[r]))
            ELSE {<<Last(issued[r]), issued[r][1]>> \o intermediates(r)}}
    /\ GoTo(r, "copy")
    /\ UNCHANGED <<base, temps, issued, disk>>

Copy(r) ==
    /\ phase[r] = "copy"
    /\ LET written == Len(Here(r).certs) + 1
       IN  /\ Change(r, [Here(r) EXCEPT !.certs = Append(@, order[r][written])])
           /\ GoTo(r, IF written = Len(order[r]) THEN "pin" ELSE "copy")
    /\ UNCHANGED <<base, temps, issued, order>>

\* Slip: the pin is that of the certificate written last.
WritePinLast(r) ==
    /\ phase[r] = "pin"
    /\ Change(r, [Here(r) EXCEPT !.pin = {Last(order[r])}])
    /\ Raise(r, "done")
    /\ UNCHANGED <<base, temps, issued, order>>

WritePin(r) ==
    /\ phase[r] = "pin"
    /\ Change(r, [Here(r) EXCEPT !.pin = {issued[r][1]}])
    /\ Raise(r, "done")
    /\ UNCHANGED <<base, temps, issued, order>>

-----------------------------------------------------------------------------

\* Slip: only a run that went well cleans up.
CleanUpDone(r) ==
    /\ phase[r] = "finally"
    /\ temps' = IF ended[r] = "done" THEN temps \ {r} ELSE temps
    /\ GoTo(r, "over")
    /\ UNCHANGED <<base, issued, order, disk>>

CleanUp(r) ==
    /\ phase[r] = "finally"
    /\ temps' = temps \ {r}
    /\ GoTo(r, "over")
    /\ UNCHANGED <<base, issued, order, disk>>

\* An error of openssl or the file system, or ^C, wherever the run stands.
Stop(r) == phase[r] # "over" /\ Raise(r, "failed") /\ Untouched

Kill(r) == phase[r] # "over" /\ Leave(r, "killed", "over") /\ Untouched

Step(r) ==
    \/ Resolve(r) \/ MakeRunDir(r) \/ MakeTemp(r) \/ EnterTry(r)
    \/ GenerateKey(r) \/ Sign(r) \/ Arrange(r) \/ Copy(r) \/ WritePin(r) \/ CleanUp(r)

Next == \E r \in Runs : Step(r) \/ Stop(r) \/ Kill(r)

Spec == Init /\ [][Next]_vars

-----------------------------------------------------------------------------
(* Properties *)

Phases == {"resolve", "mkdir", "mkdtemp", "try", "key", "sign", "arrange", "copy", "pin",
           "finally", "over"}

Contents == [keys : SUBSET Key, certs : Seq(Cert), pin : SUBSET Cert]

TypeOK ==
    /\ count \in [Runs -> Int] /\ format \in [Runs -> FORMATS]
    /\ phase \in [Runs -> Phases] /\ left \in [Runs -> Phases]
    /\ ended \in [Runs -> {"running", "refused", "failed", "killed", "done"}]
    /\ base \in [Runs -> SUBSET Stamps]
    /\ temps \subseteq Runs
    /\ issued \in [Runs -> Seq(Cert)] /\ order \in [Runs -> Seq(Cert)]
    /\ disk \in [DOMAIN disk -> Contents] /\ DOMAIN disk \subseteq Stamps

\* A directory holds what one run has made, however many start in the same
\* second.
RunsStayApart ==
    \A d \in DOMAIN disk :
        Cardinality({k[1] : k \in disk[d].keys \cup {c.key : c \in Certs(disk[d].certs)}}) <= 1

\* Where there is a pin there is the whole chain, at any moment and however
\* the run ends: in whatever order its certificates lie there, exactly one
\* path can be built from them, its root is the pinned one, OpenSSL verifies
\* it (unless the machine knows a CA by the name of one of its intermediates),
\* and the keys to re-sign all of it are kept.
PinnedIsWhole ==
    \A d \in DOMAIN disk :
        disk[d].pin # {} =>
            /\ Cardinality(PathsOf(disk[d].certs)) = 1
            /\ \A p \in PathsOf(disk[d].certs) :
                /\ Certs(p) = Certs(disk[d].certs)
                /\ find_root(p) = disk[d].pin
                /\ Unaided(p) => verify_chain(p, {}) = {{}}
            /\ {c.key : c \in Certs(disk[d].certs)} = disk[d].keys

\* The temporary directory goes away, unless the run was killed, or stopped
\* just before it entered the try or while it was cleaning up.
TempRemoved ==
    \A r \in Runs :
        phase[r] = "over" /\ ended[r] # "killed" /\ left[r] \notin {"try", "finally"} =>
            r \notin temps
=============================================================================
