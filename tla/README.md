# CRACY certificate toolkit: a TLA+ model

The toolkit (`src/cracy_certval`) has three commands: one **generates** a certificate chain, one
**invalidates** a chain in one of eight defined ways, one **validates** whatever chains lie in a
directory tree. All cryptography is delegated to the `openssl` program. This directory holds a
model of the decisions the three commands make, the model-checking runs over it, and proofs.

Contents: [1 the system](#1-the-system), [2 modules](#2-the-modules),
[3 runs](#3-what-the-runs-check), [4 proofs](#4-what-is-proved),
[5 divergences](#5-where-code-and-documentation-part),
[6 what is left out](#6-what-is-not-modelled), [7 plan](#7-plan).

## 1 The system

| Component | Source | State it keeps | Operations | Uses |
|---|---|---|---|---|
| certificate accessors | `certs.py` | three caches keyed by content hash | `subject`, `issuer`, `is_ca`, `is_self_signed`, `is_expired`, `cert_sha256` | openssl |
| path building | `chains.py` | during a call: the recursion's stack and visited sets, the paths collected | `build_paths`, `find_root`, `chain_is_incomplete` | accessors |
| chain verification | `chains.py` | none (a temporary directory) | `verify_chain` | openssl |
| analysis | `analysis.py` | during a call: blocks, paths, findings | `analyze_scenario` = structural check, trust anchor check, failure classifier | path building, verification, pin search, clock |
| discovery, pin search | `analysis.py`, `pinning.py`, `validate.py` | the file system (read only) | `discover_scenarios`, `build_family_groups`, `find_pin_file`, `resolve_pin_path`, `read_pin` | analysis |
| loading | `loading.py` | `Pkcs12Reader`: password and settings per path | `load_cert_blocks`, `collect_material`, `split_certs`, `gather_files`, `resolve_base_dir`, `write_key_dir` | openssl, the user |
| corruption scenarios | `scenarios.py` | none | `apply_scenario`, `resign`, `corrupt_cert`, `save_chain` | openssl, `find_root` |
| invalidator | `invalidate.py` | key directory for the run, export directory across runs | `find_trusted_chain`, `write_scenarios`, `main` | loading, path building, scenarios |
| generator | `generate.py` | a run directory and a temporary one per call | `generate_chain` | openssl |
| reporting | `reporting.py`, `validate.py` | during a run: the families; the report file | `build_family_groups`, `build_json_report`, `write_json_report`, `main` | analysis |
| findings, openssl wrapper | `findings.py`, `openssl.py` | none | records, one subprocess call | |

The validator's data flow is `discover_scenarios` -> for each scenario `load_cert_blocks` ->
`build_paths` -> for each path `verify_chain`, then either `check_trust_anchor` against the pin
that `find_pin_file` finds above the scenario, or `classify_failure` -> the findings of all
scenarios regrouped by classification -> console, file, standard output. The invalidator reads its
inputs, runs the same path building and verification to find a chain that is valid, then applies
one corruption per selection and writes the result, which the validator is expected to classify by
the name of the corruption. The generator makes the chains, keys and pins both start from. The
three share the file system and, through names in it (`root_hash.txt`, `keys/`, `leaf`), a layout.

**What is hard here.** Every command is one thread; the difficulty is elsewhere:

* a bundle is unordered, may repeat certificates, and its CAs may form a graph with cycles
  (cross-certification) and several CAs of one name (rollover, re-issue);
* OpenSSL gets the path as an unordered set and builds a chain of its own, so the toolkit's path,
  OpenSSL's chain and the certificate the pin is compared with are three different things; and it may
  take CAs that are installed on the machine;
* the clock moves between OpenSSL's verdict and the explanation of it;
* the commands have to agree, through chains that one writes and the other reads;
* the searches for a pin and for keys climb a directory tree the user controls;
* container formats overlap, and passwords are asked for, remembered or supplied;
* a run may be stopped, fail or be killed at any step, while it writes or removes private keys
  too, with those keys and half of a chain on disk, where a second run, or another user's, works in the same directory.

**What makes each part correct.** Path building: exactly the paths of the bundle, each once, in
reading order, in bounded recursion. Analysis: VALID only for what the pinned root signed, no false
alarm for a sound path, the true defect named whatever else is wrong, corruption never passed over
in silence. Scan: the tree is covered, split chains stay whole, the nearest pin inside the target
decides. Scenarios: each is recognised as what it is meant to be, and none is accepted. Loading:
everything is read for what it is, with one question per path, and a chain's own keys are found.
Invalidator: a trusted chain is taken and a sound one never missed; what has been delivered is
right whatever happens next; private keys do not stay. Generator: what carries a pin is complete
and verifies. Report: every finding once, in the right place, and nothing else on standard output.
The hazards are listed one by one, with their lines and the properties that would notice them, in
`PROJECT.json`.

## 2 The modules

| Module | Models | Composition |
|---|---|---|
| `Certs` | a certificate as a value with its attributes; `find_root`, `chain_is_incomplete` | |
| `Paths` | the paths of a bundle, defined without an algorithm | extends `Certs` |
| `PathPromise` | what `build_paths` promises: an abstract state machine that delivers missing paths and finishes when none is missing | extends `Paths` |
| `PathBuilding` | `build_paths`, one action per step of its three loops and of `walk()` | extends `Paths`, refines `PathPromise` |
| `Verify` | `verify_chain` and the OpenSSL it calls (external); what it means that a chain vouches for a root, or is sound | extends `Certs` |
| `Analysis` | `analyze_scenario` | extends `Paths` and `Verify` |
| `Tree` | places in the file system | |
| `Scan` | one run of the validator over a tree: discovery, scenarios in turn, pin search | extends `Tree` |
| `Loading` | what the invalidator reads: pin, inputs twice, `keys/`; `Pkcs12Reader` | extends `Tree` |
| `TrustedChain` | `find_trusted_chain` over the candidates of `build_paths` | extends `Paths` and `Verify` |
| `Scenarios` | `apply_scenario` | extends `Certs` |
| `Invalidate` | runs of `invalidate.main` one after the other, with selections, key directory and `invalid_chain/` | extends `Scenarios` |
| `RoundTrip` | a turn of `write_scenarios`, then `analyze_scenario` on the result | extends `Analysis` and `Scenarios` |
| `Generate` | concurrent runs of `generate_chain` in one directory, read back with path building and verification | extends `Paths` and `Verify` |
| `Report` | `validate.main`: target, grouping, report, where each output goes | |
| `Chains_proofs` | lemmas on certificates, paths and OpenSSL (section 4) | extends `Paths` and `Verify` |
| `Analysis_proofs` | theorems about the analysis and the round trip | extends `RoundTrip`, and with it `Analysis`, and `Chains_proofs` |
| `Validator_proofs` | theorems about the scan and the report | extends `Scan` and `Report` |
| other `..._proofs` | theorems (section 4) | each extends its module; those about certificates extend `Chains_proofs` too |
| `MCPKI`, `MCReissue` | two small PKIs, for the runs that need certificates, and certificates with their corruptions | |
| other `MC...` | instances for TLC | |

**Certificates.** `Cert` is a set; its attributes (`Subject`, `Issuer`, `Authority`, `SubjectKey`,
`SignerKey`, `Unparsable`) are constants. Equality is equality of canonical fingerprints. The
caches of `certs.py` are keyed by a hash of the content and are therefore invisible.

**PathBuilding.** The recursion is a sequence of frames `[cert, next, advanced]`; `visited` is the
set of certificates on it, as `visited | {parent_fp}` makes it in the code. `subject_map[name]` is a
scan of the bundle that skips other names. Actions: `SkipLeaf`, `PickLeaf`, `EndLeaves` (loop over
leaves), `SkipParent`, `Climb`, `Return` (`walk`), `Keep`, `Drop`, `Finish` (de-duplication).

**Verify.** The answer is a set of messages, empty for success. OpenSSL is modelled by how it is
used here: it prefers trusted issuers to others, looks at names and, where present, key
identifiers, takes the first issuer that is valid in time, does not backtrack, and then judges the
chain it built. Trusted are the certificate in the CAfile and, because the command (`chains.py:197`)
has neither `-no-CApath` nor `-no-CAstore`, the CAs of the machine, the constant `System`: they are
looked up by name, and only for a name the CAfile does not hold (`Offered`). `Built` is the part of
the chain that comes from `-untrusted`, `Climbs` the trusted part above it. Where OpenSSL chooses by
a criterion the model does not carry, every choice is allowed. The part the CAs of the machine play was
compared with OpenSSL 3.0.11 and its default directory.

**Analysis.** `phase` follows the call: `load` (the early returns), `path` (next path), `anchor`,
and for a failed verification `leaf`, `intermediates`, `root`, `messages`, one `is_expired` per
step. `Lapse` lets a certificate expire between any two steps. `build_paths` is used through its
promise, in every order. Texts and severities are left out.

**Scan.** A directory is its sequence of names. Which directories hold certificates and pins is
chosen in `Init`, so a run covers every tree over `Dirs`. Scenarios are taken in any order
(the code sorts them; nothing depends on it).

**Loading.** A file is a container in one format, and a path is a place together with the way it
was written, because the password cache is keyed by the path as written. `reading` counts the three
rounds. `Sniff` is the probe that tells a PKCS#12 from a single object; `Recall`, `OpenUnasked`,
`AskPassword` and `Settle` are the reader with its cache; `PassOver` and `AskAtTerminal` are what
happens to a PKCS#12 the probe did not recognise.

**TrustedChain.** Candidates are tried in the order of `build_paths`, any order its promise
allows: `RejectRoot` (another root than the pinned one), `RejectChain`, `Accept`, `GiveUp`. `Lapse` as in
`Analysis`.

**Scenarios, RoundTrip.** Re-issuing is a constant function: the new certificate keeps key and
common name, loses the rest of its name, is signed by the signer given, and has lapsed or is no CA as asked. `KeyRings` are the
private keys the invalidator has; a missing one is a `[skip]`. `CommonName` is what
`/CN=<common name>` makes of a subject (`scenarios.py:106`): the same name only if that held nothing
else. `RoundTrip` picks chain, keys, scenario, position and pin, corrupts, and hands over to the
actions of `Analysis`. `Corruptible` says which certificates openssl can re-issue, and that what it
makes is new; `PlainNames`, a condition of some properties, that a chain's names survive it.

**Invalidate.** `phase` is the place in `main`: `parse`, `read`, `keys` (from `mkdtemp` in
`write_key_dir` to the `try`), `trust`, `choose`, `place` (inside the `try`), `turn` and `extras` (once
per turn of `write_scenarios`), `finally`. `keydirs` holds the key directories on disk with the keys in
them: `MakeKeyDir` makes one, `WriteKey` writes a key, `EnterTry` comes when all are written; at the end
`Unlink` removes a key, `RemoveKeyDir` the directory, and `GiveUp` is the removal that fails without a
word (`ignore_errors=True`). `Raise` is an exception, which inside the `try` leads to `finally`; it is
the last part of `RefuseTypo`, `RefuseMaterial`, `RefuseChain`, `Fail`, `Finish` and `Interrupt`, while
`Kill` leads nowhere. `Fail` is an error of openssl or of the file system, from the reading to the last
turn, the writing of the keys included. `keydirs` and `disk` survive from run to run.

**Generate.** One `phase` per run: `resolve`, `mkdir`, `mkdtemp`, `try`, then `key` and `sign` per
certificate, `arrange`, `copy` per file, `pin`, `finally`. A certificate is the record its openssl call makes of
the request, the issuer and the key, so that a wrong issuer or key shows when the chain is read
back. `disk` is shared by all runs. `Stop` and `Kill` may come anywhere.

**Report.** One step per stage of `main`, and in the two loops of `build_family_groups` one per
finding (`GroupFinding`) and one per scenario (`NextScenario`); a line of output is what it is (prompt, family report,
notice, payload), and a file holds a report or, when writing failed, nothing. Where the report goes is
`ReportPath`: an empty `--json-out` counts as given where it is asked for (`validate.py:120`, `138`) and
as not given where the name is needed (`140`).

**Slips.** An operator introduced by a comment `Slip:` is not part of the specification. It is a
plausible mistake in the definition that follows it; `PROJECT.json` names for each property one
that it notices.

## 3 What the runs check

`tlc -config <cfg> <module>`; each run takes at most a minute and a half.

| Run | Instance | Properties |
|---|---|---|
| `path_building` | 8 certificates: two leaves, an intermediate and its CA:FALSE twin, a rolled-over root, a cross certificate that closes a loop, a broken block. All bundles of up to 3 blocks, repetitions included, and all orders of four fuller ones (777 bundles) | `TypeOK`, `CollectedPathsAreReal`, `NothingLost`, `ResultInReadingOrder`, `RecursionBounded`, `Terminates`, `KeepsPromise` |
| `analysis` | 15 certificates, 27 bundles, CAs `R` and `X` installed on the machine, 5 contents of the pin, every subset of 6 certificates expired at the start and every moment for the others to lapse | `ValidMeansTrusted`, `SoundPathAccepted`, `ExpiryIsNamed`, `GapIsExplained`, `CorruptionNeverSilent` |
| `scan` | 5 directories, among them the two parts of a split chain and a directory nested in one of them; every choice of directories with certificates and with pins, every target, as directory and as file | `TypeOK`, `NeverOutside`, `NearestPin`, `SplitChainsStayWhole`, `NothingOverlooked`, `Terminates` |
| `round_trip` | seven chains: two plain ones, with one and two intermediates, a cross-signed one, one whose root has rolled over, one whose names hold more than a common name, and the plain ones again without the root, which the machine supplies; all keys or only some, all scenarios, all positions (also those the code refuses), every pin that may be found | `ClassifiedAsIntended`, `NothingElseFound`, `NeverAccepted` |
| `trusted_chain` | the certificates of `analysis`, 20 bundles, CAs `R` and `J` installed on the machine, every order of their candidates, every pin, certificates lapsing meanwhile | `FoundIsTrusted`, `SoundPathFound` |
| `loading` | 10 files of all formats (named and not, encrypted and not, old algorithms, unreadable) in 4 directories, every choice of pinned directories, nine command lines with doubled and rewritten paths, every password supplied or none, every answer to a prompt | `OneQuestionPerPath`, `EverythingRead`, `OwnMaterialReached`, `AsksOnlyForHidden` |
| `invalidate` | two runs in one directory, with two chains, two private keys, selections with repetitions, typing errors and an empty one, the same for positions, each stopped, failing or killed at every step, the writing and the removal of each key among them | `KeysRemoved`, `DeliveredSoFar`, `CountIsTrue`, `TypoFailsEarly`, `KeysGoAway` |
| `generate` | two runs that may draw the same of two names, one with two intermediates and one with none or a refused count, both layouts, every order of the shuffled bundle, the root of the second installed on the machine, each stopped or killed at every step | `RunsStayApart`, `PinnedIsWhole`, `TempRemoved` |
| `report` | every list of up to two scenarios and some of three, with one or two findings, every combination of the options, `--json-out ""` included, target typed, prompted or missing, the file writable or not | `EveryFindingOnce`, `SummariesAgree`, `PayloadAlone`, `DeliveredOrFailed` |
| `anchor`, `trust_store`, `attended` | the instances of `analysis` and `loading` | one statement of the repository each, see section 5 |

**Type invariants.** Those of `PathBuilding` and `Scan` are checked and proved, that of `Generate` is
proved. The other modules state none.

**Why the bounds are enough.** Path building decides by three facts about a pair of certificates:
the upper one is a CA, carries the issuer's name, is not on the path yet. The instance has every
combination, the smallest cycle, two parents of one name, and repeated blocks; beyond it, the
theorems of section 4 hold for every bundle. In the analysis each bundle stands for one structural
situation (listed in `MCAnalysis`), and no decision counts beyond "a first, a middle, a last
certificate", for which paths of up to four certificates suffice; `find_trusted_chain` adds to that
only which candidate comes first. The pin search decides by "has a pin", "is the ceiling" and "is
the root of the file system"; a tree of depth three has every order of them, and the theorems hold
for every tree. Loading decides per file, by format, name, password and algorithm, and the instance
has each combination that takes a way of its own; files meet only in the cache and in the pin above
them. Two runs of the invalidator are the fewest with something left behind by an earlier one, and
a third meets nothing new: what a run finds in a slot is the slot's chain and pin, whoever wrote
them. Two generators are the fewest that can collide, and one of them has both kinds of link, CA
under root and CA under CA. The report treats findings alike but for class, directory and order,
of which the instance has every combination of two, and enough of three to come back to a family.

**Conditions in the properties.** They are what the code needs, not what is convenient: each was
first stated without its condition, and TLC then found the behaviour named in section 5.
`ValidMeansTrusted` and `FoundIsTrusted` are for paths with one self-signed CA; `SoundPathAccepted`
and `SoundPathFound` for sound paths, which have that and no two certificates of one name;
`ExpiryIsNamed` for the latter. All five are for paths that are `Unaided`: no CA of the machine has the
name of an issuer on the path, that of its highest certificate apart, which the CAfile hides. The
properties of the round trip hold where nothing mends the fault (`Unmended`): a pin above the written
chain undoes `root_hash_not_checked`, a second certificate of the same name, on the chain or on the
machine, may undo a fault in an intermediate, and that an expired root is named is for chains with one
self-signed CA. What is found besides rejection depends on the names being kept: `ClassifiedAsIntended`
and `NothingElseFound` ask for `PlainNames` and `Unaided`, `NeverAccepted` for the former only where an
intermediate is made no CA. `NeverOutside` and `NearestPin` are for targets that do not bear a name of
the split layout; `EverythingRead` and `AsksOnlyForHidden` for containers that are not `Hidden`;
`TempRemoved` spells out the places outside the `try`, and `KeysRemoved` with `KeysGoAway` leave out the
run that ends while its keys are written or removed (`AtTheEnds`). Most chains of the instances meet
all these conditions. The two that ordinary chains may fail are `Unaided`, where
a cross-signed root or an intermediate of the chain is installed on the machine too, and `PlainNames`,
where subjects hold an organisation or a country.

**Fairness.** `PathBuilding` and `Scan` are sequential programs without locks, waits or input, so
weak fairness of `Next` is no more than "the process keeps running"; `openssl` is assumed to
return. `Invalidate` has weak fairness of `Step`: a run that was started goes on, prompts being
answered. It does not cover `Start`, `Interrupt` and `Kill`, which nobody has to do. The other
specifications state no liveness and assume no fairness. Deadlock checking is off because all these
programs end.

## 4 What is proved

All proofs are checked by TLAPS, for every set of certificates, every bundle, every tree, any number
of runs.

| Module | Theorems |
|---|---|
| `Chains_proofs` | lemmas only: `PathsOf(b)` is exactly the set of `q` with `IsPath(b, q)`, although its definition enumerates only paths no longer than the bundle, and is finite; the root of a path is its last certificate; what OpenSSL's building and judging amount to; where nothing has lapsed, OpenSSL has one answer (`OneAnswer`) |
| `PathBuilding_proofs` | `TypeCorrect`, `Soundness` (`CollectedPathsAreReal`), `Completeness` (`NothingLost`), `BoundedRecursion` (`RecursionBounded`), `Ordered` (`ResultInReadingOrder`), `Refinement` (`Spec => Promise!Spec`) |
| `Analysis_proofs` | `ValidIsTrusted` (`ValidMeansTrusted`), `NoFalseAlarm` (`SoundPathAccepted`), `LapseIsNamed` (`ExpiryIsNamed`), `GapsAreExplained` (`GapIsExplained`), `CorruptionIsReported` (`CorruptionNeverSilent`); of the round trip `CorruptionIsNeverAccepted` (`NeverAccepted`), `ScenariosAreRecognised` (`ClassifiedAsIntended`), `NoOtherFault` (`NothingElseFound`) |
| `TrustedChain_proofs` | `PinDecides` (`FoundIsTrusted`), `NoSoundPathMissed` (`SoundPathFound`) |
| `Validator_proofs` | of the scan `TypeCorrect`, `Confinement` (`NeverOutside`), `PinIsNearest` (`NearestPin`), `AllIsRead` (`NothingOverlooked`), `SplitChainsAreWhole` (`SplitChainsStayWhole`); of the report `EachFindingReported` (`EveryFindingOnce`), `CountsAgree` (`SummariesAgree`), `OnlyThePayload` (`PayloadAlone`), `ReportIsDelivered` (`DeliveredOrFailed`) |
| `Loading_proofs` | `AskedOnce` (`OneQuestionPerPath`), `InputsAreRead` (`EverythingRead`), `QuestionsAreHidden` (`AsksOnlyForHidden`), `OwnChainIsUsed` (`OwnMaterialReached`) |
| `Invalidate_proofs` | `KeysAreRemoved` (`KeysRemoved`), `TyposCopyNothing` (`TypoFailsEarly`), `Delivery` (`DeliveredSoFar`), `NothingWrittenTwice` (`CountIsTrue`) |
| `Generate_proofs` | `TypeCorrect`, `TempIsRemoved` (`TempRemoved`), `DirectoriesAreApart` (`RunsStayApart`), `PinnedChainIsWhole` (`PinnedIsWhole`) |

**The search.** None of the properties is inductive. The invariant states that the
stack is a climb from a leaf, that each frame's `advanced` says whether something was climbed from
it, and, for completeness, an account of what is still to come: *every path of the bundle is either
collected already, or will be met, because it leaves the present stack at a frame whose scan has
not yet reached the certificate it continues with, or begins at a leaf not yet picked*. `SkipParent`
moves a scan past a certificate no path continues with; `Climb` moves the paths that continue with
it to the new frame; `Return` of a frame that never climbed collects the one path that ends there;
when stack and leaves are exhausted the account is empty. The last loop keeps `Certs(unique)` equal
to what it has looked at. The refinement then maps `Keep` to `Deliver`, `Finish` to `Finish`, and
everything else to a stutter.

The order follows from the same account. A bundle may hold a certificate several times, and a path
is met at the *first* copy of each of its certificates; so the account speaks of first copies, and
`ReadInv` adds that whatever stands on the stack has been read by the loop that put it there. A path
that comes before the one just collected parts from it at a certificate read earlier; were it still
to come, it would leave the stack ahead of a scan that is already past that certificate. Hence, when
a path is collected, all earlier ones have been (`OrderInv`), and dropping duplicates keeps the order.

**OpenSSL.** `Built` is a set of sequences bounded by conditions on neighbours, so what a built chain
is can be read off at each of its places, without recursion. A path that is `Unaided` is never offered a CA of the machine (`OfferedAlone`),
so its chain climbs to the anchor or not at all. `NoComplaintVouches`: no message then means
that the chain built is, link by link, one of names and keys up to the anchor, so that the path's
certificates vouch for it. `SoundVerifies`: from a sound path one chain can be built, the path
without its anchor (`SoundIsBuilt`, `BuiltFollows`), since names and key identifiers admit no other
neighbour, and the judgement finds no fault. `LapsedIsRejected`: if a path whose names are distinct
is accepted, none of its certificates had lapsed.

**Analysis.** `Lapse` may come between any two steps, and what is found is judged by the clock of its
own moment, or by that of the call's beginning (`began`), as the property in question requires. The
invariant says that each finding about a path is justified (`JudgedInv`); that a path waiting for
the anchor check vouches for its root, without what had lapsed at the beginning (`AcceptedInv`);
that a rejected one is not sound (`RejectedInv`), and which of its certificates the loops have
looked at and found current (`ReadingsInv`); and that corruption is mentioned at the end, whatever
came before (`SilentInv`). `split_certs` is a recursive function; that its equation has a solution, and
what it keeps, is shown from the least counterexample.

**The round trip.** A corrupted chain that is not accepted is one the analysis may say many things of;
for one that is classified as intended it has to be followed exactly, not only kept from erring. While no
certificate lapses during the call, what is found about a path is settled by the path, OpenSSL's answer
and the pin (`Verdict`). The invariant `OInv` carries that through the stages: what each has established
(`PassedInv`), that one finding per path has been made and is so explained (`ProgressInv`), and what is
returned (`OutcomeInv`). Then each scenario has a `Fate`: the paths of the chain that was written, and
their verdicts. Four cases:

* A re-issued certificate stands in its place. The chain keeps its shape (`ChainShape`, `Reshaped`), so
  it is its own only path, and the one lapsed certificate, or the one that is no CA, is where it was
  put (`LapsedWritten`, `LapsedVerdict`).
* A link is gone. With distinct names nothing else issues the certificate below, and the only path ends
  there (`CutOff`, `GapFate`).
* The leaf does not parse. What is left is a bundle of CAs, and the block is mentioned
  (`CorruptedBundle`).
* The pin is another or none. The chain is the one that verified, and does so again, because without
  lapsed certificates OpenSSL builds the same chain each time (`BuiltOnce`, `OneAnswer`).

`RTInv` joins this with the invariant of the analysis and with what was written (`WrittenInv`). That the
expired root of a rolled-over CA may go unnoticed (section 5) came out of the attempt to prove it.

**The choice of the chain.** Candidates are passed over because their root is not the pinned one or
because they are no longer sound. A certificate that has lapsed stays so, hence a reason found
early is still one at the end (`PassedInv`).

**The scan.** While a search is on, the candidate lies within the target and no
directory between the scenario and the candidate, the latter excluded, has a pin; scenarios lie
within the target because folding replaces a directory other than the target by its parent.
What was discovered is at any moment what is left, what is at hand and what was analysed
(`Accounted`), and an analysis has read all that lies within its scenario (`AllRead`); so
every directory is read, and the sisters of a split chain, which fold to one parent, together.

**Loading.** One question leaves the reader in one of two states for good: the settings of that path
are kept, and every later visit takes `Recall`; or the run is refused and nothing is read any more.
The invariant says so of every question noted. What has been read is an account over all three
readings (`ReadSoFar`): for each reading and each path due in it, nothing if it is still to come, and
otherwise exactly what the file is. The own pin is a matter of places: of the directories from an
input upwards, the first with a pin is the nearest, and no other lies between.

**The invalidator.** The keys: a run's key directory exists only between `MakeKeyDir` and the end,
every phase inside the `try` leads to `finally`, and `finally` to the removal or to giving it up; so a
directory that outlives its run was left in `keys` or `finally`, or killed. A run started
with a typing error never gets beyond `parse`. The deliveries: what a turn
reads (`base`, `keys`) is not written by any turn, so a slot this run has written holds a chain that
turn makes, and goes on doing so; a pin is only ever left in a slot of `root_hash_mismatch`, so an
older pin that `Save` finds in another slot is none; and a slot whose turn is over has its
pin. The invariant has to speak of the slot half written, in phase `extras`, whose pin may still be
an earlier run's. Nothing is assumed about the turns: that proof also covers a slot that comes up
twice. That none does is what the count rests on: `Distinct` lists without repetitions
(`DistinctFacts`), so no turn is laid out twice (`TurnsFacts`), both recursive functions treated as
`split_certs`. Turns behind and ahead then stay different (`Different`); what this run has written
belongs to one behind, but for the one half written (`Own`); and each turn that ends adds a slot that
was not among those counted (`Counted`).

**The generator.** A run has at most one directory, no two runs the same, since `MakeRunDir` takes
only a name that is not on disk and a name once taken stays. What is in a directory carries, in the
key of each certificate and each key file, the run that made it; issued and arranged certificates
are the run's own. The shuffled bundle is a function onto the issued certificates, whose range gives
what the two layouts have in common. That a pinned chain is whole takes an invariant that follows the
chain by names (`WInv`): which certificate stands at which place is a function of the run, its count and
the place (`CertAt`), so `issued` is a beginning of one fixed chain, and what is laid out, copied and
pinned is accounted for against it. The names are distinct, hence each certificate has one parent, the
one issued before it, and the last is the only leaf (`ChainRelations`); the one path of the directory is
the chain read upwards (`UpIsPath`, `PathIsUp`). It is sound, and `SoundVerifies` does the rest.

**The report.** `Holds` says of the families that no class has two, that each holds findings of its class
in the order of the analysis, and that together they hold exactly what the two loops have come to (`Met`).
A new finding is later than all of those, so adding it at the end of its family, or founding one, keeps
that (`HoldsMore`). As a family has one class, its counter counts that class alone; no two families have
the same, so the totals add up one number each (`TotalsOfApart`), which is the number of findings of that class
(`ListCounts`). The output is followed from stage to stage (`OutputInv`, `FilesInv`).

**Assumptions.** Those the modules state: attributes are functions of the certificate
(`CertAssumption`, `BundleAssumption`), one of OpenSSL's two wordings and finitely many CAs on the machine (`VerifyAssumption`), a tree
with its root and all parents (`ScanAssumption`), containers in directories that exist, with contents
that agree with their format, and no directory where a pin file is looked for (`LoadingAssumption`),
answers whose tokens stand for at most one thing (`InvalidateAssumption`), certificates as records
of what openssl is given, and names of intermediates distinct from each other and from those of root and
leaf, which the numbering gives (`GenerateAssumption`), what openssl keeps when it re-issues
(`ScenarioAssumption`), scenarios as lists of findings (`ReportAssumption`). `RoundTripAssumption` says of
the chains that each is its own path, has a root and verifies, which is what `find_trusted_chain` has
made sure of; that any of its certificates can be re-issued by the next, and the root by itself, which
gives a new certificate; and that the random digest is that of none of them. Nothing is assumed of its
names. TLC evaluates each in a run.

**Only model-checked.** Liveness (`Terminates` of both searches, `KeysGoAway`), which is out of the
prover's reach. Every safety property of the passing runs is proved.

## 5 Where code and documentation part

Three statements of the repository have a violation run of their own, with a counterexample.

| Run | Statement | What the code does |
|---|---|---|
| `anchor` | the anchor check asks "whether the root the chain arrives at is the root that was actually expected" (`analysis.py:10`) | compares the pin with the *first* self-signed CA of the path, while OpenSSL was offered the *last* certificate |
| `attended` | the supplied password "keeps an unattended run unattended" (`loading.py:53`) | an encrypted PKCS#12 without one of its names is handed to `openssl x509`, which asks at the terminal |
| `trust_store` | "so the system trust store cannot influence the result: a chain is judged against the material supplied" (`chains.py:181`) | passes `-CAfile` alone (`chains.py:197`); OpenSSL also looks among the CAs of the machine and prefers them, and so a chain is VALID for a pinned root it reaches only through a lapsed certificate, or that has lapsed itself |

The following came up in the same way. Where a property would be false because of one, its conditions
leave that case out, so that the properties say how far the code goes.

* A leaf is "a certificate that is not a CA and that nothing else claims as its issuer"
  (`chains.py:50`); a self-signed end-entity certificate names itself and is no leaf (`chains.py:59`).
* A target named `leaf`, `intermediates` or `root` is folded into its parent, above the ceiling of
  the pin search, which "must not escape the path the user asked about" (`tests/test_pinning.py:65`).
* Re-issuing keeps only the common name of the subject (`scenarios.py:106`), though "everything about it
  still verifies except the one property being tested" (`scenarios.py:76`): where names hold more, an
  intermediate that is re-issued is lost to the certificate below it, and what is found is
  MISSING_INTERMEDIATE. The chain `N T U` of `round_trip` has such names; without `PlainNames` in their
  conditions TLC finds this for `ClassifiedAsIntended` and `NothingElseFound`.
* Where such an intermediate is re-issued as no CA, nothing refers to it any more: with its issuers it
  is a sound chain of its own, and may be VALID.
* The table of "Diagnostics OpenSSL emits" (`analysis.py:43`) has the wording of OpenSSL 1.1, "self
  signed", while 3.0 is required (`README.md:118`) and prints "self-signed": a chain rejected for a
  self-signed certificate is UNKNOWN_FAILURE, never SELF_SIGNED.
* An intermediate that is installed on the machine, while its issuer is not, makes a sound chain fail
  ("unable to get issuer certificate"), although all of it was supplied.
* The invalidator does not ask whether a path stops short. One without its root, which the machine
  supplies, has its highest CA for a root (`find_root`): it is taken without a pin, or with a pin of that
  CA, while the validator says MISSING_INTERMEDIATE. So it is with `L I` and `K J I` in `round_trip`.
* `--json-out ""` asks for a file and names none: the report goes to the default one, under `--json-only`
  as well (`validate.py:138`, `140`).
* A cross-signed chain may verify without one of its links, and a rolled-over CA may stand in for a
  corrupted one, though "Every corrupted chain must be rejected" (`tests/test_analysis.py:44`).
* The expired root of a chain whose CA has rolled over, so that two self-signed certificates of one name
  stand on it: OpenSSL takes the other one, and what is reported is about the pin and a signature
  (ROOT_HASH_NOT_CHECKED or ROOT_HASH_MISMATCH, INVALID_SIGNATURE) where EXPIRED_ROOT is meant. It still
  never says VALID.
* A root pinned above the export directory is found by a validator started higher up, so that
  `root_hash_not_checked` shows as VALID.
* With two self-signed CAs on the only path that verifies, the invalidator compares the pin with the
  first of them and may refuse a chain the validator accepts.
* `generate_material` "Returns the intermediate certificate paths, root-most last"
  (`generate.py:132`); the root-most comes first. Nothing depends on it.
* A pin file without a digest is a mismatch for the validator and no pin for the invalidator.
* A container given under two spellings of its path is asked for twice.
* The key directory "never outlives the run" (`invalidate.py:353`), but it is filled before the `try`
  (`invalidate.py:319`), and `ignore_errors=True` says nothing of a removal that fails: private keys
  outlive a run that meets an error, say a full disk, or an interrupt while it writes them
  (`loading.py:255-272`), or either while it removes them; a later run does not. Without `AtTheEnds` TLC
  finds each for `KeysRemoved`. The generator's temporary directory may stay likewise.
* A later run overwrites the results of an earlier one slot by slot, and leaves the other slots.
* With `--json-only` and no target, the prompt for it goes to standard output, before the payload.

## 6 What is not modelled

* Parsing and formatting: PEM, DER, PKCS#7, names, the console's wording. A pin file without a
  digest is the value `Unreadable`; a block that does not parse is in `Unparsable`.
* Cryptography: a signature is good if the signer's key is the one that signed.
* The caches of `certs.py`, which are keyed by content and cannot be stale.
* Cost and limits: Python's recursion limit, the number of paths, the first 8192 bytes of a file.
* Errors of the operating system in the validator's reading (files that vanish, unreadable
  directories): the code skips them. Errors of writing are modelled for the key directory, file by file,
  and for the report; in the export directory and in the generator's they end the run between two steps,
  a chain or pin file that is cut off in the middle is not modelled.
* Symbolic links: `os.walk` does not follow them.
* The prompts of openssl for encrypted PEM keys, once per certificate looked for.
* The clock while the invalidator waits for answers: its chain counts as valid from when it was
  verified.
* Two validators at once, whose default report files may have one name.
* `require_openssl`, debug output: no state.

## 7 Plan

Done, in this order: path building, analysis, scan, scenarios and round trip; then loading, the choice
of the chain, the invalidator, the generator and the report; proofs about the search, OpenSSL, the
analysis, the choice of the chain, the scan, the reader, the invalidator and the generator; proofs about
the round trip and the report.

What is left:

1. The composition of the choice of the chain with the round trip: `RoundTripAssumption` takes of a chain
   what `TrustedChain` promises, under a clock that may move between the two.
2. The hazards listed without a property (`PROJECT.json`): two validators at once, cost and recursion
   limits, the prompts of `openssl pkey`.
