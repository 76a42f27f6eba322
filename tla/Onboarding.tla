----------------------------- MODULE Onboarding -----------------------------
(***************************************************************************)
(* Bringing an agent in: the onboard wizard's three commands                *)
(* (crates/api/src/onboard/commands.rs) and the admission checks that       *)
(* follow (crates/api/src/admission/commands.rs).                           *)
(*                                                                          *)
(* Actors: wizards, each one operator's session, and baselines, each one    *)
(* call of admission_baseline with its two child processes; they interleave *)
(* with each other, with the operator's own edits of the identity map, with *)
(* the gateway's reloads of it (external) and with a death of the console.  *)
(*                                                                          *)
(* A definition marked Mutant is a wrong form of the one after it; no       *)
(* action uses it.                                                          *)
(***************************************************************************)
EXTENDS Integers, FiniteSets, Sequences

CONSTANTS
    Wizard,       \* bound: the sessions
    Agent,        \* agent ids: a trust domain and a path
    FlatName,     \* path.replace('/', "-"): Agent -> file name and default key id
    Unit,         \* the units a wizard may name
    Baseline,     \* bound: the calls of admission_baseline
    MaxEdits,     \* bound: times the identity map is broken by hand
    MaxLosses,    \* bound: deaths of the console
    None

File == {FlatName[a] : a \in Agent}

\* What onboard_generate returns: a passport and its file, a key line and what it covers, a
\* unit, and (history) whether the map was read and whose bundles were committed by then.
Bundle == [agent : Agent, file : File, key : File, unit : Unit, unitIsNew : BOOLEAN,
           mapRead : BOOLEAN, covers : SUBSET Agent, since : SUBSET Wizard]

\* No agent, refusal or bundle is the mark for none, no agent an empty or torn file.
ASSUME OnboardAssumption ==
    /\ None \notin Agent /\ None \notin {"empty", "torn", "invalid_input", "map"}
    /\ None \notin Bundle /\ {"empty", "torn"} \cap Agent = {}

VARIABLES
    wizard,    \* Wizard -> where the session is: "idle", "ready", "checked", "open", "staged", "refused"
    bundle,    \* Wizard -> what onboard_generate returned, or None
    replaces,  \* Wizard -> did the operator tick overwrite
    staged,    \* disk: File -> None, "empty", "torn", or the agent whose passport it holds
    unitList,  \* the identity map: its units, in order
    keyList,   \* the identity map: its key entries
    mapState,  \* the map's file: "absent", "good" or "broken"
    loaded,    \* gateway (external): the key entries it last loaded
    committed, \* the wizards whose fragment, key line and policy were committed
    shell,     \* Baseline -> where the call is
    runOf,     \* Baseline -> the run id its own eval printed, or 0
    evals,     \* verdryx (external): the runs in its store, run i is evals[i]
    snapshots, \* verdryx (external): the runs a baseline was taken of, with its label
    outcome,   \* Baseline -> the AdmissionBaselineDto, or None
    edits, losses

wizardVars == <<wizard, bundle, replaces, committed>>
mapVars    == <<unitList, keyList, mapState, loaded>>
evalVars   == <<shell, runOf, evals, snapshots, outcome>>
onboardVars == <<wizard, bundle, replaces, staged, unitList, keyList, mapState, loaded, committed,
                 shell, runOf, evals, snapshots, outcome, edits, losses>>

OnboardInit ==
    /\ wizard = [w \in Wizard |-> "idle"] /\ bundle = [w \in Wizard |-> None]
    /\ replaces = [w \in Wizard |-> FALSE] /\ committed = {}
    /\ staged = [f \in File |-> None]
    /\ unitList = <<>> /\ keyList = {} /\ mapState \in {"absent", "good"} /\ loaded = {}
    /\ shell = [b \in Baseline |-> "idle"] /\ runOf = [b \in Baseline |-> 0]
    /\ evals = <<>> /\ snapshots = {} /\ outcome = [b \in Baseline |-> None]
    /\ edits = 0 /\ losses = 0

-----------------------------------------------------------------------------
(***************************************************************************)
(* onboard_generate.                                                        *)
(***************************************************************************)
\* What a wizard is asked for.  `flaw` is the group of fields a check would refuse;
\* `bind` the bind pattern: the agent's own id, one ending in `*` that covers every
\* agent, one that names another agent, or one that is not a pattern; `map` whether
\* the request or TOKENFUSE_IDENTITY_MAP names a map at all.
Request == [agent : Agent, unit : Unit, flaw : {"", "identity", "scopes", "models"},
            bind : {"own", "star", "other", "malformed"}, map : BOOLEAN]

\* The domain, path, unit, owner, attestation method, amounts and key id.
IdentityFits(r) == r.flaw # "identity"
\* Each filesystem scope printable and of a known mode, no folder twice.
ScopesFit(r) == r.flaw # "scopes"
\* Each declared model printable, no provider, model and endpoint twice.
ModelsFit(r) == r.flaw # "models"

ValidPattern(p) == p # "malformed"

\* The ids a bind pattern of agent a covers.
Covers(p, a) ==
    CASE p = "own" -> {a} [] p = "star" -> Agent [] p = "other" -> Agent \ {a} [] OTHER -> {}

PatternMatches(p, a) == a \in Covers(p, a)

\* Mutant: a pattern is only looked at for its form.
RefusalByForm(r) ==
    IF ~IdentityFits(r) \/ ~ScopesFit(r) \/ ~ModelsFit(r) \/ ~ValidPattern(r.bind) THEN "invalid_input"
    ELSE IF r.map /\ mapState # "good" THEN "map"
    ELSE None

\* The checks in their order; a map that is named and cannot be read refuses.
GenerateRefusal(r) ==
    IF ~IdentityFits(r) \/ ~ScopesFit(r) \/ ~ModelsFit(r) THEN "invalid_input"
    ELSE IF ~ValidPattern(r.bind) THEN "invalid_input"
    ELSE IF ~PatternMatches(r.bind, r.agent) THEN "invalid_input"
    ELSE IF r.map /\ mapState # "good" THEN "map"
    ELSE None

\* Mutant: the units are the ones the map had when the first wizard began.
KnownUnitsStale(r) == {}

\* Read from the map again by every call that names one; to the others every unit is new.
KnownUnits(r) == IF r.map THEN {unitList[i] : i \in DOMAIN unitList} ELSE {}

\* The four artifacts, from one validated request: the passport and its file, the
\* map fragment (with the unit when it is new), the key line and the policy.
Artifacts(r) ==
    [agent |-> r.agent, file |-> FlatName[r.agent], key |-> FlatName[r.agent],
     unit |-> r.unit, unitIsNew |-> r.unit \notin KnownUnits(r), mapRead |-> r.map,
     covers |-> Covers(r.bind, r.agent), since |-> committed]

Generate(w, r) ==
    /\ wizard[w] = "idle"
    /\ LET no == GenerateRefusal(r)
       IN  /\ wizard' = [wizard EXCEPT ![w] = IF no = None THEN "ready" ELSE "refused"]
           /\ bundle' = IF no = None THEN [bundle EXCEPT ![w] = Artifacts(r)] ELSE bundle
    /\ UNCHANGED <<replaces, committed, staged, mapVars, evalVars, edits, losses>>

-----------------------------------------------------------------------------
(***************************************************************************)
(* onboard_write_passport.  Whether the file exists is asked before it is   *)
(* opened; std::fs::write empties the file and then fills it.               *)
(***************************************************************************)
MayWrite(f, overwrite) == staged[f] = None \/ overwrite

\* The content is the bundle's passport and the path the bundle's, so the checks
\* on schema, id, owner and directory pass.  A refusal leaves the wizard where it
\* was: the UI asks whether to overwrite and calls again.
CheckTarget(w, overwrite) ==
    /\ wizard[w] = "ready"
    /\ wizard' = [wizard EXCEPT ![w] = IF MayWrite(bundle[w].file, overwrite) THEN "checked" ELSE "ready"]
    /\ replaces' = [replaces EXCEPT ![w] = overwrite]
    /\ UNCHANGED <<bundle, committed, staged, mapVars, evalVars, edits, losses>>

OpenTarget(w) ==
    /\ wizard[w] = "checked"
    /\ wizard' = [wizard EXCEPT ![w] = "open"]
    /\ staged' = [staged EXCEPT ![bundle[w].file] = "empty"]
    /\ UNCHANGED <<bundle, replaces, committed, mapVars, evalVars, edits, losses>>

\* Over what another session wrote since the file was emptied, a longer text leaves its end.
FillTarget(w) ==
    /\ wizard[w] = "open"
    /\ wizard' = [wizard EXCEPT ![w] = "staged"]
    /\ \E text \in {bundle[w].agent} \cup (IF staged[bundle[w].file] = "empty" THEN {} ELSE {"torn"}) :
          staged' = [staged EXCEPT ![bundle[w].file] = text]
    /\ UNCHANGED <<bundle, replaces, committed, mapVars, evalVars, edits, losses>>

\* The write fails, nothing or a part of it done; the operator is told and may ask again.
FillFails(w) ==
    /\ wizard[w] = "open"
    /\ wizard' = [wizard EXCEPT ![w] = "ready"]
    /\ \E text \in {staged[bundle[w].file], "torn"} :
          staged' = [staged EXCEPT ![bundle[w].file] = text]
    /\ UNCHANGED <<bundle, replaces, committed, mapVars, evalVars, edits, losses>>

\* Mutant: a file that cannot be read as a passport is left out without a word.
SkippedFilesNone == {}

\* onboard_status: every file of the directory, listed or skipped with a reason.
SkippedFiles == {f \in File : staged[f] \in {"empty", "torn"}}
Listed  == {f \in File : staged[f] \in Agent}

\* id_bound_in_map: a provisioned agent some entry of the map covers.
InMap(a) == mapState = "good" /\ \E k \in keyList : a \in k.covers

-----------------------------------------------------------------------------
(***************************************************************************)
(* What the operator does with the bundle, by hand (external).              *)
(***************************************************************************)
Commit(w) ==
    /\ wizard[w] = "staged" /\ w \notin committed /\ mapState # "broken"
    /\ committed' = committed \cup {w}
    /\ mapState' = "good"
    /\ unitList' = IF bundle[w].unitIsNew THEN Append(unitList, bundle[w].unit) ELSE unitList
    /\ keyList' = keyList \cup {[key |-> bundle[w].key, unit |-> bundle[w].unit,
                                 covers |-> bundle[w].covers, by |-> w]}
    /\ UNCHANGED <<wizard, bundle, replaces, staged, loaded, evalVars, edits, losses>>

\* The map is broken by hand, or mended.
EditMap ==
    /\ \/ mapState = "good" /\ edits < MaxEdits /\ edits' = edits + 1 /\ mapState' = "broken"
       \/ mapState = "broken" /\ mapState' = "good" /\ UNCHANGED edits
    /\ UNCHANGED <<wizardVars, staged, unitList, keyList, loaded, evalVars, losses>>

\* The gateway loads the map; it keeps what it had when the map is broken.
Reload ==
    /\ mapState = "good" /\ loaded # keyList
    /\ loaded' = keyList
    /\ UNCHANGED <<wizardVars, staged, unitList, keyList, mapState, evalVars, edits, losses>>

\* admission_check: is the key known, and is the agent covered by any entry.
BoundInReport(key, a) == \E k \in loaded : a \in k.covers
KeyKnown(key) == \E k \in loaded : k.key = key

-----------------------------------------------------------------------------
(***************************************************************************)
(* admission_baseline: `verdryx eval`, the run id off its output, `verdryx  *)
(* baseline` of that run, and the run's summary back out of the store.      *)
(***************************************************************************)
\* ready_client, the binary and the store: any may be missing.
StartEval(b, a) ==
    /\ shell[b] = "idle"
    /\ shell' = [shell EXCEPT ![b] = "eval"]
    /\ outcome' = [outcome EXCEPT ![b] = [agent |-> a]]
    /\ UNCHANGED <<wizardVars, staged, mapVars, runOf, evals, snapshots, edits, losses>>

RefuseEval(b) ==
    /\ shell[b] = "idle" /\ shell' = [shell EXCEPT ![b] = "failed"]
    /\ UNCHANGED <<wizardVars, staged, mapVars, runOf, evals, snapshots, outcome, edits, losses>>

\* The child writes its run; then it exits well and prints the id, or badly.
Eval(b) ==
    /\ shell[b] = "eval"
    /\ evals' = Append(evals, outcome[b].agent)
    /\ \/ shell' = [shell EXCEPT ![b] = "scored"] /\ runOf' = [runOf EXCEPT ![b] = Len(evals) + 1]
       \/ shell' = [shell EXCEPT ![b] = "failed"] /\ UNCHANGED runOf
    /\ UNCHANGED <<wizardVars, staged, mapVars, snapshots, outcome, edits, losses>>

\* Mutant: the store's newest run is taken for the one just made.
RunIdLatest(b) == Len(evals)

\* parse_eval_run_id: the id this call's own child printed.
RunId(b) == runOf[b]

\* The second child; the output may not carry an id (UnparseableOutput), and the
\* child may fail.
Snapshot(b) ==
    /\ shell[b] = "scored"
    /\ \/ /\ shell' = [shell EXCEPT ![b] = "snapped"]
          /\ snapshots' = snapshots \cup {[run |-> RunId(b), label |-> outcome[b].agent]}
       \/ shell' = [shell EXCEPT ![b] = "failed"] /\ UNCHANGED snapshots
    /\ UNCHANGED <<wizardVars, staged, mapVars, runOf, evals, outcome, edits, losses>>

\* run_summary of that run.
ReadBack(b) ==
    /\ shell[b] = "snapped"
    /\ shell' = [shell EXCEPT ![b] = IF RunId(b) \in DOMAIN evals THEN "done" ELSE "failed"]
    /\ outcome' = [outcome EXCEPT ![b] = [agent |-> outcome[b].agent, run |-> RunId(b)]]
    /\ UNCHANGED <<wizardVars, staged, mapVars, runOf, evals, snapshots, edits, losses>>

-----------------------------------------------------------------------------
\* The console dies: sessions under way are gone, what is on disk stays.
Lose ==
    /\ losses < MaxLosses /\ losses' = losses + 1
    /\ wizard' = [w \in Wizard |-> IF wizard[w] \in {"checked", "open"} THEN "refused" ELSE wizard[w]]
    /\ shell' = [b \in Baseline |-> IF shell[b] \in {"eval", "scored", "snapped"} THEN "failed" ELSE shell[b]]
    /\ UNCHANGED <<bundle, replaces, committed, staged, mapVars, runOf, evals, snapshots, outcome, edits>>

WizardStep ==
    \/ \E w \in Wizard : \/ \E r \in Request : Generate(w, r)
                         \/ \E overwrite \in BOOLEAN : CheckTarget(w, overwrite)
                         \/ OpenTarget(w) \/ FillTarget(w) \/ FillFails(w)
                         \/ Commit(w)
    \/ EditMap \/ Reload

BaselineStep ==
    \E b \in Baseline : \/ \E a \in Agent : StartEval(b, a)
                        \/ RefuseEval(b) \/ Eval(b) \/ Snapshot(b) \/ ReadBack(b)

OnboardNext == WizardStep \/ BaselineStep \/ Lose

OnboardSpec == OnboardInit /\ [][OnboardNext]_onboardVars

-----------------------------------------------------------------------------
(***************************************************************************)
(* Properties.                                                              *)
(***************************************************************************)
\* The wizard's promise, that its artifacts "cannot disagree": once a bundle was
\* committed and the gateway loaded the map, its key is known there, and the
\* agent is bound there and in the map, whatever other wizards committed, in
\* whatever order, and whichever of their bundles share its key id.
CommittedIsAdmitted ==
    \A w \in committed :
        /\ mapState = "good" => InMap(bundle[w].agent)
        /\ (\E k \in loaded : k.by = w) =>
               KeyKnown(bundle[w].key) /\ BoundInReport(bundle[w].key, bundle[w].agent)

\* Every file in the directory is reported: a passport a dead console left half
\* written is named in `skipped`, and is never counted as provisioned.
EveryFileIsReported ==
    /\ \A f \in File : staged[f] # None => f \in Listed \cup SkippedFiles
    /\ \A f \in Listed : \E w \in Wizard : wizard[w] # "open" /\ bundle[w] # None /\ staged[f] = bundle[w].agent

\* A unit is defined once in the map, unless two bundles were each made before
\* the other was committed, or the one committed last was made without a map: both
\* were told the unit is new, and both define it.
UnitDefinedOnce ==
    \A i, j \in DOMAIN unitList : i < j /\ unitList[i] = unitList[j] =>
        \E w, x \in committed :
            /\ bundle[w].unit = unitList[i] /\ bundle[x].unit = unitList[i] /\ w # x
            /\ w \notin bundle[x].since
            /\ x \notin bundle[w].since \/ ~bundle[w].mapRead

\* The bundle's fragment has a "units entry when the unit is new" (docs/ONBOARD.md:102).
\* It does not hold: a console that is given no map calls every unit new, the one that
\* the last bundle of this very console defined included.
NewMeansNew ==
    \A i, j \in DOMAIN unitList : i < j /\ unitList[i] = unitList[j] =>
        \E w, x \in committed :
            /\ bundle[w].unit = unitList[i] /\ bundle[x].unit = unitList[i] /\ w # x
            /\ w \notin bundle[x].since /\ x \notin bundle[w].since

\* admission_baseline answers with the run its own eval made, of the agent it was
\* asked about, and that run is the one the baseline was taken of, whatever other
\* evals ran against the store meanwhile.
BaselineIsOfItsRun ==
    \A b \in Baseline : shell[b] = "done" =>
        /\ evals[outcome[b].run] = outcome[b].agent
        /\ [run |-> outcome[b].run, label |-> outcome[b].agent] \in snapshots

\* docs and messages of onboard_write_passport: "an existing file is refused
\* unless `overwrite`": what one session staged stays until it is asked for.
\* It does not hold: two writes that both found no file both write.
NeverReplacedUnasked ==
    [][\A w \in Wizard : wizard[w] = "checked" /\ wizard'[w] = "open" =>
           staged[bundle[w].file] = None \/ replaces[w]]_onboardVars

\* What several wizards stage and commit agrees: keys, bindings and map; every file on disk
\* is reported; a unit is defined once, as far as the map was read; a baseline is of its own
\* run (onboard/commands.rs, admission/commands.rs).
OnboardedIsConsistent ==
    /\ CommittedIsAdmitted
    /\ EveryFileIsReported
    /\ UnitDefinedOnce
    /\ BaselineIsOfItsRun
=============================================================================
