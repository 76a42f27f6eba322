----------------------------- MODULE MCCopilot -----------------------------
(***************************************************************************)
(* Instances of the copilot and of the case it works on: Felyx (one answer, *)
(* from the question to the checked text and its cards), CaseSeal (a case   *)
(* assembled, advised on and sealed) and Residency (where the provider's    *)
(* connections go).  They share no state, so a behaviour is of one of them: *)
(* `part` is chosen at the start and the state of the others stands still.  *)
(***************************************************************************)
EXTENDS Felyx, CaseSeal, Residency, TLC

VARIABLE part

(***************************************************************************)
(* Felyx: two runs and an incident.  The rows differ in what their text     *)
(* names, asks for or orders; r2 is also an agent in a row that is not of   *)
(* the tool's shape.                                                        *)
(***************************************************************************)
Written(named, asked, orders) ==
    [names |-> named, asks |-> asked, orders |-> orders, subjects |-> {}]
Quiet == Written({}, "none", FALSE)
RowOf(tool, key, id, budget, text) ==
    [tool |-> tool, key |-> key, id |-> id, shaped |-> TRUE, budget |-> budget, text |-> text]
Rows ==
    {RowOf("budgets", "run_id", "r1", "under", Quiet),
     RowOf("list_runs", "run_id", "r2", "none", Written({"r1"}, "kill", FALSE)),
     RowOf("list_runs", "run_id", "r2", "none", Written({}, "kill", TRUE)),
     RowOf("incidents", "id", "i1", "none", Written({}, "kill", FALSE)),
     [RowOf("identities", "agent_id", "r2", "none", Quiet) EXCEPT !.shaped = FALSE]}

States(id) == [id |-> id, reported |-> FALSE, absent |-> FALSE, action |-> "none",
               refused |-> FALSE, claims |-> "none"]
Statements ==
    {[States("r1") EXCEPT !.claims = "unbudgeted"], [States("r1") EXCEPT !.action = "kill"],
     States("r2"), [States("r2") EXCEPT !.reported = TRUE], [States("r2") EXCEPT !.absent = TRUE]}

ProposalOf(action, target, rationale) ==
    [action |-> action, target |-> target, rationale |-> States(rationale)]
Proposals == {ProposalOf("kill", "r1", "none"), ProposalOf("kill", "i1", "none"),
              ProposalOf("kill", "r1", "r2"), ProposalOf("budget", "r1", "none"),
              ProposalOf("rescan", "all", "none")}

CaseFile == {RowOf("case", "incident_id", "i1", "none", Quiet),
             RowOf("case", "run_id", "r1", "none", Written({"r2"}, "none", FALSE))}
BriefOf(asked, about, case, rows) ==
    [asks |-> asked, incident |-> about, case |-> case, budgets |-> TRUE, file |-> rows]
Briefs == {BriefOf({}, "none", FALSE, {}), BriefOf({<<"budget", "r1">>}, "none", FALSE, {}),
           BriefOf({}, "i1", FALSE, {}), BriefOf({}, "i1", TRUE, CaseFile),
           BriefOf({}, "", TRUE, {})}

(***************************************************************************)
(* CaseSeal: an incident of spend or identity names a run, any other none; *)
(* without a journal only one of spend is sealed; a class offered what     *)
(* another is, or less, is left out.  A source turns while it is being     *)
(* asked, a store read while a seal is, the clock while the first          *)
(* questions are out, a file is altered while nothing is, and advice is    *)
(* asked for before the seals.                                             *)
(***************************************************************************)
CaseStart ==
    /\ incident.run <=> incident.class \in {"spend", "identity"}
    /\ incident.class \notin {"quality", "loop", "approval", "data"}
    /\ journal \/ incident.class = "spend"

CaseMoves ==
    /\ advised' # advised => \A j \in Sealing : sealing[j].phase = "idle"
    /\ sealing' # sealing => advised = {}
    /\ turns' # turns => advised = {} /\ \E j \in Sealing, s \in Source :
           /\ sealing[j].phase = "asking" /\ standing[s] # standing'[s]
           /\ s \in sealing[j].out \/ s \in StoreRead
           /\ s = "timeline" => incident.run
    /\ second' # second => advised = {} /\ \E j \in Sealing :
           sealing[j].phase = "asking" /\ sealing[j].out = FirstQuestions
    /\ ends' # ends => \E j \in Sealing : sealing[j].phase \notin {"idle", "asking"}
    /\ alterations' # alterations => \A j \in Sealing : sealing[j].phase # "asking"

-----------------------------------------------------------------------------
\* The parts that are not chosen start in one of their initial states.
Still ==
    /\ part # "felyx" => brief = BriefOf({}, "none", FALSE, {})
    /\ part # "case" => /\ incident = [filedUnder |-> "agent", run |-> TRUE, class |-> "spend"]
                        /\ journal
    /\ part # "residency" => /\ config = (CHOOSE c \in Config : c.kind = "none")
                             /\ ~proxySet /\ names = {Local}

MCInit ==
    /\ FelyxInit /\ CaseInit /\ ResidencyInit
    /\ CaseStart
    /\ part \in {"felyx", "case", "residency"} /\ Still

MCNext ==
    \/ part = "felyx" /\ FelyxNext /\ UNCHANGED <<caseVars, residencyVars, part>>
    \/ part = "case" /\ CaseNext /\ CaseMoves /\ UNCHANGED <<felyxVars, residencyVars, part>>
    \/ part = "residency" /\ ResidencyNext /\ UNCHANGED <<felyxVars, caseVars, part>>

MCSpec == MCInit /\ [][MCNext]_<<felyxVars, caseVars, residencyVars, part>>

Symmetric == Permutations(Sealing)
=============================================================================
