------------------------------- MODULE Felyx -------------------------------
(***************************************************************************)
(* One answer of the copilot (crates/copilot): the bounded provider loop   *)
(* of agent.rs, what a tool result grounds (untrusted.rs, references.rs,   *)
(* grounding.rs), the screen a proposal passes before it is a card, the    *)
(* one revision a draft gets, and what is delivered when it is spent.      *)
(*                                                                         *)
(* The provider is free: any turn may fail, call any tools, or draft any   *)
(* statements.  Text is abstracted to what the checks tell apart: which    *)
(* ids it names, which action it asks for, whether it reads like an        *)
(* instruction, whether it reports, denies or turns down.                  *)
(***************************************************************************)
EXTENDS Naturals, FiniteSets

CONSTANTS Row,            \* what a read tool may return, one row a call
          Statement,      \* what a draft or a rationale may state
          Proposal,       \* what a propose tool may be called with
          Brief,          \* what an answer may be for
          MaxIterations,  \* the configured bound on provider turns
          MaxCalls        \* tool calls the model puts in one turn

VARIABLES brief, phase, iteration, calls, revised, ids, spans, facts, cards,
          withheld, answer,
          log             \* history: every result of this answer's read tools

felyxVars == <<brief, phase, iteration, calls, revised, ids, spans, facts,
               cards, withheld, answer, log>>

None == "none"
NoAnswer == [chainless |-> FALSE, text |-> {}, noted |-> {}]

\* What a row, a statement, a proposal and the question are made of.  Only a case has a
\* file, and the operator asks for one of the four actions on a target.
Text == [names : SUBSET STRING, asks : STRING, orders : BOOLEAN, subjects : SUBSET STRING]
Entry == [tool : STRING, key : STRING, id : STRING, shaped : BOOLEAN, budget : STRING,
          text : Text]
Said == [id : STRING, reported : BOOLEAN, absent : BOOLEAN, action : STRING,
         refused : BOOLEAN, claims : STRING]
Action == {"kill", "budget", "grant", "rescan"}

ASSUME FelyxAssumption ==
    /\ Row \subseteq Entry /\ Statement \subseteq Said
    /\ Proposal \subseteq [action : Action, target : STRING, rationale : Said]
    /\ \A b \in Brief :
         /\ b \in [asks : SUBSET (Action \X STRING), incident : STRING, case : BOOLEAN,
                   budgets : BOOLEAN, file : SUBSET Entry]
         /\ b.file # {} => b.case
    /\ MaxIterations \in Nat /\ MaxCalls \in Nat

TargetKind == [kill |-> "run", budget |-> "run", grant |-> "approval",
               rescan |-> "agent"]

(* Which structured field of which tool grounds what. *)
KindOf(tool, key) ==
    CASE key = "run_id" -> "run"
      [] key \in {"agent_id", "claimed_agent"} -> "agent"
      [] key = "approval_id" -> "approval"
      [] key = "id" /\ tool = "incidents" -> "incident"
      [] key = "incident_id" -> "incident"
      [] key = "id" /\ tool = "policies" -> "policy"
      [] OTHER -> "other"

(* A field the fence leaves plain: a structured key, and a value shaped like
   one token.  Anything else a plane sent is text, under its row's ids. *)
Fields(row) ==
    IF row.shaped THEN {[kind |-> KindOf(row.tool, row.key), id |-> row.id]} ELSE {}

Spans(row) ==
    LET subjects == IF row.shaped THEN {row.id} ELSE {}
    IN  {[row.text EXCEPT !.subjects = subjects]} \cup
        (IF row.shaped THEN {}
         ELSE {[names |-> {row.id}, asks |-> None, orders |-> FALSE, subjects |-> {}]})

ErrorSpans(row) == {[row.text EXCEPT !.subjects = {}]}

\* Mutant: the fields of a failed call ground as well.
RecordFailed(row, ok) ==
    /\ spans' = spans \cup (IF ok THEN Spans(row) ELSE ErrorSpans(row))
    /\ ids' = ids \cup Fields(row)

(* Evidence::record: a failed call grounds nothing, its error is text read. *)
Record(row, ok) ==
    /\ spans' = spans \cup (IF ok THEN Spans(row) ELSE ErrorSpans(row))
    /\ ids' = IF ok THEN ids \cup Fields(row) ELSE ids

(* BudgetFacts::record. *)
RecordFacts(row, ok) ==
    facts' = IF ~ok THEN facts
             ELSE [read     |-> facts.read \/ row.tool = "budgets",
                   known    |-> facts.known \cup
                                  (IF row.key = "run_id" THEN {row.id} ELSE {}),
                   budgeted |-> facts.budgeted \cup
                                  (IF row.key = "run_id" /\ row.budget # None
                                   THEN {row.id} ELSE {}),
                   over     |-> facts.over \cup
                                  (IF row.key = "run_id" /\ row.budget = "over"
                                   THEN {row.id} ELSE {})]

Grounded(id) == \E f \in ids : f.id = id
GroundedAs(kind, id) == [kind |-> kind, id |-> id] \in ids

SpanNaming(id) == \E s \in spans : id \in s.names

\* Mutant: only a text that names the target counts.
DemandsByName(span, kind, target) ==
    span.asks = kind /\ target \in span.names \cup span.subjects

Demands(span, kind, target) ==
    span.asks = kind /\ (target \in span.names \cup span.subjects \/ span.orders)
DemandingSpan(kind, target) == \E s \in spans : Demands(s, kind, target)
Asked(kind, target) == <<kind, target>> \in brief.asks

(* Evidence::check, for one statement: what it names must be grounded, or
   sit in a text it attributes it to; and it may recommend no action a text
   asks for. *)
UnsupportedReference(s) ==
    /\ ~s.absent
    /\ s.id # None /\ ~Grounded(s.id)
    /\ ~(SpanNaming(s.id) /\ s.reported)

RepeatedDemand(s) ==
    /\ ~s.reported /\ ~s.refused
    /\ s.action # None
    /\ GroundedAs(TargetKind[s.action], s.id)
    /\ ~Asked(s.action, s.id)
    /\ DemandingSpan(s.action, s.id)

Unsupported(s) == UnsupportedReference(s) \/ RepeatedDemand(s)
References(draft) == {s \in draft : Unsupported(s)}

(* grounding::check: budget statements on a run the tools returned. *)
UnsupportedClaim(s) ==
    /\ s.claims # None
    /\ s.id \in facts.known
    /\ \/ brief.budgets /\ ~facts.read
       \/ s.claims = "over" /\ s.id \notin facts.over
       \/ s.claims = "unbudgeted" /\ s.id \in facts.budgeted
       \/ s.claims = "budgeted" /\ s.id \notin facts.budgeted

Claims(draft) == {s \in draft : UnsupportedClaim(s)}

NoIncident == brief.incident # None /\ ~GroundedAs("incident", brief.incident)

(***************************************************************************)
(* The loop.                                                               *)
(***************************************************************************)
FelyxInit ==
    \E b \in Brief :
        /\ brief = b
        /\ phase = "chat" /\ iteration = 0 /\ calls = 0 /\ revised = FALSE
        /\ ids = UNION {Fields(r) : r \in b.file}
        /\ spans = UNION {Spans(r) : r \in b.file}
        /\ facts = [read |-> FALSE, known |-> {}, budgeted |-> {}, over |-> {}]
        /\ cards = {} /\ withheld = {} /\ answer = NoAnswer
        /\ log = {[row |-> r, ok |-> TRUE] : r \in b.file}

(* for _ in 0..max_iterations. *)
MayChat == phase = "chat" /\ iteration < MaxIterations

(* A provider turn fails: the whole answer does. *)
ProviderFails ==
    /\ MayChat
    /\ phase' = "failed"
    /\ UNCHANGED <<brief, iteration, calls, revised, ids, spans, facts, cards,
                   withheld, answer, log>>

(* The bound is spent: the answer is an error, and its cards go with it. *)
IterationLimit ==
    /\ phase = "chat" /\ iteration = MaxIterations
    /\ phase' = "failed"
    /\ UNCHANGED <<brief, iteration, calls, revised, ids, spans, facts, cards,
                   withheld, answer, log>>

(* A turn that calls tools.  Reading a case dispatches none of them. *)
CallTools ==
    /\ MayChat
    /\ iteration' = iteration + 1
    /\ phase' = IF brief.case THEN "chat" ELSE "calls"
    /\ calls' = 0
    /\ UNCHANGED <<brief, revised, ids, spans, facts, cards, withheld, answer, log>>

NextCall ==
    /\ phase = "calls" /\ calls < MaxCalls
    /\ calls' = calls + 1

Read(row, ok) ==
    /\ NextCall
    /\ Record(row, ok) /\ RecordFacts(row, ok)
    /\ log' = log \cup {[row |-> row, ok |-> ok]}
    /\ UNCHANGED <<brief, phase, iteration, revised, cards, withheld, answer>>

(* Evidence::screen: the operator's own request names the target; otherwise
   no text may ask for the action, and a tool must have returned the target
   as that kind of thing.  Then the rationale is checked like a draft. *)
Screen(p) ==
    \/ Asked(p.action, p.target)
    \/ /\ ~DemandingSpan(p.action, p.target)
       /\ \/ p.action = "rescan" /\ p.target = "all"
          \/ GroundedAs(TargetKind[p.action], p.target)

AskedGrounds(p) ==
    IF Asked(p.action, p.target)
    THEN ids \cup {[kind |-> TargetKind[p.action], id |-> p.target]}
    ELSE ids

RationaleHolds(p) ==
    LET s == p.rationale
        named == s.id = None \/ \E f \in AskedGrounds(p) : f.id = s.id
    IN  /\ s.absent \/ named \/ (SpanNaming(s.id) /\ s.reported)
        /\ \/ s.reported \/ s.refused \/ s.action = None
           \/ [kind |-> TargetKind[s.action], id |-> s.id] \notin AskedGrounds(p)
           \/ Asked(s.action, s.id)
           \/ ~DemandingSpan(s.action, s.id)

Propose(p) ==
    /\ NextCall
    /\ ids' = AskedGrounds(p)
    /\ IF Screen(p) /\ RationaleHolds(p)
       THEN /\ cards' = cards \cup {[on |-> p, behind |-> log]}
            /\ UNCHANGED withheld
       ELSE /\ withheld' = withheld \cup {p}
            /\ UNCHANGED cards
    /\ UNCHANGED <<brief, phase, iteration, revised, spans, facts, answer, log>>

EndCalls ==
    /\ phase = "calls" /\ calls > 0
    /\ phase' = "chat"
    /\ UNCHANGED <<brief, iteration, calls, revised, ids, spans, facts, cards,
                   withheld, answer, log>>

\* Mutant: a chain is kept with the links that hold.
ChainlessByIncident(draft) == NoIncident

(* Draft::finished: one link out of a chain is no chain. *)
Chainless(draft) ==
    NoIncident \/ (brief.incident # None /\ References(draft) # {})

Finished(draft) == IF Chainless(draft) THEN {} ELSE draft \ References(draft)

\* Mutant: the revised draft is not checked for notes.
NotesOfFirst(draft) == IF revised THEN {} ELSE Claims(draft)

(* A turn without tool calls is a draft.  The first with findings is sent
   back; after that what is left is delivered with its notes. *)
Notes(draft) == Claims(draft)

Deliver(draft) ==
    /\ phase' = "done"
    /\ answer' = [chainless |-> Chainless(draft), text |-> Finished(draft),
                  noted |-> Notes(draft)]
    /\ cards' = IF NoIncident THEN {} ELSE cards
    /\ withheld' = IF NoIncident THEN withheld \cup {c.on : c \in cards} ELSE withheld
    /\ UNCHANGED revised

Draft(draft) ==
    /\ MayChat
    /\ iteration' = iteration + 1
    /\ IF ~revised /\ (NoIncident \/ References(draft) \cup Claims(draft) # {})
       THEN revised' = TRUE /\ UNCHANGED <<phase, answer, cards, withheld>>
       ELSE Deliver(draft)
    /\ UNCHANGED <<brief, calls, ids, spans, facts, log>>

Drafts == {d \in SUBSET Statement : Cardinality(d) \in 1..2}

FelyxNext ==
    \/ ProviderFails \/ IterationLimit \/ CallTools \/ EndCalls
    \/ \E row \in Row, ok \in BOOLEAN : Read(row, ok)
    \/ \E p \in Proposal : Propose(p)
    \/ \E d \in Drafts : Draft(d)

FelyxSpec == FelyxInit /\ [][FelyxNext]_felyxVars

(***************************************************************************)
(* Properties, stated over the results the tools gave (log), never over    *)
(* what the checks kept of them.                                           *)
(***************************************************************************)
Returned(results, kind, id) ==
    \E r \in results : r.ok /\ r.row.shaped /\ r.row.id = id
                        /\ (kind = None \/ KindOf(r.row.tool, r.row.key) = kind)

Delivered == phase = "done"
Told == answer.text

OperatorNamed(id) == \E a \in brief.asks : a[2] = id

\* No delivered statement names, as a fact of its own, an id that no read of
\* this answer returned in a structured field and the operator did not name
\* (references.rs 245-293, agent.rs 170-176), however the text and the failed
\* calls of the same answer name it.
NothingInvented ==
    Delivered =>
        \A s \in Told : \/ s.id = None \/ s.absent \/ s.reported
                        \/ Returned(log, None, s.id) \/ OperatorNamed(s.id)

\* An explanation that is delivered rests on the incident a tool returned and
\* is whole; one whose incident no tool returned carries no card (agent.rs
\* 416-424, Draft::finished).
ExplanationRests ==
    Delivered /\ brief.incident # None =>
        IF Returned(log, "incident", brief.incident)
        THEN answer.chainless \/ answer.text \in Drafts
        ELSE answer.chainless /\ cards = {}

\* No card is there because a text a plane returned asked for it: behind a card
\* the operator did not ask for, nothing read before it asks for its action on
\* its target, and its target was returned as that kind of thing or is one the
\* operator named for another action on that kind: screen grounds what it was
\* asked for (references.rs 326-365).
NoCardFromPlaneText ==
    \A c \in cards :
        \/ <<c.on.action, c.on.target>> \in brief.asks
        \/ /\ \A r \in c.behind :
                LET t == r.row.text
                IN  ~(/\ t.asks = c.on.action
                      /\ \/ t.orders \/ c.on.target \in t.names
                         \/ r.ok /\ r.row.shaped /\ r.row.id = c.on.target)
           /\ \/ c.on.target = "all"
              \/ Returned(c.behind, TargetKind[c.on.action], c.on.target)
              \/ \E a \in brief.asks : /\ a[2] = c.on.target
                                       /\ TargetKind[a[1]] = TargetKind[c.on.action]

\* A budget statement that is delivered and that the budgets this answer read
\* contradict is named in the note under the answer, also when it first
\* appeared in the revised draft (agent.rs 388-428, grounding.rs 248-316).
ContradictedClaimsAreNoted ==
    Delivered =>
        \A s \in Told :
            (/\ s.claims = "unbudgeted"
             /\ \E r \in log : /\ r.ok /\ r.row.key = "run_id" /\ r.row.id = s.id
                               /\ r.row.budget # None
             /\ ~brief.case)
            => s \in answer.noted

\* The type of the state; every proposal is a card or was withheld.
FelyxTypeOK ==
    /\ brief \in Brief
    /\ phase \in {"chat", "calls", "done", "failed"}
    /\ iteration \in 0..MaxIterations /\ calls \in 0..MaxCalls
    /\ revised \in BOOLEAN
    /\ {c.on : c \in cards} \cup withheld \subseteq Proposal
    /\ answer.text \cup answer.noted \subseteq Statement
    /\ phase # "done" => answer = NoAnswer

\* A delivered answer and its cards rest on what the tools of this answer returned: the
\* ids it states, the incident it explains, the actions it proposes and its claims about
\* budgets (agent.rs: run; references.rs; grounding.rs).
NothingUngrounded ==
    /\ NothingInvented
    /\ ExplanationRests
    /\ NoCardFromPlaneText
    /\ ContradictedClaimsAreNoted
=============================================================================
