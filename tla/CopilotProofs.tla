--------------------------- MODULE CopilotProofs ---------------------------
(***************************************************************************)
(* Proofs about the copilot's answer (Felyx), for any rows a tool may      *)
(* return, any statements and proposals of the model and any bound on its  *)
(* turns and calls, about the case it works on (CaseSeal), for any         *)
(* requests to seal, any clock, and any number of turns of the planes,     *)
(* deaths of the console and alterations of the stored files, and about    *)
(* where the prompts go (Residency), for any number of moves of a name and *)
(* of questions, and any width of a token count.                           *)
(***************************************************************************)
EXTENDS Felyx, CaseSeal, Residency, TLAPS

-----------------------------------------------------------------------------
(***************************************************************************)
(* Felyx: what the checks know comes from what the tools returned.         *)
(***************************************************************************)
\* Every id the answer is checked against was returned by a tool as that kind of
\* thing, or the operator named it for an action on that kind.
IdsAreReturned ==
    \A f \in ids :
        \/ Returned(log, f.kind, f.id)
        \/ \E a \in brief.asks : a[2] = f.id /\ f.kind = TargetKind[a[1]]

\* Whatever a result's text asks for, the checks hold a span that asks for it.
TextIsHeld ==
    \A r \in log : \E s \in spans :
        /\ s.asks = r.row.text.asks
        /\ s.orders = r.row.text.orders
        /\ r.row.text.names \subseteq s.names
        /\ r.ok /\ r.row.shaped => r.row.id \in s.subjects

\* The budget facts know every budget a call returned; a case's file is none.
BudgetsAreKnown ==
    ~brief.case =>
        \A r \in log : r.ok /\ r.row.key = "run_id" =>
            /\ r.row.id \in facts.known
            /\ r.row.budget # None => r.row.id \in facts.budgeted

BriefIsKnown == brief \in Brief

Grounding == IdsAreReturned /\ TextIsHeld /\ BudgetsAreKnown
FelyxInv == BriefIsKnown /\ Grounding /\ NothingUngrounded

-----------------------------------------------------------------------------
(***************************************************************************)
(* What the operators the checks are built from return.                    *)
(***************************************************************************)
\* What a result returned stays returned as others come.
LEMMA ReturnedGrows ==
    ASSUME NEW X, NEW Y, X \subseteq Y, NEW k, NEW id, Returned(X, k, id)
    PROVE  Returned(Y, k, id)
  BY DEF Returned

LEMMA ReturnedAsAny ==
    ASSUME NEW X, NEW k, NEW id, Returned(X, k, id)
    PROVE  Returned(X, None, id)
  BY DEF Returned

LEMMA FieldsAreReturned ==
    ASSUME NEW X, NEW row, NEW f \in Fields(row), [row |-> row, ok |-> TRUE] \in X
    PROVE  Returned(X, f.kind, f.id)
  <1>1. row.shaped /\ f = [kind |-> KindOf(row.tool, row.key), id |-> row.id]
    BY DEF Fields
  <1>2. f.kind = KindOf(row.tool, row.key) /\ f.id = row.id
    BY <1>1
  <1> DEFINE r == [row |-> row, ok |-> TRUE]
  <1>3. r \in X /\ r.ok /\ r.row = row
    OBVIOUS
  <1>4. QED
    BY <1>1, <1>2, <1>3 DEF Returned

\* A span of a result's text asks for what the text asks for, on the row's id as well when
\* the row came in a field.
LEMMA SpanOfRow ==
    ASSUME NEW row \in Entry
    PROVE  \E s \in Spans(row) :
             /\ s.asks = row.text.asks /\ s.orders = row.text.orders
             /\ row.text.names \subseteq s.names
             /\ row.shaped => row.id \in s.subjects
  <1> DEFINE subjects == IF row.shaped THEN {row.id} ELSE {}
             s == [row.text EXCEPT !.subjects = subjects]
  <1>1. row.text \in Text
    BY DEF Entry
  <1>2. s \in Spans(row)
    BY DEF Spans
  <1>3. /\ s.asks = row.text.asks /\ s.orders = row.text.orders /\ s.names = row.text.names
        /\ row.shaped => row.id \in s.subjects
    BY <1>1 DEF Text
  <1> HIDE DEF s
  <1>4. QED
    BY <1>2, <1>3

LEMMA SpanOfError ==
    ASSUME NEW row \in Entry
    PROVE  \E s \in ErrorSpans(row) :
             /\ s.asks = row.text.asks /\ s.orders = row.text.orders
             /\ row.text.names \subseteq s.names
  <1> DEFINE s == [row.text EXCEPT !.subjects = {}]
  <1>1. row.text \in Text
    BY DEF Entry
  <1>2. s \in ErrorSpans(row)
    BY DEF ErrorSpans
  <1>3. s.asks = row.text.asks /\ s.orders = row.text.orders /\ s.names = row.text.names
    BY <1>1 DEF Text
  <1>4. QED
    BY <1>2, <1>3

\* Nothing a demand looks for in a result's text is missing in the spans.
LEMMA NoDemandUnheld ==
    ASSUME TextIsHeld, NEW kind, NEW target, ~DemandingSpan(kind, target), NEW r \in log,
           r.row.text.asks = kind
    PROVE  /\ ~r.row.text.orders /\ target \notin r.row.text.names
           /\ ~(r.ok /\ r.row.shaped /\ r.row.id = target)
  <1>1. PICK s \in spans : /\ s.asks = r.row.text.asks
                           /\ s.orders = r.row.text.orders
                           /\ r.row.text.names \subseteq s.names
                           /\ r.ok /\ r.row.shaped => r.row.id \in s.subjects
    BY DEF TextIsHeld
  <1>2. ~Demands(s, kind, target)
    BY DEF DemandingSpan
  <1>3. QED
    BY <1>1, <1>2 DEF Demands

-----------------------------------------------------------------------------
(***************************************************************************)
(* What the grounding is after each call.                                  *)
(***************************************************************************)
LEMMA BriefShape ==
    ASSUME BriefIsKnown
    PROVE  /\ brief \in [asks : SUBSET (Action \X STRING), incident : STRING, case : BOOLEAN,
                         budgets : BOOLEAN, file : SUBSET Entry]
           /\ brief.file # {} => brief.case
           /\ \A a \in brief.asks : a[1] \in Action
  <1>1. /\ brief \in [asks : SUBSET (Action \X STRING), incident : STRING, case : BOOLEAN,
                      budgets : BOOLEAN, file : SUBSET Entry]
        /\ brief.file # {} => brief.case
    BY FelyxAssumption DEF BriefIsKnown
  <1>2. brief.asks \subseteq Action \X STRING
    BY <1>1
  <1>3. QED
    BY <1>1, <1>2

\* A case's file is on record and grounds the answer before its first turn.
LEMMA FileGrounds ==
    ASSUME FelyxInit
    PROVE  BriefIsKnown /\ Grounding
  <1>1. PICK b \in Brief :
          /\ brief = b /\ ids = UNION {Fields(r) : r \in b.file}
          /\ spans = UNION {Spans(r) : r \in b.file}
          /\ log = {[row |-> r, ok |-> TRUE] : r \in b.file}
    BY DEF FelyxInit
  <1>2. b.file \subseteq Entry /\ (b.file # {} => b.case)
    BY FelyxAssumption
  <1>3. IdsAreReturned
    <2>1. SUFFICES ASSUME NEW f \in ids
                   PROVE  Returned(log, f.kind, f.id)
      BY DEF IdsAreReturned
    <2>2. PICK r \in b.file : f \in Fields(r)
      BY <1>1
    <2>3. [row |-> r, ok |-> TRUE] \in log
      BY <1>1
    <2>4. QED
      BY <2>2, <2>3, FieldsAreReturned
  <1>4. TextIsHeld
    <2>1. SUFFICES ASSUME NEW r \in log
                   PROVE  \E s \in spans : /\ s.asks = r.row.text.asks
                                           /\ s.orders = r.row.text.orders
                                           /\ r.row.text.names \subseteq s.names
                                           /\ r.ok /\ r.row.shaped => r.row.id \in s.subjects
      BY DEF TextIsHeld
    <2>2. PICK row \in b.file : r = [row |-> row, ok |-> TRUE]
      BY <1>1
    <2>3. row \in Entry /\ r.row = row
      BY <1>2, <2>2
    <2>4. Spans(row) \subseteq spans
      BY <1>1
    <2>5. QED
      BY <2>3, <2>4, SpanOfRow
  <1>5. BudgetsAreKnown
    BY <1>1, <1>2 DEF BudgetsAreKnown
  <1>6. QED
    BY <1>1, <1>3, <1>4, <1>5 DEF BriefIsKnown, Grounding

\* A call that is read grounds what it returned, a failed one nothing, and the text of both
\* is held.
LEMMA ReadGrounds ==
    ASSUME BriefIsKnown, Grounding, NEW row \in Row, NEW ok \in BOOLEAN, Read(row, ok)
    PROVE  Grounding'
  <1> DEFINE new == [row |-> row, ok |-> ok]
  <1>1. /\ log' = log \cup {new} /\ brief' = brief
        /\ spans' = spans \cup (IF ok THEN Spans(row) ELSE ErrorSpans(row))
        /\ ids' = IF ok THEN ids \cup Fields(row) ELSE ids
        /\ RecordFacts(row, ok)
    BY DEF Read, Record
  <1>2. new.row = row /\ new.ok = ok /\ row \in Entry
    BY FelyxAssumption
  <1> HIDE DEF new
  <1>3. IdsAreReturned'
    <2>1. SUFFICES ASSUME NEW f \in ids'
                   PROVE  \/ Returned(log', f.kind, f.id)
                          \/ \E a \in brief.asks : a[2] = f.id /\ f.kind = TargetKind[a[1]]
      BY <1>1 DEF IdsAreReturned
    <2>2. CASE f \in ids
      <3>1. CASE Returned(log, f.kind, f.id)
        BY <1>1, <3>1, ReturnedGrows
      <3>2. QED
        BY <2>2, <3>1 DEF Grounding, IdsAreReturned
    <2>3. CASE f \notin ids
      <3>1. ok /\ f \in Fields(row)
        BY <1>1, <2>3
      <3>2. [row |-> row, ok |-> TRUE] \in log'
        BY <1>1, <3>1 DEF new
      <3>3. QED
        BY <3>1, <3>2, FieldsAreReturned
    <2>4. QED
      BY <2>2, <2>3
  <1>4. TextIsHeld'
    <2>1. SUFFICES ASSUME NEW r \in log'
                   PROVE  \E s \in spans' : /\ s.asks = r.row.text.asks
                                            /\ s.orders = r.row.text.orders
                                            /\ r.row.text.names \subseteq s.names
                                            /\ r.ok /\ r.row.shaped => r.row.id \in s.subjects
      BY DEF TextIsHeld
    <2>2. CASE r \in log
      BY <1>1, <2>2 DEF Grounding, TextIsHeld
    <2>3. CASE r = new /\ ok
      <3>1. Spans(row) \subseteq spans'
        BY <1>1, <2>3
      <3>2. QED
        BY <1>2, <2>3, <3>1, SpanOfRow
    <2>4. CASE r = new /\ ~ok
      <3>1. ErrorSpans(row) \subseteq spans'
        BY <1>1, <2>4
      <3>2. QED
        BY <1>2, <2>4, <3>1, SpanOfError
    <2>5. QED
      BY <1>1, <2>2, <2>3, <2>4
  <1>5. BudgetsAreKnown'
    <2>1. SUFFICES ASSUME ~brief.case, NEW r \in log', r.ok, r.row.key = "run_id"
                   PROVE  /\ r.row.id \in facts'.known
                          /\ r.row.budget # None => r.row.id \in facts'.budgeted
      BY <1>1 DEF BudgetsAreKnown
    <2>2. facts.known \subseteq facts'.known /\ facts.budgeted \subseteq facts'.budgeted
      <3>1. CASE ok
        BY <1>1, <3>1 DEF RecordFacts
      <3>2. CASE ~ok
        BY <1>1, <3>2 DEF RecordFacts
      <3>3. QED
        BY <3>1, <3>2
    <2>3. CASE r \in log
      BY <2>1, <2>2, <2>3 DEF Grounding, BudgetsAreKnown
    <2>4. CASE r = new
      BY <1>1, <1>2, <2>1, <2>4 DEF RecordFacts
    <2>5. QED
      BY <1>1, <2>3, <2>4
  <1>6. QED
    BY <1>3, <1>4, <1>5 DEF Grounding

\* A proposal the operator asked for grounds its target as what the action is on.
LEMMA ProposeGrounds ==
    ASSUME BriefIsKnown, Grounding, NEW p \in Proposal, Propose(p)
    PROVE  Grounding'
  <1>1. log' = log /\ spans' = spans /\ facts' = facts /\ brief' = brief /\ ids' = AskedGrounds(p)
    BY DEF Propose
  <1>2. IdsAreReturned'
    <2>1. SUFFICES ASSUME NEW f \in ids'
                   PROVE  \/ Returned(log, f.kind, f.id)
                          \/ \E a \in brief.asks : a[2] = f.id /\ f.kind = TargetKind[a[1]]
      BY <1>1 DEF IdsAreReturned
    <2>2. CASE f \in ids
      BY <2>2 DEF Grounding, IdsAreReturned
    <2>3. CASE f \notin ids
      <3>1. Asked(p.action, p.target) /\ f = [kind |-> TargetKind[p.action], id |-> p.target]
        BY <1>1, <2>3 DEF AskedGrounds
      <3>2. f.kind = TargetKind[p.action] /\ f.id = p.target
        BY <3>1
      <3> DEFINE a == <<p.action, p.target>>
      <3>3. a \in brief.asks /\ a[1] = p.action /\ a[2] = p.target
        BY <3>1 DEF Asked
      <3> HIDE DEF a
      <3>4. QED
        BY <3>2, <3>3
    <2>4. QED
      BY <2>2, <2>3
  <1>3. TextIsHeld' /\ BudgetsAreKnown'
    BY <1>1 DEF Grounding, TextIsHeld, BudgetsAreKnown
  <1>4. QED
    BY <1>2, <1>3 DEF Grounding

-----------------------------------------------------------------------------
(***************************************************************************)
(* What is delivered and what becomes a card.                              *)
(***************************************************************************)
\* A card is behind what was read when it was made: a step that adds no card breaks no card.
LEMMA CardsKeep ==
    ASSUME NoCardFromPlaneText, brief' = brief, cards' \subseteq cards
    PROVE  NoCardFromPlaneText'
  BY DEF NoCardFromPlaneText

LEMMA CardRests ==
    ASSUME BriefIsKnown, Grounding, NoCardFromPlaneText, NEW p \in Proposal, Propose(p)
    PROVE  NoCardFromPlaneText'
  <1>1. brief' = brief
    BY DEF Propose
  <1>2. CASE ~(Screen(p) /\ RationaleHolds(p))
    BY <1>1, <1>2, CardsKeep DEF Propose
  <1>3. CASE Screen(p) /\ RationaleHolds(p)
    <2> DEFINE new == [on |-> p, behind |-> log]
    <2>1. cards' = cards \cup {new} /\ new.on = p /\ new.behind = log
      BY <1>3 DEF Propose
    <2> HIDE DEF new
    <2>2. SUFFICES
            ASSUME <<p.action, p.target>> \notin brief.asks
            PROVE  /\ \A r \in log :
                        LET t == r.row.text
                        IN  ~(/\ t.asks = p.action
                              /\ \/ t.orders \/ p.target \in t.names
                                 \/ r.ok /\ r.row.shaped /\ r.row.id = p.target)
                   /\ \/ p.target = "all"
                      \/ Returned(log, TargetKind[p.action], p.target)
                      \/ \E a \in brief.asks : /\ a[2] = p.target
                                               /\ TargetKind[a[1]] = TargetKind[p.action]
      BY <1>1, <2>1 DEF NoCardFromPlaneText
    <2>3. /\ ~DemandingSpan(p.action, p.target)
          /\ \/ p.action = "rescan" /\ p.target = "all"
             \/ GroundedAs(TargetKind[p.action], p.target)
      BY <1>3, <2>2 DEF Screen, Asked
    <2>4. ASSUME NEW r \in log, r.row.text.asks = p.action
          PROVE  /\ ~r.row.text.orders /\ p.target \notin r.row.text.names
                 /\ ~(r.ok /\ r.row.shaped /\ r.row.id = p.target)
      BY <2>3, <2>4, NoDemandUnheld DEF Grounding
    <2>5. CASE GroundedAs(TargetKind[p.action], p.target)
      <3> DEFINE f == [kind |-> TargetKind[p.action], id |-> p.target]
      <3>1. f \in ids /\ f.kind = TargetKind[p.action] /\ f.id = p.target
        BY <2>5 DEF GroundedAs
      <3> HIDE DEF f
      <3>2. \/ Returned(log, TargetKind[p.action], p.target)
            \/ \E a \in brief.asks : a[2] = p.target /\ TargetKind[p.action] = TargetKind[a[1]]
        BY <3>1 DEF Grounding, IdsAreReturned
      <3>3. QED
        BY <2>4, <3>2
    <2>6. QED
      BY <2>3, <2>4, <2>5
  <1>4. QED
    BY <1>2, <1>3

\* An incident that grounds an explanation is one a tool returned: no action is on an incident.
LEMMA IncidentIsReturned ==
    ASSUME BriefIsKnown, Grounding, NEW id, GroundedAs("incident", id)
    PROVE  Returned(log, "incident", id)
  <1> DEFINE f == [kind |-> "incident", id |-> id]
  <1>1. f \in ids /\ f.kind = "incident" /\ f.id = id
    BY DEF GroundedAs
  <1> HIDE DEF f
  <1>2. ASSUME NEW a \in brief.asks
        PROVE  TargetKind[a[1]] # "incident"
    BY BriefShape DEF TargetKind, Action
  <1>3. QED
    BY <1>1, <1>2 DEF Grounding, IdsAreReturned

LEMMA DeliveredIsGrounded ==
    ASSUME BriefIsKnown, Grounding, NoCardFromPlaneText, NEW draft \in Drafts, Draft(draft),
           Deliver(draft)
    PROVE  NothingUngrounded'
  <1>1. /\ brief' = brief /\ log' = log /\ answer'.text = Finished(draft)
        /\ answer'.chainless = Chainless(draft) /\ answer'.noted = Claims(draft)
    BY DEF Draft, Deliver, Notes
  <1>2. ASSUME NEW s \in Finished(draft)
        PROVE  s \in draft /\ ~Unsupported(s)
    BY DEF Finished, References
  <1>3. ASSUME NEW s \in Finished(draft), s.id # None, ~s.absent, ~s.reported
        PROVE  Returned(log, None, s.id) \/ OperatorNamed(s.id)
    <2>1. PICK f \in ids : f.id = s.id
      BY <1>2, <1>3 DEF Unsupported, UnsupportedReference, Grounded
    <2>2. \/ Returned(log, f.kind, s.id)
          \/ \E a \in brief.asks : a[2] = s.id
      BY <2>1 DEF Grounding, IdsAreReturned
    <2>3. QED
      BY <2>2, ReturnedAsAny DEF OperatorNamed
  <1>4. NothingInvented'
    BY <1>1, <1>3 DEF NothingInvented, Told, OperatorNamed, Returned
  <1>5. ASSUME brief.incident # None, ~Returned(log, "incident", brief.incident)
        PROVE  Chainless(draft) /\ cards' = {}
    <2>1. NoIncident
      BY <1>5, IncidentIsReturned DEF NoIncident
    <2>2. QED
      BY <2>1 DEF Deliver, Chainless
  <1>6. ASSUME brief.incident # None, ~Chainless(draft)
        PROVE  Finished(draft) = draft
    BY <1>6 DEF Finished, Chainless
  <1>7. ExplanationRests'
    BY <1>1, <1>5, <1>6 DEF ExplanationRests, Returned
  <1>8. NoCardFromPlaneText'
    <2>1. cards' \subseteq cards
      BY DEF Deliver
    <2>2. QED
      BY <1>1, <2>1, CardsKeep
  <1>9. ContradictedClaimsAreNoted'
    <2>1. SUFFICES ASSUME NEW s \in Finished(draft), s.claims = "unbudgeted", ~brief.case,
                          NEW r \in log, r.ok, r.row.key = "run_id", r.row.id = s.id,
                          r.row.budget # None
                   PROVE  s \in Claims(draft)
      BY <1>1 DEF ContradictedClaimsAreNoted, Told
    <2>2. s.id \in facts.known /\ s.id \in facts.budgeted
      BY <2>1 DEF Grounding, BudgetsAreKnown
    <2>3. UnsupportedClaim(s)
      BY <2>1, <2>2 DEF UnsupportedClaim, None
    <2>4. QED
      BY <1>2, <2>1, <2>3 DEF Claims
  <1>10. QED
    BY <1>4, <1>7, <1>8, <1>9 DEF NothingUngrounded

\* A step that delivers nothing and adds no card leaves the answer as good as it was.
LEMMA NotDelivered ==
    ASSUME NoCardFromPlaneText, brief' = brief, cards' \subseteq cards, phase' # "done"
    PROVE  NothingUngrounded'
  <1>1. NoCardFromPlaneText'
    BY CardsKeep
  <1>2. QED
    BY <1>1 DEF NothingUngrounded, NothingInvented, ExplanationRests, ContradictedClaimsAreNoted,
                Delivered

LEMMA GroundingKeeps ==
    ASSUME Grounding, UNCHANGED <<brief, ids, spans, facts, log>>
    PROVE  Grounding'
  BY DEF Grounding, IdsAreReturned, TextIsHeld, BudgetsAreKnown, Returned

LEMMA BriefKeeps ==
    ASSUME BriefIsKnown, [FelyxNext]_felyxVars
    PROVE  BriefIsKnown' /\ brief' = brief
  BY DEF BriefIsKnown, FelyxNext, felyxVars, ProviderFails, IterationLimit, CallTools, Read,
         Propose, EndCalls, Draft

LEMMA FelyxStep ==
    ASSUME FelyxInv, [FelyxNext]_felyxVars
    PROVE  FelyxInv'
  <1>1. BriefIsKnown /\ Grounding /\ NothingUngrounded /\ NoCardFromPlaneText
    BY DEF FelyxInv, NothingUngrounded
  <1>2. BriefIsKnown' /\ brief' = brief
    BY <1>1, BriefKeeps
  <1>3. CASE ProviderFails \/ IterationLimit \/ CallTools \/ EndCalls
    <2>1. UNCHANGED <<brief, ids, spans, facts, log>> /\ cards' = cards /\ phase' # "done"
      BY <1>3 DEF ProviderFails, IterationLimit, CallTools, EndCalls
    <2>2. QED
      BY <1>1, <1>2, <2>1, GroundingKeeps, NotDelivered DEF FelyxInv
  <1>4. ASSUME NEW row \in Row, NEW ok \in BOOLEAN, Read(row, ok)
        PROVE  FelyxInv'
    <2>1. phase' # "done" /\ cards' = cards
      BY <1>4 DEF Read, NextCall
    <2>2. QED
      BY <1>1, <1>2, <1>4, <2>1, ReadGrounds, NotDelivered DEF FelyxInv
  <1>5. ASSUME NEW p \in Proposal, Propose(p)
        PROVE  FelyxInv'
    <2>1. phase' # "done"
      BY <1>5 DEF Propose, NextCall
    <2>2. Grounding' /\ NoCardFromPlaneText'
      BY <1>1, <1>5, ProposeGrounds, CardRests
    <2>3. NothingUngrounded'
      BY <2>1, <2>2 DEF NothingUngrounded, NothingInvented, ExplanationRests,
                        ContradictedClaimsAreNoted, Delivered
    <2>4. QED
      BY <1>2, <2>2, <2>3 DEF FelyxInv
  <1>6. ASSUME NEW draft \in Drafts, Draft(draft)
        PROVE  FelyxInv'
    <2>1. Grounding'
      BY <1>1, <1>6, GroundingKeeps DEF Draft
    <2>2. CASE Deliver(draft)
      BY <1>1, <1>2, <1>6, <2>1, <2>2, DeliveredIsGrounded DEF FelyxInv
    <2>3. CASE ~Deliver(draft)
      <3>1. phase' # "done" /\ cards' = cards
        BY <1>6, <2>3 DEF Draft, MayChat
      <3>2. QED
        BY <1>1, <1>2, <2>1, <3>1, NotDelivered DEF FelyxInv
    <2>4. QED
      BY <2>2, <2>3
  <1>7. CASE UNCHANGED felyxVars
    <2>1. UNCHANGED <<brief, ids, spans, facts, log>> /\ UNCHANGED <<cards, phase, answer>>
      BY <1>7 DEF felyxVars
    <2>2. NothingUngrounded'
      BY <1>1, <2>1 DEF NothingUngrounded, NothingInvented, ExplanationRests, NoCardFromPlaneText,
                        ContradictedClaimsAreNoted, Delivered, Told, Returned, OperatorNamed
    <2>3. QED
      BY <1>1, <1>2, <2>1, <2>2, GroundingKeeps DEF FelyxInv
  <1>8. QED
    BY <1>3, <1>4, <1>5, <1>6, <1>7 DEF FelyxNext

LEMMA FelyxStarts ==
    ASSUME FelyxInit
    PROVE  FelyxInv
  <1>1. BriefIsKnown /\ Grounding
    BY FileGrounds
  <1>2. cards = {} /\ phase = "chat"
    BY DEF FelyxInit
  <1>3. NothingUngrounded
    BY <1>2 DEF NothingUngrounded, NothingInvented, ExplanationRests, NoCardFromPlaneText,
                ContradictedClaimsAreNoted, Delivered
  <1>4. QED
    BY <1>1, <1>3 DEF FelyxInv

\* A delivered answer and its cards rest on what the tools of this answer returned, for any
\* rows, drafts and proposals the provider comes with (agent.rs: run; references.rs;
\* grounding.rs).
THEOREM NothingUngroundedHolds == FelyxSpec => []NothingUngrounded
  <1>1. FelyxInit => FelyxInv
    BY FelyxStarts
  <1>2. FelyxInv /\ [FelyxNext]_felyxVars => FelyxInv'
    BY FelyxStep
  <1>3. FelyxInv => NothingUngrounded
    BY DEF FelyxInv
  <1>4. QED
    BY <1>1, <1>2, <1>3, PTL DEF FelyxSpec

-----------------------------------------------------------------------------
(***************************************************************************)
(* CaseSeal: what a request to seal holds.                                 *)
(***************************************************************************)
SourceAnswer == Standing \cup {"unasked"}
CaseText == [lines : [Section -> {"not_asked", "answered", "empty", "unavailable"}],
             notes : SUBSET Section, alerts : {0, 1}, said : [Source -> SourceAnswer]]
Pack == [case : CaseText, proofs : {"none", "proof", "error", "altered"}, at : Nat]
Stage == {"idle", "refused", "no_case", "asking", "proved", "storing", "not_journaled",
          "unsealed", "placed", "sealed", "lost"}
Request == [phase : Stage, out : SUBSET Source, said : [Source -> SourceAnswer], pack : Pack,
            stored : BOOLEAN]

CaseTypeOK ==
    /\ incident.filedUnder = "key" => incident.class = "identity"
    /\ standing \in [Source -> Standing]
    /\ sealing \in [Sealing -> Request]
    /\ packs \in [DOMAIN packs -> Pack]
    /\ second \in Nat

\* A pack on its way to the shelf has its line in the chain.
OnTheWayHasLine ==
    \A j \in Sealing : sealing[j].phase \in {"storing", "placed"} => sealing[j].pack \in chained

\* The case in a pack is what its sources said when they were asked.
PackIsTheCase ==
    \A j \in Sealing : sealing[j].phase \in {"proved", "storing", "placed", "sealed"} =>
        sealing[j].pack.case = Case(sealing[j].said)

\* Only a request that ended with its file in place says the file is stored.
StoredIsSealed ==
    \A j \in Sealing : sealing[j].stored =>
        sealing[j].phase = "sealed" /\ sealing[j].pack \in DOMAIN packs

\* Nobody is asked about the agent a refused identity claimed, now or later.
ClaimedIsNotAsked ==
    incident.filedUnder = "key" =>
        /\ \A j \in Sealing : /\ {"identities", "alerts"} \cap sealing[j].out = {}
                              /\ sealing[j].said["identities"] = "unasked"
                              /\ sealing[j].said["alerts"] = "unasked"
        /\ \A a \in advised : ~a.fits

Shelved == FileHasLine /\ HandedBackIsSealed

CaseInv ==
    /\ CaseTypeOK
    /\ OnTheWayHasLine
    /\ PackIsTheCase
    /\ StoredIsSealed
    /\ ClaimedIsNotAsked
    /\ Shelved

-----------------------------------------------------------------------------
(***************************************************************************)
(* What one request's step must show for the invariant.                    *)
(***************************************************************************)
Whole == {"proved", "storing", "placed", "sealed"}

\* A case is made of what was said and of what the incident does not ask.
LEMMA CaseKeeps ==
    ASSUME incident' = incident, NEW x
    PROVE  Case(x)' = Case(x)
  BY DEF Case, Line, NotAsked, Note, AlertCount

LEMMA CaseTyping ==
    ASSUME NEW said \in [Source -> SourceAnswer]
    PROVE  Case(said) \in CaseText /\ Case(said).said = said
                                   /\ Case(said).lines = [s \in Section |-> Line(s, said)]
  <1>1. [s \in Section |-> Line(s, said)]
          \in [Section -> {"not_asked", "answered", "empty", "unavailable"}]
    <2>1. ASSUME NEW s \in Section
          PROVE  Line(s, said) \in {"not_asked", "answered", "empty", "unavailable"}
      BY DEF Line
    <2>2. QED
      BY <2>1
  <1>2. Note(said) \in SUBSET Section
    BY DEF Note, Section
  <1>3. AlertCount(said) \in {0, 1}
    BY DEF AlertCount
  <1>4. QED
    BY <1>1, <1>2, <1>3 DEF Case, CaseText

LEMMA RequestFields ==
    ASSUME CaseTypeOK, NEW j \in Sealing
    PROVE  /\ sealing[j] \in Request
           /\ sealing[j].phase \in Stage /\ sealing[j].out \subseteq Source
           /\ sealing[j].said \in [Source -> SourceAnswer]
           /\ sealing[j].pack \in Pack /\ sealing[j].stored \in BOOLEAN
  BY DEF CaseTypeOK, Request

\* One request turns into r while the shelf only grows.
LEMMA RequestMoves ==
    ASSUME CaseInv, NEW j \in Sealing, NEW r \in Request, sealing' = [sealing EXCEPT ![j] = r],
           incident' = incident, advised' = advised, standing' = standing, second' = second,
           packs' \in [DOMAIN packs' -> Pack], chained \subseteq chained',
           DOMAIN packs \subseteq DOMAIN packs', Shelved',
           r.phase \in {"storing", "placed"} => r.pack \in chained',
           r.phase \in Whole => r.pack.case = Case(r.said),
           r.stored => r.phase = "sealed" /\ r.pack \in DOMAIN packs',
           incident.filedUnder = "key" => /\ {"identities", "alerts"} \cap r.out = {}
                                          /\ r.said["identities"] = "unasked"
                                          /\ r.said["alerts"] = "unasked"
    PROVE  CaseInv'
  <1>1. sealing \in [Sealing -> Request]
    BY DEF CaseInv, CaseTypeOK
  <1>2. \A k \in Sealing : sealing'[k] = IF k = j THEN r ELSE sealing[k]
    BY <1>1
  <1>3. CaseTypeOK'
    BY <1>1 DEF CaseInv, CaseTypeOK
  <1>4. OnTheWayHasLine'
    BY <1>2 DEF CaseInv, OnTheWayHasLine
  <1>5. PackIsTheCase'
    <2>1. ASSUME NEW k \in Sealing, sealing'[k].phase \in Whole
          PROVE  sealing'[k].pack.case = Case(sealing'[k].said)
      BY <1>2, <2>1 DEF CaseInv, PackIsTheCase, Whole
    <2>2. ASSUME NEW k \in Sealing
          PROVE  Case(sealing[k].said)' = Case(sealing'[k].said)
      BY DEF Case, Line, NotAsked, Note, AlertCount
    <2>3. QED
      BY <2>1, <2>2 DEF PackIsTheCase, Whole
  <1>6. StoredIsSealed'
    BY <1>2 DEF CaseInv, StoredIsSealed
  <1>7. ClaimedIsNotAsked'
    BY <1>2 DEF CaseInv, ClaimedIsNotAsked
  <1>8. QED
    BY <1>3, <1>4, <1>5, <1>6, <1>7 DEF CaseInv

-----------------------------------------------------------------------------
(***************************************************************************)
(* The steps of one request.                                               *)
(***************************************************************************)
LEMMA ShelfKeeps ==
    ASSUME Shelved, UNCHANGED <<chained, packs, handed>>
    PROVE  Shelved'
  BY DEF Shelved, FileHasLine, HandedBackIsSealed

LEMMA BeginKeeps ==
    ASSUME CaseInv, NEW j \in Sealing, NEW w \in BOOLEAN, Begin(j, w)
    PROVE  CaseInv'
  <1> DEFINE s == sealing[j]
             begun == [s EXCEPT !.phase = "asking", !.out = FirstQuestions,
                               !.said = StoreSections(s.said), !.pack.at = second]
             r == IF ~w THEN [s EXCEPT !.phase = "refused"]
                  ELSE IF ~Readable THEN [s EXCEPT !.phase = "no_case"] ELSE begun
  <1>1. s \in Request /\ s.pack \in Pack /\ s.phase = "idle" /\ CaseTypeOK
    BY RequestFields DEF CaseInv, Begin
  <1>2. sealing' = [sealing EXCEPT ![j] = r] /\ UNCHANGED <<world, shelf>>
    BY <1>1 DEF Begin, CaseTypeOK
  <1>3. ~s.stored
    BY <1>1 DEF CaseInv, StoredIsSealed
  <1>4. begun \in Request /\ begun.phase = "asking" /\ begun.out = FirstQuestions
        /\ begun.said = StoreSections(s.said) /\ begun.stored = s.stored
    <2>1. StoreSections(s.said) \in [Source -> SourceAnswer]
      BY <1>1 DEF StoreSections, CaseTypeOK, Request, SourceAnswer, Source, StoreRead
    <2>2. FirstQuestions \subseteq Source
      BY DEF FirstQuestions, Source, StoreRead
    <2>3. [s.pack EXCEPT !.at = second] \in Pack
      BY <1>1 DEF Pack, CaseTypeOK
    <2> DEFINE p == [s.pack EXCEPT !.at = second]
    <2>4. begun = [s EXCEPT !.phase = "asking", !.out = FirstQuestions,
                           !.said = StoreSections(s.said), !.pack = p]
      BY <1>1 DEF Request
    <2> HIDE DEF p
    <2>5. QED
      BY <1>1, <2>1, <2>2, <2>3, <2>4 DEF Request, Stage, StoreSections, p
  <1>5. r \in Request /\ r.phase \in {"refused", "no_case", "asking"} /\ r.stored = s.stored
    <2>1. CASE ~w
      BY <1>1, <2>1 DEF Request, Stage
    <2>2. CASE w /\ ~Readable
      BY <1>1, <2>2 DEF Request, Stage
    <2>3. CASE w /\ Readable
      BY <1>4, <2>3
    <2>4. QED
      BY <2>1, <2>2, <2>3
  <1>6. ASSUME incident.filedUnder = "key"
        PROVE  /\ {"identities", "alerts"} \cap r.out = {}
               /\ r.said["identities"] = "unasked" /\ r.said["alerts"] = "unasked"
    <2>1. /\ {"identities", "alerts"} \cap s.out = {}
          /\ s.said["identities"] = "unasked" /\ s.said["alerts"] = "unasked"
      BY <1>6 DEF CaseInv, ClaimedIsNotAsked
    <2>2. CASE ~w
      BY <1>1, <2>1, <2>2 DEF Request
    <2>3. CASE w /\ ~Readable
      BY <1>1, <2>1, <2>3 DEF Request
    <2>4. CASE w /\ Readable
      <3>1. {"identities", "alerts"} \cap FirstQuestions = {}
        BY <1>6 DEF FirstQuestions, NotAsked
      <3>2. begun.said["identities"] = "unasked" /\ begun.said["alerts"] = "unasked"
        <4>1. /\ StoreSections(s.said)["identities"] = s.said["identities"]
              /\ StoreSections(s.said)["alerts"] = s.said["alerts"]
          BY DEF StoreSections, Source, StoreRead
        <4> HIDE DEF begun, s
        <4>2. QED
          BY <1>4, <2>1, <4>1
      <3>3. QED
        BY <1>4, <2>4, <3>1, <3>2
    <2>5. QED
      BY <2>2, <2>3, <2>4
  <1> HIDE DEF r, begun, s
  <1>7. UNCHANGED <<incident, standing, chained, packs, handed, advised, second>>
    BY <1>2 DEF world, shelf
  <1>8. Shelved' /\ packs' \in [DOMAIN packs' -> Pack]
    BY <1>1, <1>7, ShelfKeeps DEF CaseInv, CaseTypeOK
  <1>9. QED
    BY <1>2, <1>3, <1>5, <1>6, <1>7, <1>8, RequestMoves DEF Whole

LEMMA AnswerKeeps ==
    ASSUME CaseInv, NEW j \in Sealing, NEW q \in Source, Answer(j, q)
    PROVE  CaseInv'
  <1> DEFINE s == sealing[j]
             more == IF q = "identities" /\ standing[q] = "rows" THEN {"alerts"} ELSE {}
             r == [s EXCEPT !.said[q] = standing[q], !.out = (s.out \ {q}) \cup more]
  <1>1. s \in Request /\ s.phase = "asking" /\ q \in s.out /\ CaseTypeOK
    BY RequestFields DEF CaseInv, Answer
  <1>2. sealing' = [sealing EXCEPT ![j] = r] /\ UNCHANGED <<world, shelf>>
    BY <1>1 DEF Answer, CaseTypeOK
  <1>3. ~s.stored
    BY <1>1 DEF CaseInv, StoredIsSealed
  <1>4. r \in Request /\ r.phase = "asking" /\ r.stored = s.stored
        /\ r.said = [s.said EXCEPT ![q] = standing[q]] /\ r.out = (s.out \ {q}) \cup more
    <2>1. [s.said EXCEPT ![q] = standing[q]] \in [Source -> SourceAnswer]
      BY <1>1 DEF CaseTypeOK, Request, SourceAnswer
    <2>2. (s.out \ {q}) \cup more \subseteq Source
      BY <1>1 DEF Request, Source, StoreRead
    <2>3. QED
      BY <1>1, <2>1, <2>2 DEF Request, Stage
  <1>5. ASSUME incident.filedUnder = "key"
        PROVE  /\ {"identities", "alerts"} \cap r.out = {}
               /\ r.said["identities"] = "unasked" /\ r.said["alerts"] = "unasked"
    <2>1. /\ {"identities", "alerts"} \cap s.out = {}
          /\ s.said["identities"] = "unasked" /\ s.said["alerts"] = "unasked"
      BY <1>5 DEF CaseInv, ClaimedIsNotAsked
    <2>2. q \notin {"identities", "alerts"}
      BY <1>1, <2>1
    <2>3. QED
      BY <1>1, <1>4, <2>1, <2>2 DEF Request, Source, StoreRead
  <1> HIDE DEF r, s
  <1>6. UNCHANGED <<incident, standing, chained, packs, handed, advised, second>>
    BY <1>2 DEF world, shelf
  <1>7. Shelved' /\ packs' \in [DOMAIN packs' -> Pack]
    BY <1>1, <1>6, ShelfKeeps DEF CaseInv, CaseTypeOK
  <1>8. QED
    BY <1>2, <1>3, <1>4, <1>5, <1>6, <1>7, RequestMoves DEF Whole

LEMMA ProveKeeps ==
    ASSUME CaseInv, NEW j \in Sealing, NEW result \in {"proof", "error"}, Prove(j, result)
    PROVE  CaseInv'
  <1> DEFINE s == sealing[j]
             p == [s.pack EXCEPT !.case = Case(s.said), !.proofs = result]
             r == [s EXCEPT !.phase = "proved", !.pack = p]
  <1>1. s \in Request /\ s.pack \in Pack /\ s.said \in [Source -> SourceAnswer]
        /\ s.phase = "asking" /\ CaseTypeOK
    BY RequestFields DEF CaseInv, Prove
  <1>2. p \in Pack /\ p.case = Case(s.said)
    BY <1>1, CaseTyping DEF Pack
  <1>3. [s EXCEPT !.phase = "proved", !.pack.case = Case(s.said), !.pack.proofs = result] = r
    BY <1>1 DEF Request, Pack
  <1>4. sealing' = [sealing EXCEPT ![j] = r] /\ UNCHANGED <<world, shelf>>
    BY <1>1, <1>3 DEF Prove, CaseTypeOK
  <1>5. ~s.stored
    BY <1>1 DEF CaseInv, StoredIsSealed
  <1> HIDE DEF p
  <1>6. r \in Request /\ r.phase = "proved" /\ r.stored = s.stored /\ r.said = s.said
        /\ r.out = s.out /\ r.pack.case = Case(s.said)
    BY <1>1, <1>2 DEF Request, Stage
  <1>7. incident.filedUnder = "key" =>
          /\ {"identities", "alerts"} \cap s.out = {}
          /\ s.said["identities"] = "unasked" /\ s.said["alerts"] = "unasked"
    BY DEF CaseInv, ClaimedIsNotAsked
  <1> HIDE DEF r, s
  <1>8. UNCHANGED <<incident, standing, chained, packs, handed, advised, second>>
    BY <1>4 DEF world, shelf
  <1>9. Shelved' /\ packs' \in [DOMAIN packs' -> Pack]
    BY <1>1, <1>8, ShelfKeeps DEF CaseInv, CaseTypeOK
  <1>10. QED
    BY <1>4, <1>5, <1>6, <1>7, <1>8, <1>9, RequestMoves DEF Whole

LEMMA JournalKeeps ==
    ASSUME CaseInv, NEW j \in Sealing, NEW canonical \in BOOLEAN, Journal(j, canonical)
    PROVE  CaseInv'
  <1>1. sealing[j] \in Request /\ sealing[j].pack \in Pack /\ sealing[j].phase = "proved"
        /\ CaseTypeOK
    BY RequestFields DEF CaseInv, Journal
  <1>2. PICK p \in {"unsealed", "storing", "not_journaled"} :
          /\ sealing' = [sealing EXCEPT ![j] = [sealing[j] EXCEPT !.phase = p]]
          /\ p = "storing" => chained' = chained \cup {sealing[j].pack}
          /\ chained \subseteq chained'
    <2>1. CASE ~canonical
      BY <1>1, <2>1 DEF Journal, CaseTypeOK
    <2>2. CASE canonical
      <3>1. PICK p \in Journaled : sealing' = [sealing EXCEPT ![j].phase = p]
        BY <2>2 DEF Journal
      <3>2. IF journal THEN p = "storing" ELSE p = "not_journaled"
        BY <3>1 DEF Journaled
      <3>3. chained' = IF journal THEN chained \cup {sealing[j].pack} ELSE chained
        BY <2>2 DEF Journal
      <3>4. QED
        BY <1>1, <3>1, <3>2, <3>3 DEF CaseTypeOK
    <2>3. QED
      BY <2>1, <2>2
  <1>3. ~sealing[j].stored
    BY <1>1 DEF CaseInv, StoredIsSealed
  <1>4. sealing[j].pack.case = Case(sealing[j].said)
    BY <1>1 DEF CaseInv, PackIsTheCase
  <1>5. incident.filedUnder = "key" =>
          /\ {"identities", "alerts"} \cap sealing[j].out = {}
          /\ sealing[j].said["identities"] = "unasked" /\ sealing[j].said["alerts"] = "unasked"
    BY DEF CaseInv, ClaimedIsNotAsked
  <1>6. UNCHANGED <<incident, standing, packs, handed, advised, second>>
    BY DEF world, Journal
  <1>7. Shelved' /\ packs' \in [DOMAIN packs' -> Pack]
    BY <1>1, <1>2, <1>6 DEF CaseInv, CaseTypeOK, Shelved, FileHasLine, HandedBackIsSealed
  <1> DEFINE s == sealing[j]
             r == [s EXCEPT !.phase = p]
  <1>8. r \in Request /\ r.phase = p /\ r.stored = s.stored /\ r.said = s.said /\ r.out = s.out
        /\ r.pack = s.pack
    BY <1>1, <1>2 DEF Request, Stage
  <1> HIDE DEF r
  <1>9. sealing' = [sealing EXCEPT ![j] = r]
    BY <1>2 DEF r
  <1>10. r.phase \in {"storing", "placed"} => r.pack \in chained'
    BY <1>1, <1>2, <1>8
  <1>11. r.phase \in Whole => r.pack.case = Case(r.said)
    BY <1>4, <1>8
  <1>12. /\ ~r.stored
         /\ incident.filedUnder = "key" =>
              /\ {"identities", "alerts"} \cap r.out = {}
              /\ r.said["identities"] = "unasked" /\ r.said["alerts"] = "unasked"
    BY <1>3, <1>5, <1>8
  <1>13. chained \subseteq chained' /\ DOMAIN packs \subseteq DOMAIN packs'
    BY <1>2, <1>6
  <1>14. QED
    BY <1>6, <1>7, <1>8, <1>9, <1>10, <1>11, <1>12, <1>13, RequestMoves

\* A request ends, with its file in place or not.
LEMMA FinishKeeps ==
    ASSUME CaseInv, NEW j \in Sealing, sealing[j].phase \in {"storing", "placed"},
           NEW stored \in BOOLEAN, Finish(j, stored),
           UNCHANGED <<world, chained, handed, advised>>, packs' \in [DOMAIN packs' -> Pack],
           DOMAIN packs \subseteq DOMAIN packs', DOMAIN packs' \subseteq chained,
           stored => sealing[j].pack \in DOMAIN packs'
    PROVE  CaseInv'
  <1> DEFINE s == sealing[j]
             r == [s EXCEPT !.phase = "sealed", !.stored = stored]
  <1>1. s \in Request /\ s.pack \in Pack /\ CaseTypeOK
    BY RequestFields DEF CaseInv
  <1>2. sealing' = [sealing EXCEPT ![j] = r]
    BY <1>1 DEF Finish, CaseTypeOK
  <1>3. r \in Request /\ r.phase = "sealed" /\ r.stored = stored /\ r.said = s.said /\ r.out = s.out
        /\ r.pack = s.pack
    BY <1>1 DEF Request, Stage
  <1>4. s.pack.case = Case(s.said)
    BY DEF CaseInv, PackIsTheCase
  <1>5. incident.filedUnder = "key" =>
          /\ {"identities", "alerts"} \cap s.out = {}
          /\ s.said["identities"] = "unasked" /\ s.said["alerts"] = "unasked"
    BY DEF CaseInv, ClaimedIsNotAsked
  <1> HIDE DEF r
  <1>6. UNCHANGED <<incident, standing, chained, handed, advised, second>>
    BY DEF world
  <1>7. Shelved'
    BY <1>6 DEF CaseInv, Shelved, FileHasLine, HandedBackIsSealed
  <1>8. QED
    BY <1>2, <1>3, <1>4, <1>5, <1>6, <1>7, RequestMoves DEF Whole

LEMMA PlaceKeeps ==
    ASSUME CaseInv, NEW j \in Sealing, Place(j)
    PROVE  CaseInv'
  <1> DEFINE d == sealing[j].pack
  <1>1. sealing[j] \in Request /\ d \in Pack /\ sealing[j].phase = "storing" /\ CaseTypeOK
    BY RequestFields DEF CaseInv, Place
  <1>2. UNCHANGED <<world, chained, packs, handed, advised>>
    BY DEF Place
  <1>3. packs' \in [DOMAIN packs' -> Pack] /\ DOMAIN packs' \subseteq chained /\ d \in chained
    BY <1>1, <1>2 DEF CaseInv, CaseTypeOK, Shelved, FileHasLine, OnTheWayHasLine
  <1>4. CASE d \in DOMAIN packs
    <2>1. Finish(j, packs[d] = d)
      BY <1>4 DEF Place
    <2>2. QED
      BY <1>1, <1>2, <1>3, <1>4, <2>1, FinishKeeps
  <1>5. CASE d \notin DOMAIN packs /\ d \in temps
    <2>1. Finish(j, FALSE)
      BY <1>5 DEF Place, ExistingTempIsStored
    <2>2. QED
      BY <1>1, <1>2, <1>3, <2>1, FinishKeeps
  <1>6. CASE d \notin DOMAIN packs /\ d \notin temps
    <2> DEFINE s == sealing[j]
               r == [s EXCEPT !.phase = "placed"]
    <2>1. sealing' = [sealing EXCEPT ![j] = r]
      BY <1>1, <1>6 DEF Place, CaseTypeOK
    <2>2. r \in Request /\ r.phase = "placed" /\ r.stored = s.stored /\ r.said = s.said
          /\ r.out = s.out /\ r.pack = s.pack
      BY <1>1 DEF Request, Stage
    <2>3. ~s.stored /\ s.pack.case = Case(s.said)
      BY <1>1 DEF CaseInv, StoredIsSealed, PackIsTheCase
    <2>4. incident.filedUnder = "key" =>
            /\ {"identities", "alerts"} \cap s.out = {}
            /\ s.said["identities"] = "unasked" /\ s.said["alerts"] = "unasked"
      BY DEF CaseInv, ClaimedIsNotAsked
    <2> HIDE DEF r
    <2>5. UNCHANGED <<incident, standing, chained, packs, handed, advised, second>>
      BY <1>2 DEF world
    <2>6. Shelved'
      BY <2>5, ShelfKeeps DEF CaseInv
    <2>7. QED
      BY <1>3, <2>1, <2>2, <2>3, <2>4, <2>5, <2>6, RequestMoves DEF Whole
  <1>7. QED
    BY <1>4, <1>5, <1>6

LEMMA RenameKeeps ==
    ASSUME CaseInv, NEW j \in Sealing, NEW ok \in BOOLEAN, Rename(j, ok)
    PROVE  CaseInv'
  <1> DEFINE d == sealing[j].pack
  <1>1. sealing[j] \in Request /\ d \in Pack /\ sealing[j].phase = "placed" /\ CaseTypeOK
    BY RequestFields DEF CaseInv, Rename
  <1>2. UNCHANGED <<world, chained, handed, advised>> /\ Finish(j, ok)
        /\ packs' = IF ok THEN [k \in DOMAIN packs \cup {d} |-> IF k = d THEN d ELSE packs[k]]
                    ELSE packs
    BY DEF Rename
  <1>3. DOMAIN packs \subseteq chained /\ d \in chained
    BY <1>1 DEF CaseInv, Shelved, FileHasLine, OnTheWayHasLine
  <1>4. packs' \in [DOMAIN packs' -> Pack] /\ DOMAIN packs \subseteq DOMAIN packs'
        /\ DOMAIN packs' \subseteq chained /\ (ok => d \in DOMAIN packs')
    BY <1>1, <1>2, <1>3 DEF CaseTypeOK
  <1>5. QED
    BY <1>1, <1>2, <1>4, FinishKeeps

-----------------------------------------------------------------------------
(***************************************************************************)
(* The world's steps, and the theorem.                                     *)
(***************************************************************************)
\* The requests and the shelf stand still.
LEMMA RequestsStand ==
    ASSUME CaseInv, UNCHANGED <<incident, sealing, chained, DOMAIN packs, handed>>,
           standing' \in [Source -> Standing], second' \in Nat, packs' \in [DOMAIN packs' -> Pack],
           incident.filedUnder = "key" => \A a \in advised' : ~a.fits
    PROVE  CaseInv'
  <1>1. CaseTypeOK'
    BY DEF CaseInv, CaseTypeOK
  <1>2. OnTheWayHasLine' /\ StoredIsSealed' /\ ClaimedIsNotAsked' /\ Shelved'
    BY DEF CaseInv, OnTheWayHasLine, StoredIsSealed, ClaimedIsNotAsked, Shelved, FileHasLine,
           HandedBackIsSealed
  <1>3. PackIsTheCase'
    <2>1. ASSUME NEW k \in Sealing
          PROVE  Case(sealing[k].said)' = Case(sealing[k].said)
      BY DEF Case, Line, NotAsked, Note, AlertCount
    <2>2. QED
      BY <2>1 DEF CaseInv, PackIsTheCase
  <1>4. QED
    BY <1>1, <1>2, <1>3 DEF CaseInv

LEMMA ReadBackKeeps ==
    ASSUME CaseInv, NEW d \in DOMAIN packs, ReadBack(d)
    PROVE  CaseInv'
  <1> DEFINE h == <<d, packs[d]>>
  <1>1. d \in chained /\ packs[d] = d /\ handed' = handed \cup {h}
    BY DEF ReadBack, Verify, CaseInv, Shelved, FileHasLine
  <1>2. h[1] = d /\ h[2] = d
    BY <1>1
  <1> HIDE DEF h
  <1>3. UNCHANGED <<incident, standing, sealing, chained, packs, advised, second>>
    BY DEF ReadBack, world
  <1>4. CaseTypeOK'
    BY <1>3 DEF CaseInv, CaseTypeOK
  <1>5. OnTheWayHasLine' /\ StoredIsSealed' /\ ClaimedIsNotAsked'
    BY <1>3 DEF CaseInv, OnTheWayHasLine, StoredIsSealed, ClaimedIsNotAsked
  <1>6. Shelved'
    BY <1>1, <1>2, <1>3 DEF CaseInv, Shelved, FileHasLine, HandedBackIsSealed
  <1>7. PackIsTheCase'
    <2>1. ASSUME NEW k \in Sealing
          PROVE  Case(sealing[k].said)' = Case(sealing[k].said)
      BY <1>3 DEF Case, Line, NotAsked, Note, AlertCount
    <2>2. QED
      BY <1>3, <2>1 DEF CaseInv, PackIsTheCase
  <1>8. QED
    BY <1>4, <1>5, <1>6, <1>7 DEF CaseInv

LEMMA AlterKeeps ==
    ASSUME CaseInv, NEW d \in DOMAIN packs, Alter(d)
    PROVE  CaseInv'
  <1> DEFINE altered == [packs[d] EXCEPT !.proofs = "altered"]
  <1>1. packs \in [DOMAIN packs -> Pack] /\ packs' = [packs EXCEPT ![d] = altered]
    BY DEF Alter, CaseInv, CaseTypeOK
  <1>2. altered \in Pack
    BY <1>1 DEF Pack
  <1> HIDE DEF altered
  <1>3. packs' \in [DOMAIN packs' -> Pack] /\ DOMAIN packs' = DOMAIN packs
    BY <1>1, <1>2
  <1>4. UNCHANGED <<incident, standing, sealing, chained, handed, advised, second>>
    BY DEF Alter
  <1>5. QED
    BY <1>3, <1>4, RequestsStand DEF CaseInv, CaseTypeOK, ClaimedIsNotAsked

\* No act is offered on an incident filed under a key: its class is identity.
LEMMA AdviseKeeps ==
    ASSUME CaseInv, NEW r \in Remedy, NEW proved \in BOOLEAN, Advise(r, proved)
    PROVE  CaseInv'
  <1> DEFINE proof == IF r \in {"stop_agent", "revoke_delegation"} THEN "unproven"
                      ELSE IF proved THEN "proved" ELSE "failed"
             a == [remedy |-> r, fits |-> r \in Offered(incident.class), proof |-> proof]
  <1>1. advised' = {a} /\ UNCHANGED <<world, sealing, chained, packs, handed>>
    BY DEF Advise
  <1>2. a.fits = (r \in Offered(incident.class))
    BY DEF a
  <1> HIDE DEF a
  <1>3. ASSUME incident.filedUnder = "key"
        PROVE  Offered(incident.class) = {}
    BY <1>3 DEF CaseInv, CaseTypeOK, Offered
  <1>4. UNCHANGED <<incident, standing, second>>
    BY <1>1 DEF world
  <1>5. QED
    BY <1>1, <1>2, <1>3, <1>4, RequestsStand DEF CaseInv, CaseTypeOK

\* The requests in flight are gone; what they wrote is not.
LEMMA DieKeeps ==
    ASSUME CaseInv, Die
    PROVE  CaseInv'
  <1> DEFINE r(j) == IF sealing[j].phase \in {"asking", "proved", "storing", "placed"}
                     THEN [sealing[j] EXCEPT !.phase = "lost"] ELSE sealing[j]
  <1>1. sealing' = [j \in Sealing |-> r(j)] /\ UNCHANGED <<incident, standing, shelf, second>>
    BY DEF Die
  <1>2. ASSUME NEW j \in Sealing
        PROVE  /\ r(j) \in Request /\ r(j).stored = sealing[j].stored
               /\ r(j).said = sealing[j].said /\ r(j).out = sealing[j].out
               /\ r(j).pack = sealing[j].pack
               /\ r(j).phase \in {"lost", sealing[j].phase} \ {"asking", "proved", "storing", "placed"}
               /\ sealing[j].phase = "sealed" => r(j).phase = "sealed"
    <2>1. sealing[j] \in Request
      BY RequestFields DEF CaseInv
    <2>2. CASE sealing[j].phase \in {"asking", "proved", "storing", "placed"}
      BY <2>1, <2>2 DEF Request, Stage
    <2>3. CASE sealing[j].phase \notin {"asking", "proved", "storing", "placed"}
      BY <2>1, <2>3 DEF Request, Stage
    <2>4. QED
      BY <2>2, <2>3
  <1> HIDE DEF r
  <1>3. UNCHANGED <<chained, packs, handed, advised>>
    BY <1>1 DEF shelf
  <1>4. CaseTypeOK'
    BY <1>1, <1>2, <1>3 DEF CaseInv, CaseTypeOK
  <1>5. Shelved'
    BY <1>3, ShelfKeeps DEF CaseInv
  <1>6. OnTheWayHasLine'
    BY <1>1, <1>2 DEF OnTheWayHasLine
  <1>7. StoredIsSealed'
    BY <1>1, <1>2, <1>3 DEF CaseInv, StoredIsSealed
  <1>8. ClaimedIsNotAsked'
    BY <1>1, <1>2, <1>3 DEF CaseInv, ClaimedIsNotAsked
  <1>9. PackIsTheCase'
    <2>1. ASSUME NEW j \in Sealing, sealing'[j].phase \in Whole
          PROVE  sealing'[j].pack.case = Case(sealing'[j].said)
      BY <1>1, <1>2, <2>1 DEF CaseInv, PackIsTheCase, Whole
    <2>2. ASSUME NEW j \in Sealing
          PROVE  Case(sealing[j].said)' = Case(sealing'[j].said)
      BY <1>1 DEF Case, Line, NotAsked, Note, AlertCount
    <2>3. QED
      BY <2>1, <2>2 DEF PackIsTheCase, Whole
  <1>10. QED
    BY <1>4, <1>5, <1>6, <1>7, <1>8, <1>9 DEF CaseInv

LEMMA CaseStarts ==
    ASSUME CaseInit
    PROVE  CaseInv
  <1>1. CaseTypeOK
    <2>1. Silent \in [Source -> SourceAnswer]
      BY DEF Silent, SourceAnswer
    <2>2. NoPack \in Pack
      BY <2>1, CaseTyping DEF NoPack, Pack
    <2>3. NewSeal \in Request
      BY <2>1, <2>2 DEF NewSeal, Request, Stage
    <2>4. QED
      BY <2>3 DEF CaseInit, CaseTypeOK, Standing
  <1>2. \A j \in Sealing : sealing[j] = NewSeal
    BY DEF CaseInit
  <1>3. NewSeal.phase = "idle" /\ ~NewSeal.stored /\ NewSeal.out = {} /\ NewSeal.said = Silent
    BY DEF NewSeal
  <1>4. OnTheWayHasLine /\ PackIsTheCase /\ StoredIsSealed
    BY <1>2, <1>3 DEF OnTheWayHasLine, PackIsTheCase, StoredIsSealed
  <1>5. ClaimedIsNotAsked
    <2>1. Silent["identities"] = "unasked" /\ Silent["alerts"] = "unasked"
      BY DEF Silent, Source, StoreRead
    <2>2. advised = {}
      BY DEF CaseInit
    <2>3. QED
      BY <1>2, <1>3, <2>1, <2>2 DEF ClaimedIsNotAsked
  <1>6. Shelved
    BY DEF CaseInit, Shelved, FileHasLine, HandedBackIsSealed
  <1>7. QED
    BY <1>1, <1>4, <1>5, <1>6 DEF CaseInv

LEMMA CaseStep ==
    ASSUME CaseInv, [CaseNext]_caseVars
    PROVE  CaseInv'
  <1>1. ASSUME NEW j \in Sealing, NEW ok \in BOOLEAN, Begin(j, ok) \/ Journal(j, ok) \/ Rename(j, ok)
        PROVE  CaseInv'
    BY <1>1, BeginKeeps, JournalKeeps, RenameKeeps
  <1>2. ASSUME NEW j \in Sealing, NEW q \in Source, Answer(j, q)
        PROVE  CaseInv'
    BY <1>2, AnswerKeeps
  <1>3. ASSUME NEW j \in Sealing, NEW result \in {"proof", "error"}, Prove(j, result)
        PROVE  CaseInv'
    BY <1>3, ProveKeeps
  <1>4. ASSUME NEW j \in Sealing, Place(j)
        PROVE  CaseInv'
    BY <1>4, PlaceKeeps
  <1>5. ASSUME NEW d \in DOMAIN packs, ReadBack(d) \/ Alter(d)
        PROVE  CaseInv'
    BY <1>5, ReadBackKeeps, AlterKeeps
  <1>6. ASSUME NEW r \in Remedy, NEW proved \in BOOLEAN, Advise(r, proved)
        PROVE  CaseInv'
    BY <1>6, AdviseKeeps
  <1>7. ASSUME NEW s \in Source, NEW to \in Standing, Turn(s, to)
        PROVE  CaseInv'
    <2>1. UNCHANGED <<incident, sealing, chained, packs, handed, advised, second>>
          /\ standing' \in [Source -> Standing]
      BY <1>7 DEF Turn, shelf, CaseInv, CaseTypeOK
    <2>2. QED
      BY <2>1, RequestsStand DEF CaseInv, CaseTypeOK, ClaimedIsNotAsked
  <1>8. CASE PassSecond
    <2>1. UNCHANGED <<incident, standing, sealing, chained, packs, handed, advised>>
          /\ second' \in Nat
      BY <1>8 DEF PassSecond, shelf, CaseInv, CaseTypeOK
    <2>2. QED
      BY <2>1, RequestsStand DEF CaseInv, CaseTypeOK, ClaimedIsNotAsked
  <1>9. CASE Die
    BY <1>9, DieKeeps
  <1>10. CASE UNCHANGED caseVars
    <2>1. UNCHANGED <<incident, standing, sealing, chained, packs, handed, advised, second>>
      BY <1>10 DEF caseVars
    <2>2. QED
      BY <2>1, RequestsStand DEF CaseInv, CaseTypeOK, ClaimedIsNotAsked
  <1>11. QED
    BY <1>1, <1>2, <1>3, <1>4, <1>5, <1>6, <1>7, <1>8, <1>9, <1>10 DEF CaseNext

\* A line of a section reads "empty" or "answered" only by the word of its source.
LEMMA LineIsSaid ==
    ASSUME NEW s \in Section, NEW said \in [Source -> SourceAnswer]
    PROVE  /\ Line(s, said) = "empty" => said[SourceOf[s]] = "nothing"
           /\ Line(s, said) = "answered" => said[SourceOf[s]] = "rows"
  BY DEF Line

\* A sealed case is what was assembled and says what was known, whatever turns, dies or is
\* altered on the way (case/commands.rs, case/mod.rs, seal/commands.rs, remedy/commands.rs).
THEOREM SealedIsTrueHolds == CaseSpec => []SealedIsTrue
  <1>1. CaseInit => CaseInv
    BY CaseStarts
  <1>2. CaseInv /\ [CaseNext]_caseVars => CaseInv'
    BY CaseStep
  <1>3. CaseInv => SealedIsTrue
    <2>1. SUFFICES ASSUME CaseInv
                   PROVE  SilenceIsNamed /\ StoredMeansStored /\ ClaimedIsNeverCharged
      BY DEF SealedIsTrue, CaseInv, Shelved
    <2>2. SilenceIsNamed
      <3>1. SUFFICES ASSUME NEW j \in Sealing, sealing[j].phase \in Whole, NEW s \in Section
                     PROVE  LET c == sealing[j].pack.case
                            IN  /\ c.lines[s] = "empty" => c.said[SourceOf[s]] = "nothing"
                                /\ c.lines[s] = "answered" => c.said[SourceOf[s]] = "rows"
        BY DEF SilenceIsNamed, Assembled, Whole
      <3>2. sealing[j].said \in [Source -> SourceAnswer]
            /\ sealing[j].pack.case = Case(sealing[j].said)
        BY <2>1, <3>1, RequestFields DEF CaseInv, PackIsTheCase, Whole
      <3> DEFINE c == sealing[j].pack.case
      <3>3. c.said = sealing[j].said /\ c.lines = [t \in Section |-> Line(t, sealing[j].said)]
        BY <3>2, CaseTyping
      <3> HIDE DEF c
      <3>4. c.lines[s] = Line(s, c.said)
        BY <3>1, <3>3
      <3>5. QED
        BY <3>1, <3>2, <3>3, <3>4, LineIsSaid DEF c
    <2>3. StoredMeansStored /\ ClaimedIsNeverCharged
      BY <2>1 DEF CaseInv, StoredIsSealed, StoredMeansStored, ClaimedIsNotAsked, ClaimedIsNeverCharged
    <2>4. QED
      BY <2>2, <2>3
  <1>4. QED
    BY <1>1, <1>2, <1>3, PTL DEF CaseSpec

-----------------------------------------------------------------------------
(***************************************************************************)
(* Residency: a client the gate let through reaches the box alone.         *)
(***************************************************************************)
\* Before there is a client nothing is asked, and the client is the one the gate let through:
\* without the opt-in it is of the box or of a name that is checked at every connection.
ClientIsGated ==
    /\ service # "ready" => asking = Idle /\ dialled = {} /\ told = {} /\ ~client.checks
    /\ service = "ready" => client = Built /\ (~config.remote => Url \in {"local_ip", "hostname"})

\* What a question uses, or a later one may use again, was dialled.
ConnectionsWereDialled == (asking # Idle => asking.to \in dialled) /\ pooled \subseteq dialled

\* Only a client whose resolver checks tells of a refusal.
OnlyTheResolverRefuses == "refused" \in told => client.checks

ResidencyInv ==
    /\ config \in Config
    /\ ClientIsGated
    /\ ConnectionsWereDialled
    /\ OnlyTheResolverRefuses
    /\ NothingLeavesTheBox
    /\ UsageNeverUnderstates

\* What a step may say of a question that did not get through.
TellsTruly ==
    told' # told /\ UNCHANGED asking =>
        IF client.checks THEN names # {Local} /\ "refused" \in told'
        ELSE "refused" \notin told'

LEMMA BuiltIs ==
    /\ Built.checks = (Url = "hostname" /\ ~config.remote)
    /\ Built.redirects = config.remote
    /\ Built.proxied = (config.remote /\ proxySet)
BY DEF Built

LEMMA IdleIs == Idle.at = "idle"
BY Zenon DEF Idle

LEMMA UrlIs ==
    ASSUME config \in Config
    PROVE  Url \in {"", "local_ip", "public_ip", "hostname", "cloud_name"}
<1>1. /\ config.url \in {"", "local_ip", "public_ip", "hostname"} /\ config.kind \in Kind
  BY DEF Config
<1>2. DefaultUrl[config.kind] \in {"local_ip", "cloud_name", ""}
  BY <1>1 DEF DefaultUrl
<1>. QED
  BY <1>1, <1>2 DEF Url

\* The gate lets a client through for the box, or for a listed name that is on it.
LEMMA ReadyIsGated ==
    ASSUME config \in Config, Provider = "ready", ~config.remote
    PROVE  Url \in {"local_ip", "hostname"}
<1>1. config.kind # "none" /\ ~FieldRefused /\ ~GateRefuses
  BY DEF Provider, Config, Kind
<1>. QED
  BY <1>1, UrlIs DEF FieldRefused, GateRefuses

\* Without the opt-in, whatever a new connection may go to is on the box.
LEMMA ReachesTheBox ==
    ASSUME ResidencyInv, service = "ready", ~config.remote
    PROVE  Reachable \subseteq {Local}
<1>1. client.checks = (Url = "hostname" /\ ~config.remote) /\ client.proxied = (config.remote /\ proxySet)
  BY BuiltIs, Zenon DEF ResidencyInv, ClientIsGated
<1>2. Url \in {"local_ip", "hostname"}
  BY DEF ResidencyInv, ClientIsGated
<1>3. CASE Url = "local_ip"
  BY <1>1, <1>3 DEF Reachable
<1>4. CASE Url = "hostname"
  BY <1>1, <1>4 DEF Reachable, ResolveAllLocal
<1>. QED
  BY <1>2, <1>3, <1>4

\* A checking client that can go nowhere has a name that is not on the box alone.
LEMMA RefusedIsOff ==
    ASSUME ResidencyInv, service = "ready", client.checks, Reachable = {}
    PROVE  names # {Local}
<1>1. Url = "hostname" /\ ~config.remote /\ ~client.proxied
  BY BuiltIs, Zenon DEF ResidencyInv, ClientIsGated
<1>2. Reachable = ResolveAllLocal(names)
  BY <1>1 DEF Reachable
<1>. QED
  BY <1>2 DEF ResolveAllLocal

LEMMA ResidencyStarts == ResidencyInit => ResidencyInv
<1>1. SUFFICES ASSUME ResidencyInit PROVE ResidencyInv
  OBVIOUS
<1>2. /\ config \in Config /\ service = "starting" /\ client = NoClient /\ pooled = {} /\ asking = Idle
      /\ dialled = {} /\ told = {} /\ usage = [said |-> 0, kept |-> 0]
  BY <1>1 DEF ResidencyInit
<1>. QED
  BY <1>2 DEF ResidencyInv, ClientIsGated, ConnectionsWereDialled, OnlyTheResolverRefuses,
     NothingLeavesTheBox, UsageNeverUnderstates, NoClient

\* The client, once built, and its configuration stay.
LEMMA ClientStays ==
    ASSUME ResidencyInv, UNCHANGED <<config, proxySet, service, client>>,
           service = "ready" \/ UNCHANGED <<asking, dialled, told>>
    PROVE  config' \in Config /\ ClientIsGated'
<1>1. Url' = Url /\ Built' = Built
  BY DEF Url, Built
<1>. QED
  BY <1>1 DEF ResidencyInv, ClientIsGated

LEMMA BuildKeeps == ASSUME ResidencyInv, BuildService PROVE ResidencyInv' /\ TellsTruly
<1>1. /\ service = "starting" /\ service' = Provider
      /\ client' = IF Provider = "ready" THEN Built ELSE NoClient
      /\ UNCHANGED <<config, proxySet, names, pooled, asking, dialled, told, usage>>
  BY DEF BuildService
<1>2. Url' = Url /\ Built' = Built
  BY <1>1 DEF Url, Built
<1>3. asking = Idle /\ dialled = {} /\ told = {}
  BY <1>1 DEF ResidencyInv, ClientIsGated
<1>4. ClientIsGated'
  <2>1. CASE Provider = "ready"
    BY <1>1, <1>2, <2>1, ReadyIsGated DEF ResidencyInv, ClientIsGated
  <2>2. CASE Provider # "ready"
    BY <1>1, <1>3, <2>2 DEF ClientIsGated, NoClient
  <2>. QED
    BY <2>1, <2>2
<1>5. ConnectionsWereDialled' /\ OnlyTheResolverRefuses' /\ NothingLeavesTheBox'
  BY <1>1, <1>3 DEF ResidencyInv, ConnectionsWereDialled, OnlyTheResolverRefuses, NothingLeavesTheBox
<1>6. UsageNeverUnderstates' /\ config' \in Config
  BY <1>1 DEF ResidencyInv, UsageNeverUnderstates
<1>. QED
  BY <1>1, <1>4, <1>5, <1>6 DEF ResidencyInv, TellsTruly

\* A question goes out over a connection that was dialled, or dials one it may.
LEMMA AskKeeps ==
    ASSUME ResidencyInv, NEW a \in {Local, Public}, Reuse(a) \/ Connect(a) \/ Redirected(a)
    PROVE  ResidencyInv' /\ TellsTruly
<1>1. /\ UNCHANGED <<config, proxySet, service, client, pooled, told, usage>>
      /\ asking' = [at |-> "sent", to |-> a] /\ asking'.to = a
      /\ dialled' \in {dialled, dialled \cup {a}} /\ a \in dialled'
  BY DEF Reuse, Connect, Redirected, ResidencyInv, ConnectionsWereDialled
<1>2. service = "ready"
  BY IdleIs DEF Reuse, Connect, Redirected, ResidencyInv, ClientIsGated
<1>3. config' \in Config /\ ClientIsGated'
  BY <1>1, <1>2, ClientStays
<1>4. ASSUME ~config.remote
      PROVE  a = Local \/ dialled' = dialled
  <2>1. ~client.redirects
    BY <1>2, <1>4, BuiltIs, Zenon DEF ResidencyInv, ClientIsGated
  <2>2. Reachable \subseteq {Local}
    BY <1>2, <1>4, ReachesTheBox
  <2>. QED
    BY <2>1, <2>2 DEF Reuse, Connect, Redirected
<1>5. NothingLeavesTheBox'
  BY <1>1, <1>4 DEF ResidencyInv, NothingLeavesTheBox, Local, Public
<1>6. ConnectionsWereDialled' /\ OnlyTheResolverRefuses' /\ UsageNeverUnderstates'
  BY <1>1 DEF ResidencyInv, ConnectionsWereDialled, OnlyTheResolverRefuses, UsageNeverUnderstates
<1>. QED
  BY <1>1, <1>3, <1>5, <1>6 DEF ResidencyInv, TellsTruly

LEMMA ConnectFailsKeeps == ASSUME ResidencyInv, ConnectFails PROVE ResidencyInv' /\ TellsTruly
<1>1. /\ service = "ready" /\ Reachable = {}
      /\ told' = told \cup {IF client.checks THEN "refused" ELSE "transport"}
      /\ UNCHANGED <<config, proxySet, names, service, client, pooled, asking, dialled, usage>>
  BY DEF ConnectFails
<1>2. config' \in Config /\ ClientIsGated'
  BY <1>1, ClientStays
<1>3. client.checks => names # {Local} /\ "refused" \in told'
  BY <1>1, RefusedIsOff
<1>4. ~client.checks => "refused" \notin told'
  BY <1>1 DEF ResidencyInv, OnlyTheResolverRefuses
<1>5. /\ ConnectionsWereDialled' /\ OnlyTheResolverRefuses'
      /\ NothingLeavesTheBox' /\ UsageNeverUnderstates'
  BY <1>1, <1>4 DEF ResidencyInv, ConnectionsWereDialled, OnlyTheResolverRefuses,
     NothingLeavesTheBox, UsageNeverUnderstates
<1>. QED
  BY <1>2, <1>3, <1>4, <1>5 DEF ResidencyInv, TellsTruly

\* A question that was sent ends, and its connection may be kept.
LEMMA EndsKeep ==
    ASSUME ResidencyInv, asking.at = "sent", asking' = Idle, "refused" \in told' => "refused" \in told,
           pooled' \in {pooled, pooled \cup {asking.to}}, UsageNeverUnderstates',
           UNCHANGED <<config, proxySet, names, service, client, dialled>>
    PROVE  ResidencyInv' /\ TellsTruly
<1>1. asking # Idle /\ asking' # asking
  BY IdleIs
<1>2. service = "ready"
  BY <1>1 DEF ResidencyInv, ClientIsGated
<1>3. config' \in Config /\ ClientIsGated'
  BY <1>2, ClientStays
<1>4. ConnectionsWereDialled' /\ OnlyTheResolverRefuses' /\ NothingLeavesTheBox'
  BY <1>1 DEF ResidencyInv, ConnectionsWereDialled, OnlyTheResolverRefuses, NothingLeavesTheBox
<1>. QED
  BY <1>1, <1>3, <1>4 DEF ResidencyInv, TellsTruly

LEMMA ErrsKeeps ==
    ASSUME ResidencyInv, NEW kind \in {"transport", "http", "decode"}, Errs(kind)
    PROVE  ResidencyInv' /\ TellsTruly
<1>1. UsageNeverUnderstates'
  BY DEF Errs, ResidencyInv, UsageNeverUnderstates
<1>2. "refused" \in told' => "refused" \in told
  BY DEF Errs
<1>. QED
  BY <1>1, <1>2, EndsKeep DEF Errs

\* The count kept is the number billed, or the largest the width holds.
LEMMA AnswersKeeps ==
    ASSUME ResidencyInv, NEW p \in 0..MaxCount, NEW c \in 0..MaxCount, NEW t \in 0..MaxCount,
           Answers(p, c, t)
    PROVE  ResidencyInv' /\ TellsTruly
<1>1. UsageNeverUnderstates'
  <2>1. SUFFICES ASSUME config.kind # "anthropic"
                 PROVE  usage'.kept >= usage'.said \/ usage'.kept = Word - 1
    BY DEF Answers, UsageNeverUnderstates
  <2>2. PICK n : n = Output(p, c, t)
    OBVIOUS
  <2>3. n \in Int /\ n >= t - p
    BY <2>2 DEF Output
  <2>4. usage'.said = t - p /\ usage'.kept = Clamp(n)
    BY <2>1, <2>2 DEF Answers, Kept
  <2>. QED
    BY <2>3, <2>4 DEF Clamp
<1>2. "refused" \in told' => "refused" \in told
  BY DEF Answers
<1>. QED
  BY <1>1, <1>2, EndsKeep DEF Answers

LEMMA ResidencyKeeps ==
    ResidencyInv /\ [ResidencyNext]_residencyVars => ResidencyInv' /\ [TellsTruly]_residencyVars
<1>1. SUFFICES ASSUME ResidencyInv, [ResidencyNext]_residencyVars
               PROVE  ResidencyInv' /\ TellsTruly
  OBVIOUS
<1>2. CASE BuildService
  BY <1>1, <1>2, BuildKeeps
<1>3. CASE ConnectFails
  BY <1>1, <1>3, ConnectFailsKeeps
<1>4. CASE NamesMove \/ UNCHANGED residencyVars
  <2>1. UNCHANGED <<config, proxySet, service, client, pooled, asking, dialled, told, usage>>
    BY <1>4 DEF NamesMove, residencyVars
  <2>2. config' \in Config /\ ClientIsGated'
    BY <1>1, <2>1, ClientStays
  <2>3. /\ ConnectionsWereDialled' /\ OnlyTheResolverRefuses'
        /\ NothingLeavesTheBox' /\ UsageNeverUnderstates'
    BY <1>1, <2>1 DEF ResidencyInv, ConnectionsWereDialled, OnlyTheResolverRefuses,
       NothingLeavesTheBox, UsageNeverUnderstates
  <2>. QED
    BY <2>1, <2>2, <2>3 DEF ResidencyInv, TellsTruly
<1>5. ASSUME NEW a \in {Local, Public}, Reuse(a) \/ Connect(a) \/ Redirected(a)
      PROVE  ResidencyInv' /\ TellsTruly
  BY <1>1, <1>5, AskKeeps
<1>6. ASSUME NEW kind \in {"transport", "http", "decode"}, Errs(kind)
      PROVE  ResidencyInv' /\ TellsTruly
  BY <1>1, <1>6, ErrsKeeps
<1>7. ASSUME NEW p \in 0..MaxCount, NEW c \in 0..MaxCount, NEW t \in 0..MaxCount, Answers(p, c, t)
      PROVE  ResidencyInv' /\ TellsTruly
  BY <1>1, <1>7, AnswersKeeps
<1>. QED
  BY <1>1, <1>2, <1>3, <1>4, <1>5, <1>6, <1>7 DEF ResidencyNext

\* Without the opt-in no connection leaves the box, wherever the name moves and whatever the
\* environment names; a refusal is told as one and only then; and no count is understated.
THEOREM ResidencyHoldsAlways == ResidencySpec => ResidencyHolds
<1>1. ResidencyInit => ResidencyInv
  BY ResidencyStarts
<1>2. ResidencyInv /\ [ResidencyNext]_residencyVars => ResidencyInv' /\ [TellsTruly]_residencyVars
  BY ResidencyKeeps
<1>3. ResidencyInv => NothingLeavesTheBox /\ UsageNeverUnderstates
  BY DEF ResidencyInv
<1>4. ResidencySpec => [](NothingLeavesTheBox /\ UsageNeverUnderstates)
  BY <1>1, <1>2, <1>3, PTL DEF ResidencySpec
<1>5. ResidencySpec => RefusalIsTold
  BY <1>1, <1>2, PTL DEF ResidencySpec, RefusalIsTold, TellsTruly
<1>. QED
  BY <1>4, <1>5, Zenon DEF ResidencyHolds
=============================================================================
