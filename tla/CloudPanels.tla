----------------------------- MODULE CloudPanels -----------------------------
(***************************************************************************)
(* The panels the console joins from several reads of another program:     *)
(* units and their caps, the runs table, the overview tiles (all from the  *)
(* TokenFuse Cloud) and the gateway's posture.  A panel asks its routes     *)
(* concurrently; each answers when it likes, may be missing from an older   *)
(* server (404) or fail, and what the server holds moves between the        *)
(* answers.  What the panel then shows must not say more than was read.     *)
(***************************************************************************)
EXTENDS Integers, FiniteSets

CONSTANTS
    Unit,        \* business units
    RunId,       \* runs
    Cap,         \* the one value a cap or a budget takes when it is set
    MaxSpend,    \* the most a unit or a run spends
    MaxMoves,    \* bound on changes of what the server holds
    MaxFailing,  \* bound on answers that are a 404 or a failure
    Nil          \* no value

VARIABLES
    server,      \* what the other program holds
    asking,      \* the panel being read, or Nil
    got,         \* what each route of that panel has answered
    past,        \* the states of `server` since the panel was asked for
    view,        \* what the panel shows
    moved, failing

panelVars == <<server, asking, got, past, view, moved, failing>>

Panel == {"units", "runs", "overview", "posture"}

\* Any cap or budget, zero and less included; Nil is like nothing else that is read or shown.
ASSUME PanelAssumption ==
    /\ Cap \in Int /\ MaxSpend \in Nat
    /\ Nil \notin Int /\ Nil \notin Panel /\ Nil \notin {"shown", "not_reported"}

Route == {"units", "unit-budgets", "runs", "budgets", "alerts", "summary",
          "incidents", "savings", "settings", "keys", "price-book"}

(* The routes a panel sends at once; /v1/alerts is a fallback, see          *)
(* Requested.                                                               *)
RoutesOf(p) ==
    CASE p = "units"    -> {"units", "unit-budgets"}
      [] p = "runs"     -> {"runs", "budgets"}
      [] p = "overview" -> {"summary", "runs", "incidents", "savings"}
      [] p = "posture"  -> {"settings", "keys", "price-book"}

(* Routes read with get_json_or_absent or get_optional: a 404 is an answer. *)
Optional == {"units", "unit-budgets", "settings", "price-book"}

Pending == [is |-> "pending", body |-> Nil]
Failed  == [is |-> "err", body |-> Nil]
NotServed  == [is |-> "absent", body |-> Nil]
Answered(r) == got[r].is = "ok"

Blank == [x \in {} |-> Nil]

NoView == [panel |-> Nil, error |-> FALSE, notes |-> {}, rows |-> Nil]

-----------------------------------------------------------------------------
(* What the server holds.  A unit it has no record of this month has no     *)
(* spend; a Cloud older than the month columns does not report them.        *)

Spent  == 0 .. MaxSpend
Server == [spend : [Unit -> Spent \cup {Nil}], caps : [Unit -> {Cap, Nil}],
           runs : [RunId -> {"absent", "live", "killed"}],
           budgets : [RunId -> {Cap, Nil}], month : BOOLEAN]

Records(s) == {u \in Unit : s.spend[u] # Nil}
Started(s) == {r \in RunId : s.runs[r] # "absent"}

(* /v1/alerts lists a budgeted run only once it is near its limit: here,    *)
(* once it was killed for it.                                               *)
NearLimit(s) == {r \in Started(s) : s.budgets[r] # Nil /\ s.runs[r] = "killed"}

(* A body as it is decoded.  UnitAgg.month_spent_microusd is serde(default):*)
(* a Cloud that does not report the month decodes as a month of zero.       *)
UnitSpend(s) == [u \in Records(s) |-> IF s.month THEN s.spend[u] ELSE 0]

Body(r, s) ==
    CASE r = "units"        -> UnitSpend(s)
      [] r = "unit-budgets" -> [u \in {x \in Unit : s.caps[x] # Nil} |-> s.caps[u]]
      [] r = "runs"         -> [x \in Started(s) |-> s.runs[x]]
      [] r = "budgets"      -> [x \in {y \in RunId : s.budgets[y] # Nil} |-> s.budgets[x]]
      [] r = "alerts"       -> [x \in NearLimit(s) |-> s.budgets[x]]
      [] r = "summary"      -> Cardinality(Started(s))
      [] OTHER              -> Nil

-----------------------------------------------------------------------------
(* parse_response, and the 404 rule of the optional reads.                  *)
Reply(r, how) ==
    CASE how = "up" -> [is |-> "ok", body |-> Body(r, server)]
      [] how = "missing" /\ r \in Optional -> NotServed
      [] OTHER -> Failed

(* Which requests are out: the panel's own, and /v1/alerts once the budget  *)
(* map has failed and the runs have not.                                    *)
Requested == IF asking = Nil THEN {}
         ELSE RoutesOf(asking) \cup
              (IF asking = "runs" /\ Answered("runs") /\ got["budgets"].is = "err"
               THEN {"alerts"} ELSE {})

AllIn == asking # Nil /\ \A r \in Requested : got[r].is # "pending"

-----------------------------------------------------------------------------
(* money/units.rs *)

\* Mutant: a cap that was not read is no cap.
StandingForgetful(cap, capsRead, spent) ==
    IF cap = Nil THEN "no_cap"
    ELSE IF spent = Nil THEN "spend_unknown"
    ELSE IF spent >= cap THEN "over" ELSE "under"

(* The near-cap band is part of "under" here.                               *)
Standing(cap, capsRead, spent) ==
    CASE cap = Nil /\ capsRead  -> "no_cap"
      [] cap = Nil /\ ~capsRead -> "cap_unknown"
      [] cap # Nil /\ cap <= 0  -> "over"
      [] cap # Nil /\ cap > 0 /\ spent = Nil -> "spend_unknown"
      [] OTHER -> IF spent >= cap THEN "over" ELSE "under"

At(f, x) == IF x \in DOMAIN f THEN f[x] ELSE Nil

JoinUnitCaps ==
    LET units == IF Answered("units") THEN got["units"].body ELSE Blank
        caps  == IF Answered("unit-budgets") THEN got["unit-budgets"].body ELSE Blank
    IN  [u \in DOMAIN units \cup DOMAIN caps |->
            [spent |-> At(units, u), cap |-> At(caps, u),
             state |-> Standing(At(caps, u), Answered("unit-budgets"), At(units, u))]]

\* Mutant: the section is empty when neither map was read.
UnitsErrNever == FALSE

UnitsErr == got["units"].is = "err" /\ got["unit-budgets"].is = "err"

UnitsView ==
    [panel |-> "units", error |-> UnitsErr,
     notes |-> {r \in RoutesOf("units") : ~Answered(r)},
     rows  |-> IF UnitsErr THEN Nil ELSE JoinUnitCaps]

-----------------------------------------------------------------------------
(* money/commands.rs: the runs table and the overview tiles *)

BudgetsRead == Answered("budgets")

RunsView ==
    LET budgets == IF Answered("budgets") THEN got["budgets"].body
                   ELSE IF Answered("alerts") THEN got["alerts"].body
                   ELSE Blank
        failed == ~Answered("runs")
    IN  [panel |-> "runs", error |-> failed,
         notes |-> IF BudgetsRead THEN {} ELSE {"budgets"},
         rows  |-> IF failed THEN Nil
                   ELSE [x \in DOMAIN got["runs"].body |->
                            [state |-> got["runs"].body[x], budget |-> At(budgets, x),
                             budgetsRead |-> BudgetsRead]]]

OverviewView ==
    LET failed == \E r \in RoutesOf("overview") : ~Answered(r)
        runs   == got["runs"].body
    IN  [panel |-> "overview", error |-> failed, notes |-> {},
         rows  |-> IF failed THEN Nil
                   ELSE [total  |-> got["summary"].body,
                         killed |-> {x \in DOMAIN runs : runs[x] = "killed"},
                         active |-> {x \in DOMAIN runs : runs[x] = "live"}]]

-----------------------------------------------------------------------------
(* credentials/posture.rs *)

Section(r) ==
    CASE Answered(r) -> "shown"
      [] got[r].is = "absent" /\ r = "settings" -> "not_reported"
      [] OTHER -> Nil

Failures == {r \in RoutesOf("posture") : got[r].is = "err"}

PostureView ==
    [panel |-> "posture", error |-> Failures = RoutesOf("posture"),
     notes |-> Failures \cup ({"price-book"} \ {r \in Route : Answered(r)}),
     rows  |-> IF Failures = RoutesOf("posture") THEN Nil
               ELSE [r \in RoutesOf("posture") |-> Section(r)]]

ViewOf(p) ==
    CASE p = "units"    -> UnitsView
      [] p = "runs"     -> RunsView
      [] p = "overview" -> OverviewView
      [] p = "posture"  -> PostureView

-----------------------------------------------------------------------------
PanelInit ==
    /\ server \in {s \in Server :
          /\ \A u \in Unit : s.spend[u] \in {Nil, 0} /\ s.caps[u] = Nil
          /\ \A r \in RunId : s.runs[r] = "absent" /\ s.budgets[r] = Nil}
    /\ asking = Nil
    /\ got = [r \in Route |-> Pending]
    /\ past = {}
    /\ view = NoView
    /\ moved = 0 /\ failing = 0

(* The other program's own work: calls spend, people set and lift caps.     *)
ServerMoves ==
    /\ moved < MaxMoves
    /\ \/ \E u \in Unit, c \in Spent :
             /\ server.spend[u] \in {Nil} \cup {d \in Spent : d < c}
             /\ server' = [server EXCEPT !.spend[u] = c]
       \/ \E u \in Unit, c \in {Cap, Nil} :
             c # server.caps[u] /\ server' = [server EXCEPT !.caps[u] = c]
       \/ \E r \in RunId :
             \/ /\ server.runs[r] = "absent"
                /\ server' = [server EXCEPT !.runs[r] = "live"]
             \/ /\ server.runs[r] = "live"
                /\ server' = [server EXCEPT !.runs[r] = "killed"]
       \/ \E r \in RunId, c \in {Cap, Nil} :
             /\ server.runs[r] # "absent" /\ c # server.budgets[r]
             /\ server' = [server EXCEPT !.budgets[r] = c]
    /\ moved' = moved + 1
    /\ past' = IF asking = Nil THEN past ELSE past \cup {server'}
    /\ UNCHANGED <<asking, got, view, failing>>

(* Requests are independent of one another: one is enough.                  *)
AskPanel(p) ==
    /\ asking = Nil /\ view = NoView
    /\ asking' = p
    /\ got' = [r \in Route |-> Pending]
    /\ past' = {server}
    /\ UNCHANGED <<server, view, moved, failing>>

(* A request is answered, refused with a 404 or lost.                       *)
AnswerArrives(r, how) ==
    /\ r \in Requested /\ got[r].is = "pending"
    /\ how # "up" => failing < MaxFailing
    /\ got' = [got EXCEPT ![r] = Reply(r, how)]
    /\ failing' = IF how = "up" THEN failing ELSE failing + 1
    /\ UNCHANGED <<server, asking, past, view, moved>>

(* The last answer is in, or try_join! has met its first error and drops    *)
(* the reads still out.                                                     *)
CutShort ==
    asking = "overview" /\ \E r \in RoutesOf("overview") : got[r].is = "err"

Show ==
    /\ AllIn \/ CutShort
    /\ view' = ViewOf(asking)
    /\ asking' = Nil
    /\ UNCHANGED <<server, got, past, moved, failing>>

PanelNext ==
    \/ ServerMoves
    \/ \E r \in Route, how \in {"up", "missing", "broken"} : AnswerArrives(r, how)
    \/ \E p \in Panel : AskPanel(p)
    \/ Show

PanelSpec == PanelInit /\ [][PanelNext]_panelVars

-----------------------------------------------------------------------------
Shown(p) == view.panel = p /\ ~view.error

(* Every figure, and every "none", that a panel shows was what the server    *)
(* held at some moment of that request: "no cap" and "no budget" are never   *)
(* the reading of a map that was not read (money/units.rs: CapUnknown is     *)
(* "Never shown as no cap"; money/commands.rs: budgets_read).  The month's    *)
(* spend of a Cloud without month columns is SpendIsReported's.              *)
FiguresWereTrue ==
    /\ Shown("units") => \A u \in DOMAIN view.rows :
          LET row == view.rows[u]
          IN  /\ row.cap # Nil => \E s \in past : s.caps[u] = row.cap
              /\ row.state = "no_cap" => \E s \in past : s.caps[u] = Nil
              /\ (row.spent # Nil /\ server.month) => \E s \in past : s.spend[u] = row.spent
              /\ row.state = "over" => \E s \in past, t \in past :
                    /\ t.caps[u] # Nil
                    /\ t.caps[u] <= 0 \/ (s.spend[u] # Nil /\ s.spend[u] >= t.caps[u])
    /\ Shown("runs") => \A r \in DOMAIN view.rows :
          LET row == view.rows[r]
          IN  /\ \E s \in past : s.runs[r] = row.state
              /\ row.budget # Nil => \E s \in past : s.budgets[r] = row.budget
              /\ (row.budget = Nil /\ row.budgetsRead) => \E s \in past : s.budgets[r] = Nil

(* A panel with nothing on it and nothing to say about why was read whole    *)
(* and the server held nothing: an outage never reads as an empty estate     *)
(* (money_units: "an empty section would read as a box with no units";       *)
(* credentials_posture: "a page of notes would read as a gateway with        *)
(* nothing configured").                                                     *)
OutageIsNotEmptiness ==
    /\ (Shown("units") /\ DOMAIN view.rows = {}) =>
          \/ "units" \notin view.notes /\ \E s \in past : Records(s) = {}
          \/ "unit-budgets" \notin view.notes /\ \E s \in past : \A u \in Unit : s.caps[u] = Nil
          \/ \E r \in RoutesOf("units") : got[r].is = "absent"
    /\ Shown("posture") =>
          /\ \E r \in RoutesOf("posture") : got[r].is \in {"ok", "absent"}
          /\ \A r \in RoutesOf("posture") : view.rows[r] = Nil => r \in view.notes
    /\ (view.panel \in {"units", "posture"} /\ view.error) =>
          \A r \in RoutesOf(view.panel) : got[r].is = "err"

(* The tiles agree with one another to within one event, as OverviewDto says *)
(* of active_runs ("any drift is at most one event wide").                   *)
(* It does not hold: any number of events fit between the reads.             *)
DriftIsOneEvent ==
    Shown("overview") =>
        LET listed == Cardinality(view.rows.killed \cup view.rows.active)
        IN  /\ view.rows.total <= listed + 1
            /\ listed <= view.rows.total + 1

(* The month's spend beside a unit is one the Cloud reported (UnitCapDto:    *)
(* "Never a zero it did not report").                                        *)
(* It does not hold: a Cloud without month columns reads as zero.            *)
SpendIsReported ==
    Shown("units") => \A u \in DOMAIN view.rows :
        view.rows[u].spent # Nil => server.month

\* What a panel shows was so while it was read, and an outage is never shown as an empty
\* estate (money/commands.rs, money/units.rs, credentials/commands.rs).
PanelsAreHonest ==
    /\ FiguresWereTrue
    /\ OutageIsNotEmptiness
=============================================================================
