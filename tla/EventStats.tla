----------------------------- MODULE EventStats -----------------------------
(***************************************************************************)
(* What the console counts from its event store: the Statistics panel      *)
(* (stats_counts), one agent's stop list (agent_stops), one agent's        *)
(* profile against its own past (agent_profile) and the delegation graph   *)
(* (crates/api/src/stats, crates/core/src/graph.rs and the store's         *)
(* queries).                                                               *)
(*                                                                         *)
(* The panel and the profile each make two reads.  The ingest thread       *)
(* appends and prunes on a connection of its own, so rows come and go      *)
(* between the two.  A row is of a kind: a stop by policy, a run killed by *)
(* a person or by the plane, a refused identity (its envelope names the    *)
(* agent that was claimed), the console's own block of an agent, or        *)
(* anything else.                                                          *)
(***************************************************************************)
EXTENDS Integers, FiniteSets, FiniteSetsExt

CONSTANTS
    Agent,
    Kind,        \* the kinds of row written, of KindAll below
    AheadDays,   \* how far ahead of the box's a producer's clock runs
    MaxRows,     \* rows written, at most
    LastDay,     \* the box's days
    Window,      \* window_days
    Retention,   \* days kept
    DetailScan,  \* the cap on full rows read
    StopsLimit,  \* the cap of agent_stops
    MinDays      \* MIN_DAYS_FOR_NORMAL

KindAll == {"policy_deny", "killed", "killed_by_person", "refusal", "block", "other"}
CallerKey == "key"
Subject == Agent \cup {CallerKey, "console"}

ASSUME StatsAssumption ==
    /\ Kind \subseteq KindAll /\ Agent \cap {CallerKey, "console"} = {}
    /\ AheadDays \in Nat /\ MaxRows \in Nat /\ LastDay \in Nat /\ Retention \in Nat
    /\ Window \in Nat \ {0} /\ DetailScan \in Nat \ {0} /\ StopsLimit \in Nat \ {0}
    /\ MinDays \in Nat \ {0}

VARIABLES
    rows,         \* the events table: rows with their ids
    everWritten,  \* what was ever written in one
    today,        \* the box's UTC day
    panel,        \* the Statistics panel being read
    stops,        \* the last stop list
    profile,      \* the profile being read
    wrote         \* rows written, the last id

statsVars == <<rows, everWritten, today, panel, stops, profile, wrote>>

(***************************************************************************)
(* The rows and the store's queries                                        *)
(***************************************************************************)
\* Mutant: the envelope's agent, whatever the event is.
FiledUnderEnvelope(r) == IF r.kind = "block" THEN "console" ELSE r.agent

\* filed_under and its SQL spelling: an identity refusal is filed under the key that called.
FiledUnder(r) ==
    CASE r.kind = "refusal" -> CallerKey
      [] r.kind = "block" -> "console"
      [] OTHER -> r.agent

\* BLOCKED_TYPES
IsStop(r) == r.kind \in {"policy_deny", "killed", "killed_by_person", "refusal"}

\* is_operator_stop
ByPerson(r) == r.kind = "killed_by_person"

\* agents_halted_by: the agents a console block names.
Halts(r) == IF r.kind = "block" THEN {r.agent} ELSE {}

\* DETAIL_TYPES: run_killed, whoever pulled it, and the console's own commands.
NeedsDetail(r) == r.kind \in {"killed", "killed_by_person", "block"}

InWindow(r, day) == r.day > day - Window

\* type_counts_since: one aggregate, no cap.
CountsSince(day) ==
    [s \in Subject |->
        Cardinality({r \in rows : InWindow(r, day) /\ FiledUnder(r) = s /\ IsStop(r)})]

\* events_of_types_since: the newest rows by id, at most `limit`.
NewestOf(some, limit) == {r \in some : Cardinality({k \in some : k.id > r.id}) < limit}

(***************************************************************************)
(* The Statistics panel                                                    *)
(***************************************************************************)
NoFigures == [s \in Subject |-> 0]
NoPanel == [phase |-> "idle", day |-> 0, blocked |-> NoFigures, byPerson |-> NoFigures,
            truncated |-> FALSE, owedPerson |-> NoFigures, owedBlocked |-> NoFigures]

\* stats_counts, pass one.
ReadCounts ==
    /\ panel.phase = "idle"
    /\ panel' = [panel EXCEPT !.phase = "counted", !.day = today, !.blocked = CountsSince(today)]
    /\ UNCHANGED <<rows, everWritten, today, stops, profile, wrote>>

\* Mutant: full rows, but only when there were more than the cap.
TruncatedPast(n) == n > DetailScan

\* Exactly the cap reads as truncated.
Truncated(n) == n >= DetailScan

PersonIn(some) == [s \in Subject |-> Cardinality({r \in some : ByPerson(r) /\ FiledUnder(r) = s})]
HaltsIn(some) == [s \in Subject |-> Cardinality({r \in some : s \in Halts(r)})]
Plus(f, g) == [s \in Subject |-> f[s] + g[s]]

\* stats_counts, pass two: the rows a count cannot describe, and what an operator's block adds.
\* `owed` is what the same day's window holds now, for the properties.
ReadDetail ==
    LET wanted == {r \in rows : InWindow(r, panel.day) /\ NeedsDetail(r)}
        read == NewestOf(wanted, DetailScan)
    IN  /\ panel.phase = "counted"
        /\ panel' = [panel EXCEPT
             !.phase = "shown",
             !.blocked = Plus(@, HaltsIn(read)),
             !.byPerson = Plus(PersonIn(read), HaltsIn(read)),
             !.truncated = Truncated(Cardinality(read)),
             !.owedPerson = Plus(PersonIn(wanted), HaltsIn(wanted)),
             !.owedBlocked = Plus(panel.blocked, HaltsIn(wanted))]
        /\ UNCHANGED <<rows, everWritten, today, stops, profile, wrote>>

(***************************************************************************)
(* The stop list                                                           *)
(***************************************************************************)
NoStops == [agent |-> "none", listed |-> 0, owed |-> 0]

StopsOf(some, a) == {r \in some : a \in Halts(r) \/ (IsStop(r) /\ FiledUnder(r) = a)}

\* agent_stops: the newest stops and console commands of everybody, then this agent's.
ReadStops(a) ==
    LET wanted == {r \in rows : IsStop(r) \/ r.kind = "block"}
    IN  /\ stops' = [agent |-> a,
                     listed |-> Cardinality(StopsOf(NewestOf(wanted, StopsLimit), a)),
                     owed |-> Cardinality(StopsOf(wanted, a))]
        /\ UNCHANGED <<rows, everWritten, today, panel, profile, wrote>>

(***************************************************************************)
(* The profile                                                             *)
(***************************************************************************)
Day == 0..(LastDay + AheadDays)
NoProfile == [phase |-> "idle", agent |-> "none", day |-> 0, count |-> [d \in Day |-> 0],
              held |-> 0, start |-> 0, confidence |-> "no_data", median2 |-> 0,
              judged |-> 0]

\* daily_type_counts: no row for a day without events.
ReadDays(a) ==
    /\ profile.phase = "idle"
    /\ profile' = [profile EXCEPT
         !.phase = "days", !.agent = a, !.day = today,
         !.count = [d \in Day |-> Cardinality({r \in rows :
                        FiledUnder(r) = a /\ r.day = d /\ InWindow(r, today)})]]
    /\ UNCHANGED <<rows, everWritten, today, panel, stops, wrote>>

\* first_day_for_agent
FirstDays(a) == {r.day : r \in {x \in rows : FiledUnder(x) = a}}

\* Mutant: the days an agent was busy.
FilledBusy(start, day, count) == {d \in Day : d >= start /\ count[d] > 0}

\* Every day from the first to today, with or without rows, and any row past today.
Filled(start, day, count) == {d \in Day : d >= start /\ (d <= day \/ count[d] > 0)}

\* Mutant: watched from the window's start, whenever the agent appeared.
StartOfWindow(first, day) == Max({day - Window + 1, 0})

Start(first, day) == Max({first, day - Window + 1})

\* The k-th of the days' counts, sorted.
Nth(days, count, k) ==
    CHOOSE v \in {count[d] : d \in days} :
        /\ Cardinality({d \in days : count[d] < v}) < k
        /\ Cardinality({d \in days : count[d] <= v}) >= k

\* median, doubled to stay whole.
Median2(days, count) ==
    LET n == Cardinality(days)
        mid == n \div 2
    IN  CASE n = 0 -> 0
          [] n % 2 = 1 -> 2 * Nth(days, count, mid + 1)
          [] OTHER -> Nth(days, count, mid) + Nth(days, count, mid + 1)

ButLast(days) == days \ {Max(days)}

\* agent_profile after its second read: today is not complete, the day before is judged, and
\* the days before that are the baseline.
Profile(p, first) ==
    LET start == Start(first, p.day)
        days == Filled(start, p.day, p.count)
        held == Max({p.day - start + 1, 0})
        two == Cardinality(days) >= 2
    IN  [p EXCEPT !.phase = "shown", !.held = held, !.start = start,
                  !.confidence = IF held = 0 /\ \A d \in days : p.count[d] = 0 THEN "no_data"
                                 ELSE IF held < MinDays THEN "too_new"
                                 ELSE "normal",
                  !.judged = IF two THEN p.count[Max(ButLast(days))] ELSE 0,
                  !.median2 = IF two THEN Median2(ButLast(ButLast(days)), p.count) ELSE 0]

ReadFirst ==
    /\ profile.phase = "days"
    /\ profile' = IF FirstDays(profile.agent) = {} THEN [NoProfile EXCEPT !.phase = "shown", !.agent = profile.agent]
                  ELSE Profile(profile, Min(FirstDays(profile.agent)))
    /\ UNCHANGED <<rows, everWritten, today, panel, stops, wrote>>

(***************************************************************************)
(* The delegation graph, rebuilt from the table on every read              *)
(***************************************************************************)
\* DelegationGraph::ingest counts an actor once per natural key.
GraphCount(s) == Cardinality({<<r.kind, r.day>> : r \in {x \in rows : FiledUnder(x) = s}})

(***************************************************************************)
(* The store's other writers, and time                                     *)
(***************************************************************************)
StatsInit ==
    /\ rows = {} /\ everWritten = {} /\ today = 0 /\ wrote = 0
    /\ panel = NoPanel /\ stops = NoStops /\ profile = NoProfile

\* The ingest thread commits a row; its day is the producer's.
WriteRow(what, a, day) ==
    /\ wrote < MaxRows
    /\ rows' = rows \cup {[id |-> wrote + 1, kind |-> what, agent |-> a, day |-> day]}
    /\ everWritten' = everWritten \cup {[kind |-> what, agent |-> a, day |-> day]}
    /\ wrote' = wrote + 1
    /\ UNCHANGED <<today, panel, stops, profile>>

\* prune_before
Prune ==
    /\ \E r \in rows : r.day < today - Retention
    /\ rows' = {r \in rows : r.day >= today - Retention}
    /\ UNCHANGED <<everWritten, today, panel, stops, profile, wrote>>

NextDay ==
    /\ today < LastDay
    /\ today' = today + 1
    /\ UNCHANGED <<rows, everWritten, panel, stops, profile, wrote>>

StatsNext ==
    \/ ReadCounts \/ ReadDetail \/ ReadFirst \/ Prune \/ NextDay
    \/ \E a \in Agent : ReadStops(a) \/ ReadDays(a)
    \/ \E what \in Kind, a \in Agent : \E ahead \in 0..AheadDays : WriteRow(what, a, today + ahead)

StatsSpec == StatsInit /\ [][StatsNext]_statsVars

(***************************************************************************)
(* Properties                                                              *)
(***************************************************************************)
\* Whoever was claimed by a refused caller is charged with it nowhere: an agent the bus names
\* only in refusals has no stop, no listed stop, no day in a profile and no act in the graph.
ClaimedIsClean ==
    \A a \in Agent :
      (\A r \in everWritten : r.agent = a => r.kind = "refusal") =>
        /\ panel.blocked[a] = 0 /\ panel.byPerson[a] = 0
        /\ stops.agent = a => stops.listed = 0
        /\ profile.agent = a => \A d \in Day : profile.count[d] = 0
        /\ GraphCount(a) = 0

\* A column that understates what people did is marked: unless the panel says its detail was
\* cut, every kill by a person and every block in the window is in it, rows arriving and being
\* pruned between its two reads included.
UnderstatementIsMarked ==
    panel.phase = "shown" /\ ~panel.truncated => panel.byPerson = panel.owedPerson

\* "Normal" is said only of an agent whose own first event is MinDays old, whatever is pruned
\* between the two reads and however long the window is.
NoNormalForANewcomer ==
    profile.phase = "shown" /\ profile.confidence = "normal" =>
      \E r \in everWritten : FiledUnder(r) = profile.agent /\ profile.day - r.day + 1 >= MinDays

\* The baseline is a median of every complete day watched before the judged one, the empty
\* ones included: as many of them lie at or below it as at or above.
BaselineIsEveryDay ==
    profile.phase = "shown" /\ (\A d \in Day : d > profile.day => profile.count[d] = 0) =>
      LET days == profile.start..(profile.day - 2)
          below == Cardinality({d \in days : 2 * profile.count[d] <= profile.median2})
          above == Cardinality({d \in days : 2 * profile.count[d] >= profile.median2})
      IN  2 * below >= Cardinality(days) /\ 2 * above >= Cardinality(days)

\* The panel's counts are exact whatever became of its detail.
\* It does not hold: an operator's block is counted from the detail, and cut with it.
CountsStayExact == panel.phase = "shown" => panel.blocked = panel.owedBlocked

\* What people stopped is part of what was stopped.
\* It does not hold: a kill stored between the two reads is in the second column only.
OperatorWithinBlocked ==
    panel.phase = "shown" => \A s \in Subject : panel.byPerson[s] <= panel.blocked[s]

\* The stop list holds every stop the bus holds for the agent.
\* It does not hold: the limit is on everybody's stops, before this agent's are picked.
EveryStopIsListed == stops.listed = stops.owed

\* The judged day is the last complete one.
\* It does not hold: a row dated past today makes today the last day but one.
JudgedDayIsComplete ==
    profile.phase = "shown" /\ profile.held >= 2 => profile.judged = profile.count[profile.day - 1]

\* A figure of the statistics is of what happened or says that it is not: nobody is charged
\* with a claim, a cut column is marked, "normal" rests on enough days and the baseline on
\* every one of them (stats/mod.rs, stats/profile.rs).
CountsAreHonest ==
    /\ ClaimedIsClean
    /\ UnderstatementIsMarked
    /\ NoNormalForANewcomer
    /\ BaselineIsEveryDay
=============================================================================
