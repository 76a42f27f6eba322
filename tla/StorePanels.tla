----------------------------- MODULE StorePanels -----------------------------
(***************************************************************************)
(* The read-only panels over files other programs write while the console  *)
(* reads them: web egress from the console's own event store, eval runs     *)
(* from verdryx.db, routine history from history.ndjson, the cost per       *)
(* action and the savings from the tokenfuse CLI over its trace, and the    *)
(* virtual machines a cloud provider's CLI or API lists.  None of them      *)
(* holds a lock or a transaction over its reads.                            *)
(***************************************************************************)
EXTENDS Integers, Sequences, FiniteSets

CONSTANTS
    Limit,       \* rows an egress or history panel returns
    ScanFactor,  \* recent events scanned per egress row asked for (20)
    ScanMax,     \* and at most (20,000)
    PageSize,    \* servers on one page of the Hetzner API
    MaxWritten   \* bound on what the other programs write

ASSUME ReportsAssumption ==
    /\ Limit \in Nat \ {0} /\ ScanFactor \in Nat \ {0} /\ PageSize \in Nat \ {0}
    /\ ScanMax \in Nat /\ Limit <= ScanMax
    /\ MaxWritten \in Nat

VARIABLES
    kind,        \* the panel of this behaviour
    file,        \* what the other program has written, oldest first
    health,      \* "ok", "missing", "unreadable"; of what a command line or an API
                 \* answers with success also "odd" (parts absent) and "prose"
    ended,       \* verdryx has marked the eval run finished
    answers,     \* verdryx.db has an `unanswered` table
    step,        \* how far the panel's reads have come
    held,        \* what its earlier reads returned
    shows        \* what the panel shows

storeVars == <<kind, file, health, ended, answers, step, held, shows>>

Report == {"egress", "quality", "history", "cost", "savings", "inventory"}
Provider == {"aws", "gcp", "azure", "ibmcloud", "hetzner"}

(* One thing written: a bus event, a scored or refused case, a history line *)
(* (of either routine, or torn), a traced call, a virtual machine with a    *)
(* public address or with a private one alone.                              *)
Entry(k) ==
    CASE k = "egress"  -> {"web_fetch", "web_blocked", "other"}
      [] k = "quality" -> {"scored", "unanswered"}
      [] k = "history" -> {"mine", "theirs", "torn"}
      [] k \in {"cost", "savings"} -> {"call", "refused"}
      [] k = "inventory" -> {"public", "private"}

\* The places of some entries in the file, and the last so many of some places.
Places(S) == {i \in DOMAIN file : file[i] \in S}
LastOf(places, n) == {i \in places : Cardinality({k \in places : k > i}) < n}

CountIn(s, S) == Cardinality({i \in DOMAIN s : s[i] \in S})

NotShown == [is |-> "nothing"]

-----------------------------------------------------------------------------
(* api/egress *)

\* limit.saturating_mul(20).clamp(limit, 20_000).
Scan == IF Limit * ScanFactor < ScanMax THEN Limit * ScanFactor ELSE ScanMax

(* recent_events(scan), newest first; the loop keeps the two known types    *)
(* and stops at the limit, totals and all.                                  *)
Scanned == {i \in DOMAIN file : i > Len(file) - Scan}
EgressRows == LastOf(Scanned \cap Places({"web_fetch", "web_blocked"}), Limit)

EgressUnmeasured == [is |-> "panel", measured |-> FALSE, rows |-> {}, scanned |-> {},
                     fetched |-> 0, blocked |-> 0]

EgressRecent ==
    /\ kind = "egress" /\ step = "start"
    /\ shows' = IF health # "ok" THEN EgressUnmeasured
                ELSE [is |-> "panel", measured |-> TRUE, rows |-> EgressRows,
                      scanned |-> Scanned,
                      fetched |-> Cardinality(EgressRows \cap Places({"web_fetch"})),
                      blocked |-> Cardinality(EgressRows \cap Places({"web_blocked"}))]
    /\ step' = "done"
    /\ UNCHANGED <<kind, file, health, ended, answers, held>>

-----------------------------------------------------------------------------
(* connectors/verdryx.rs: open probes the table, then run_summary is three  *)
(* SELECTs, each its own snapshot of a store verdryx may be writing.        *)

NothingHeld == [supported |-> FALSE, finished |-> FALSE, cases |-> 0, unanswered |-> 0,
                asked |-> 0, byModel |-> 0, tables |-> FALSE]

QualityOpen ==
    /\ kind = "quality" /\ step = "start"
    /\ IF health = "ok"
       THEN /\ held' = [held EXCEPT !.supported = answers]
            /\ step' = "run"
            /\ UNCHANGED shows
       ELSE /\ shows' = [is |-> "error"] /\ step' = "done"
            /\ UNCHANGED held
    /\ UNCHANGED <<kind, file, health, ended, answers>>

SelectRun == [held EXCEPT !.finished = ended]
SelectScores == [held EXCEPT !.cases = CountIn(file, {"scored"})]
SelectUnanswered ==
    [held EXCEPT !.unanswered = IF held.supported THEN CountIn(file, {"unanswered"}) ELSE 0]

\* Mutant: the counts are read before the run.
QuerySwapped(at) ==
    CASE at = "run"    -> SelectScores
      [] at = "scores" -> SelectUnanswered
      [] at = "unanswered" -> SelectRun

\* The three statements, one after another.
Query(at) ==
    CASE at = "run"    -> SelectRun
      [] at = "scores" -> SelectScores
      [] at = "unanswered" -> SelectUnanswered
QueryAfter(at) ==
    CASE at = "run"    -> "scores"
      [] at = "scores" -> "unanswered"
      [] at = "unanswered" -> "summary"

RunSummaryStep ==
    /\ kind = "quality" /\ step \in {"run", "scores", "unanswered"}
    /\ held' = Query(step)
    /\ step' = QueryAfter(step)
    /\ UNCHANGED <<kind, file, health, ended, answers, shows>>

\* Any of them may fail though the store was opened.
SelectFails ==
    /\ kind = "quality" /\ step \in {"run", "scores", "unanswered"}
    /\ shows' = [is |-> "error"] /\ step' = "done"
    /\ UNCHANGED <<kind, file, health, ended, answers, held>>

RunSummary ==
    /\ kind = "quality" /\ step = "summary"
    /\ shows' = [is |-> "summary", run |-> held]
    /\ step' = "done"
    /\ UNCHANGED <<kind, file, health, ended, answers, held>>

-----------------------------------------------------------------------------
(* api/routines: assemble_history drops torn lines and counts them,         *)
(* reverses, keeps one routine and then caps.                               *)

Parsed == Places({"mine", "theirs"})

\* Mutant: the cap comes before the routine is picked.
AssembleCapFirst == LastOf(Parsed, Limit) \cap Places({"mine"})

Assemble == LastOf(Parsed \cap Places({"mine"}), Limit)

(* A history that is there and cannot be read (not UTF-8, no permission) is   *)
(* shown as one that exists, without records and with nothing skipped.       *)
RoutinesHistory ==
    /\ kind = "history" /\ step = "start"
    /\ shows' = [is |-> "history", exists |-> health # "missing",
                 records |-> IF health = "ok" THEN Assemble ELSE {},
                 skipped |-> IF health = "ok" THEN CountIn(file, {"torn"}) ELSE 0]
    /\ step' = "done"
    /\ UNCHANGED <<kind, file, health, ended, answers, held>>

-----------------------------------------------------------------------------
(* connectors/tokenfuse.rs: `tokenfuse sql` exits 0 over a trace it cannot   *)
(* read; an empty stdout with "sql error:" on stderr is the only sign.  A     *)
(* table without one of the columns is an error, and output without a table  *)
(* is one of no rows.                                                        *)

SqlFailed == health \in {"missing", "unreadable", "odd"}
IsTable == health = "ok"
InTable(n) == IF IsTable THEN n ELSE 0

(* An identity refusal is of no model, and is filed under its key.           *)
PerModel == InTable(CountIn(file, {"call"}))
PerAgent == [agent |-> PerModel, key |-> InTable(CountIn(file, {"refused"}))]

CostByModel ==
    /\ kind = "cost" /\ step = "start"
    /\ IF SqlFailed
       THEN /\ shows' = [is |-> "error"] /\ step' = "done"
            /\ UNCHANGED held
       ELSE /\ held' = [held EXCEPT !.asked = Len(file), !.byModel = PerModel,
                                   !.tables = IsTable]
            /\ step' = "agent"
            /\ UNCHANGED shows
    /\ UNCHANGED <<kind, file, health, ended, answers>>

CostByAgent ==
    /\ kind = "cost" /\ step = "agent"
    /\ shows' = IF SqlFailed THEN [is |-> "error"]
                ELSE [is |-> "costs", byModel |-> held.byModel, byAgent |-> PerAgent,
                      tables |-> held.tables /\ IsTable]
    /\ step' = "done"
    /\ UNCHANGED <<kind, file, health, ended, answers, held>>

-----------------------------------------------------------------------------

\* Mutant: a report in other words is read as a report of nothing.
SavingsTextLenient ==
    CASE health = "missing" -> [is |-> "savings", found |-> FALSE, blocked |-> 0]
      [] health = "odd" -> [is |-> "savings", found |-> TRUE, blocked |-> 0]
      [] health \in {"unreadable", "prose"} -> [is |-> "error"]
      [] OTHER -> [is |-> "savings", found |-> TRUE, blocked |-> CountIn(file, {"refused"})]

(* `tokenfuse savings`: a nonzero exit is an error, the header of an absent  *)
(* trace says so, and a report counts only with all three summary lines; any *)
(* other wording is refused.                                                 *)
SavingsText ==
    CASE health = "missing" -> [is |-> "savings", found |-> FALSE, blocked |-> 0]
      [] health \in {"unreadable", "odd", "prose"} -> [is |-> "error"]
      [] OTHER -> [is |-> "savings", found |-> TRUE, blocked |-> CountIn(file, {"refused"})]

Savings ==
    /\ kind = "savings" /\ step = "start"
    /\ shows' = SavingsText
    /\ step' = "done"
    /\ UNCHANGED <<kind, file, health, ended, answers, held>>

-----------------------------------------------------------------------------
(* connectors/cloud_cli.rs, hetzner.rs: the machines a provider lists.       *)

(* The CLI is not installed or exits nonzero; the API is unreachable or      *)
(* answers with an error.                                                    *)
RunCli == health \notin {"missing", "unreadable"}

(* A machine without a public address has none in its row, except that       *)
(* parse_ibm puts the private address in the public column.                  *)
PublicIp(p, vm) ==
    IF vm = "public" THEN "public"
    ELSE IF p = "ibmcloud" THEN "private"
    ELSE "none"

(* GET /v1/servers answers with its first page; no other is asked for.       *)
FirstPage(s) == [i \in {k \in DOMAIN s : k <= PageSize} |-> s[i]]

(* One row for each machine listed.  An answer without the array is an empty *)
(* list to every parser, one that is not JSON is an error.                   *)
Listed(p) ==
    LET machines == IF health = "odd" THEN <<>>
                    ELSE IF p = "hetzner" THEN FirstPage(file)
                    ELSE file
    IN  [i \in DOMAIN machines |-> PublicIp(p, machines[i])]

ListServers(p) ==
    /\ kind = "inventory" /\ step = "start"
    /\ shows' = IF ~RunCli \/ health = "prose" THEN [is |-> "error"]
                ELSE [is |-> "inventory", of |-> p, rows |-> Listed(p)]
    /\ step' = "done"
    /\ UNCHANGED <<kind, file, health, ended, answers, held>>

-----------------------------------------------------------------------------
StoreInit ==
    /\ kind \in Report
    /\ file = <<>>
    /\ health = "ok"
    /\ ended = FALSE
    /\ answers \in BOOLEAN /\ (~answers => kind = "quality")
    /\ step = "start"
    /\ held = NothingHeld
    /\ shows = NotShown

(* What happens to the file once the panel is shown is the next request's.    *)
(* The other program appends.  verdryx writes its cases before it marks the  *)
(* run finished; one without the table records no refusal.                   *)
OthersWrite ==
    /\ step # "done" /\ Len(file) < MaxWritten /\ ~ended
    /\ health = "missing" => kind = "inventory"
    /\ \E e \in Entry(kind) :
          /\ e = "unanswered" => answers
          /\ file' = Append(file, e)
    /\ UNCHANGED <<kind, health, ended, answers, step, held, shows>>

EvalEnds ==
    /\ kind = "quality" /\ step # "done" /\ ~ended
    /\ ended' = TRUE
    /\ UNCHANGED <<kind, file, health, answers, step, held, shows>>

FileTurns ==
    /\ step \in (IF kind = "cost" THEN {"start", "agent"} ELSE {"start"})
    /\ \E to \in ({"ok", "missing", "unreadable"}
                   \cup IF kind \in {"cost", "savings", "inventory"} THEN {"odd", "prose"} ELSE {})
                  \ {health} :
          /\ (to = "missing" /\ kind # "inventory") => file = <<>>
          /\ health' = to
    /\ UNCHANGED <<kind, file, ended, answers, step, held, shows>>

StoreNext ==
    \/ EgressRecent
    \/ QualityOpen \/ RunSummaryStep \/ SelectFails \/ RunSummary
    \/ RoutinesHistory
    \/ CostByModel \/ CostByAgent \/ Savings
    \/ \E p \in Provider : ListServers(p)
    \/ OthersWrite \/ EvalEnds \/ FileTurns

StoreSpec == StoreInit /\ [][StoreNext]_storeVars

-----------------------------------------------------------------------------
(* A run shown finished is shown with all its cases: the eval_runs row is    *)
(* read before the counts, so a mean under "finished" is the final mean      *)
(* though no transaction spans the three statements.                         *)
FinishedIsFinal ==
    (shows.is = "summary" /\ shows.run.finished) =>
        /\ shows.run.cases = CountIn(file, {"scored"})
        /\ shows.run.supported => shows.run.cases + shows.run.unanswered = Len(file)

(* Nothing shown means nothing there: a measured egress panel without rows   *)
(* leaves no fetch among the events its scan covers, an unreadable store is  *)
(* never measured, a cost report without calls and savings of nothing come   *)
(* of a trace that was read (the costs as long as the answers were tables),  *)
(* and a machine is missing from an inventory only past the API's first page *)
(* or when the answer itself had no list in it.                              *)
QuietIsQuiet ==
    /\ (shows.is = "panel" /\ shows.measured) =>
          /\ health = "ok"
          /\ shows.rows = {} =>
                \A i \in DOMAIN file : i > Len(file) - Scan => file[i] = "other"
    /\ (shows.is = "costs" /\ shows.tables) =>
          /\ shows.byModel = 0 => \A i \in 1..held.asked : file[i] # "call"
          /\ shows.byAgent.agent >= shows.byModel
    /\ shows.is = "savings" => /\ shows.found = (health # "missing")
                               /\ shows.blocked = CountIn(file, {"refused"})
    /\ (shows.is = "inventory" /\ health # "odd") =>
          LET asked == IF shows.of = "hetzner" THEN FirstPage(file) ELSE file
          IN  /\ health = "ok" /\ DOMAIN shows.rows = DOMAIN asked
              /\ CountIn(shows.rows, {"public"}) = CountIn(asked, {"public"})

(* A routine's history is its newest runs, not what is left of everyone's:   *)
(* of a history that could be read only a cap it reached hides one, and a     *)
(* torn line is counted; no other shows a record, and an absent one says so. *)
HistoryIsTheRoutines ==
    shows.is = "history" =>
        /\ \A i \in shows.records : file[i] = "mine"
        /\ shows.exists <=> health # "missing"
        /\ health = "unreadable" \/
              /\ Cardinality(shows.records) < Limit =>
                    \A i \in DOMAIN file : file[i] = "mine" => i \in shows.records
              /\ CountIn(file, {"mine", "theirs"}) + shows.skipped = Len(file)

(* "truncation/corruption is reported here, never silent" (routines/          *)
(* commands.rs:197-199): without a skipped line every line is a record.      *)
(* It does not hold: a history that exists and cannot be read is shown with  *)
(* no record and no line skipped.                                            *)
NothingIsSilent ==
    (shows.is = "history" /\ shows.exists /\ shows.skipped = 0 /\ shows.records = {}) =>
        \A i \in DOMAIN file : file[i] = "theirs"

(* No rows are "legitimately zero rows" (tokenfuse.rs:543-547).              *)
(* It does not hold: any output without a `|` line is read as no rows.       *)
NoRowsNoCalls ==
    (shows.is = "costs" /\ shows.byModel = 0) => \A i \in 1..held.asked : file[i] # "call"

(* "the inventory ... every server the token can see" (hetzner.rs:229-231).  *)
(* It does not hold: only the first page is read.                            *)
InventoryIsWhole ==
    (shows.is = "inventory" /\ health = "ok") => DOMAIN shows.rows = DOMAIN file

(* The totals are of the events the note says were read ("Read from the      *)
(* {scanned} most recent events on the bus").                                *)
(* It does not hold: the loop ends at `limit` rows.                          *)
TotalsCoverTheScan ==
    (shows.is = "panel" /\ shows.measured) =>
        shows.fetched + shows.blocked
            = Cardinality(shows.scanned \cap Places({"web_fetch", "web_blocked"}))

\* A report read from a file others write, or from a provider, is final when it says so and
\* of the routine it names, and hides nothing of a source it could read and understand but
\* by a cap (verdryx.rs, egress/mod.rs, routines/commands.rs, tokenfuse.rs, hetzner.rs,
\* cloud_cli.rs).
ReportsAreHonest ==
    /\ FinishedIsFinal
    /\ QuietIsQuiet
    /\ HistoryIsTheRoutines
=============================================================================
