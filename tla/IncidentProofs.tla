--------------------------- MODULE IncidentProofs ---------------------------
(***************************************************************************)
(* The two proofs an operator may ask for before changing a limit:         *)
(* policy_proof runs `wardryx replay` against a candidate policy,          *)
(* budget_proof runs `tokenfuse` four times against a candidate budget     *)
(* (crates/api/src/proof).  Both report two halves: what the candidate     *)
(* would have done to the incident's own run, and to everything else.      *)
(*                                                                         *)
(* A proof checks its request, takes one of a few slots, works in a        *)
(* private directory, runs its children under one deadline and gives the   *)
(* slot back on every path.  The gateway goes on recording calls while a   *)
(* proof runs.  A budget candidate limits what a run or one call may cost  *)
(* and how many calls a run may make; calls that share a step are loaded   *)
(* in any order, and what is blocked may depend on it.                     *)
(***************************************************************************)
EXTENDS Integers, FiniteSets, Sequences

CONSTANTS
    PolicyJob, BudgetJob,  \* requests for a proof of each kind
    SlotLimit,             \* MAX_CONCURRENT_PROOFS
    Timeout,               \* REPLAY_TIMEOUT, BUDGET_TIMEOUT
    Limits,                \* the candidate budgets
    Trace,                 \* what the gateway may have recorded of a run: its calls in order
    Replays(_, _),         \* what tokenfuse may say a candidate does to a run, per order of load
    LastTick               \* the clock's bound

Job == PolicyJob \cup BudgetJob

\* A call is made at a step of its run and costs something.
Call == [step : Nat, cost : Nat]

\* Calls of one step, whose order a replay does not promise.
Tied(t) == \E i, k \in DOMAIN t : i # k /\ t[i].step = t[k].step

\* A run goes on: t is what s has become.
GoesOn(s, t) == Len(s) <= Len(t) /\ \A i \in 1..Len(s) : t[i] = s[i]

\* Two commands ask; a limit of slots and a deadline are counts.  Of tokenfuse's replay: it
\* blocks some of the calls and saves nothing unless it does; whether it blocks any does not
\* depend on the order of load; and a run without ties has one order, which stays as the run
\* goes on, so what was blocked of it then is blocked of it later.
ASSUME IncidentAssumption ==
    /\ IsFiniteSet(Job) /\ PolicyJob \cap BudgetJob = {}
    /\ SlotLimit \in Nat /\ Timeout \in Nat
    /\ Limits # {} /\ <<>> \in Trace /\ \A t \in Trace : t \in Seq(Call)
    /\ \A c \in Limits, t \in Trace :
         /\ Replays(c, t) # {}
         /\ \A o \in Replays(c, t) :
              /\ DOMAIN o = {"blocked", "saved"}
              /\ o.blocked \in 0..Len(t) /\ o.saved \in Nat
              /\ o.saved > 0 => o.blocked > 0
         /\ \A o, u \in Replays(c, t) : o.blocked > 0 => u.blocked > 0
    /\ \A c \in Limits, s, t \in Trace : ~Tied(s) /\ GoesOn(s, t) =>
         \A o \in Replays(c, s), u \in Replays(c, t) : o.blocked <= u.blocked /\ o.saved <= u.saved

Run == {"incident", "other"}
Verdict == {"allow", "deny", "hold"}

VARIABLES
    calls,    \* calls the gateway has recorded, per run, in order
    job,      \* per job: its phase, when it started and what its children have said
    inUse,    \* slots taken
    scratch,  \* jobs whose private directory exists
    clock

proofVars == <<calls, job, inUse, scratch, clock>>

NoReport == [runs |-> 0, affected |-> 0, calls |-> 0, blocked |-> 0, saved |-> 0]
NoProof == [stops |-> "none", elsewhere |-> NoReport, exact |-> FALSE]
NoDecisions == [r \in Run |-> [outcome |-> "not_archived", was |-> "allow", now |-> "allow"]]

Idle == [phase |-> "idle", started |-> 0, limits |-> CHOOSE c \in Limits : TRUE,
         copied |-> <<>>, tied |-> FALSE, alone |-> NoReport, decisions |-> NoDecisions,
         at |-> [r \in Run |-> <<>>], proof |-> NoProof]

ProofInit ==
    /\ calls \in [Run -> {t \in Trace : Len(t) <= 1}]
    /\ job = [j \in Job |-> Idle]
    /\ inUse = 0
    /\ scratch = {}
    /\ clock = 0

Working == {j \in Job : job[j].phase \in {"replay", "copy", "count", "alone", "whole"}}

(***************************************************************************)
(* Asking                                                                  *)
(***************************************************************************)
\* Dollars with at most six decimals, neither zero nor over a million, which the tool reads back
\* as they were typed; or not.
Candidate == {"valid", "refused"}

Request == [candidate : Candidate, configured : BOOLEAN,
            incident : {"run", "no_run", "unknown"}, querySafe : BOOLEAN, limits : Limits]

\* What is answered before a slot is tried.
Refusal(j, r) ==
    \/ r.candidate = "refused"
    \/ ~r.configured
    \/ r.incident # "run"
    \/ j \in BudgetJob /\ ~r.querySafe

\* prove_in / prove_budget_in up to the first child.
Ask(j, r) ==
    /\ job[j].phase = "idle"
    /\ UNCHANGED <<calls, clock>>
    /\ IF Refusal(j, r) \/ inUse >= SlotLimit
       THEN /\ job' = [job EXCEPT ![j].phase = IF Refusal(j, r) THEN "refused" ELSE "busy"]
            /\ UNCHANGED <<inUse, scratch>>
       ELSE /\ inUse' = inUse + 1
            /\ scratch' = scratch \cup {j}
            /\ job' = [job EXCEPT ![j].phase = IF j \in PolicyJob THEN "replay" ELSE "copy",
                                  ![j].started = clock,
                                  ![j].limits = IF j \in PolicyJob THEN @ ELSE r.limits]

(***************************************************************************)
(* Ending: the slot and the directory are guards, given back with any end  *)
(***************************************************************************)
\* Mutant: the end of a proof whose child was killed forgets the slot.
EndKeepsSlot(j, phase, proof) ==
    /\ job' = [job EXCEPT ![j].phase = phase, ![j].proof = proof]
    /\ inUse' = IF phase = "timeout" THEN inUse ELSE inUse - 1
    /\ scratch' = scratch \ {j}

End(j, phase, proof) ==
    /\ job' = [job EXCEPT ![j].phase = phase, ![j].proof = proof]
    /\ inUse' = inUse - 1
    /\ scratch' = scratch \ {j}

\* A child that cannot be started, prints something else or contradicts itself.
ChildFails(j) ==
    /\ j \in Working
    /\ End(j, "failed", NoProof)
    /\ UNCHANGED <<calls, clock>>

\* deadline_of: all the children of one proof share its clock.
Deadline(j) == job[j].started + Timeout

\* run_bounded kills the child at the deadline.
TimeOut(j) ==
    /\ j \in Working
    /\ clock >= Deadline(j)
    /\ End(j, "timeout", NoProof)
    /\ UNCHANGED <<calls, clock>>

(***************************************************************************)
(* The policy proof                                                        *)
(***************************************************************************)
Replayable(ds) == {r \in Run : ds[r].outcome = "reproduced"}
Changed(ds) == {r \in Replayable(ds) : ds[r].was # ds[r].now}
Trustworthy(ds) == \A r \in Run : ds[r].outcome # "diverged"
Stops(ds) == "incident" \in Changed(ds) /\ ds["incident"].was = "allow"

\* Mutant: whatever could not be replayed is read as unchanged.
JudgeAnyReport(ds) == IF Stops(ds) THEN "yes" ELSE "no"

\* judge: no answer when a decision diverged or none could be replayed.
Judge(ds) ==
    IF ~Trustworthy(ds) \/ Replayable(ds) = {} THEN "unknown"
    ELSE IF Stops(ds) THEN "yes" ELSE "no"

\* wardryx replay over the recorded decisions, one of each run here: what became of each, what
\* it was and what the candidate makes of it.  A decision that was not reproduced says neither.
Replayed ==
    {ds \in [Run -> [outcome : {"reproduced", "not_archived", "diverged"},
                     was : Verdict, now : Verdict]] :
        \A r \in Run : ds[r].outcome # "reproduced" => ds[r].was = "allow" /\ ds[r].now = "allow"}

\* The second half: of the one other run's decision, whether it changed.
Others(changed) == [runs |-> 1, affected |-> changed, calls |-> 0, blocked |-> 0, saved |-> 0]

\* The replay ends with a report whose rows and counts add up.
PolicyJudged(j, ds) ==
    /\ job[j].phase = "replay"
    /\ clock < Deadline(j)
    /\ job' = [job EXCEPT ![j].phase = "done", ![j].decisions = ds,
                          ![j].proof = [stops |-> Judge(ds), exact |-> TRUE,
                                        elsewhere |-> Others(Cardinality(Changed(ds) \ {"incident"}))]]
    /\ inUse' = inUse - 1
    /\ scratch' = scratch \ {j}
    /\ UNCHANGED <<calls, clock>>

(***************************************************************************)
(* The budget proof                                                        *)
(***************************************************************************)
\* Over both runs; one without calls counts nothing.
Both(of) == of["incident"] + of["other"]
Number(of) == Both([r \in Run |-> IF of[r] THEN 1 ELSE 0])

\* What a replay of a trace may do to its runs.
Outcomes(c, of) == {o \in [Run -> UNION {Replays(c, of[r]) : r \in Run}] :
                       \A r \in Run : o[r] \in Replays(c, of[r])}

\* tokenfuse backtest of a trace holding the calls `of` per run.
Backtest(of, o) ==
    [runs |-> Number([r \in Run |-> of[r] # <<>>]),
     affected |-> Number([r \in Run |-> o[r].blocked > 0]),
     calls |-> Both([r \in Run |-> Len(of[r])]),
     blocked |-> Both([r \in Run |-> o[r].blocked]),
     saved |-> Both([r \in Run |-> o[r].saved])]

\* A flag the CLI dropped: the report is of a candidate without a limit, and echoes that.
BacktestDropped(of, o) == [Backtest(of, o) EXCEPT !.affected = 0, !.blocked = 0, !.saved = 0]
Reports(dropped, of, o) == IF dropped THEN BacktestDropped(of, o) ELSE Backtest(of, o)

\* Mutant: a report is taken whatever candidate it names.
TakesAnyReport(dropped) == TRUE

\* parse_backtest refuses a report for another candidate than the one asked.
Takes(dropped) == ~dropped

\* Step 1: the incident's calls are copied into a trace of their own; none is NotInTrace.
Copy(j) ==
    /\ job[j].phase = "copy"
    /\ clock < Deadline(j)
    /\ UNCHANGED <<calls, clock>>
    /\ IF calls["incident"] = <<>>
       THEN End(j, "not_in_trace", NoProof)
       ELSE /\ job' = [job EXCEPT ![j].phase = "count", ![j].copied = calls["incident"]]
            /\ UNCHANGED <<inUse, scratch>>

\* Mutant: no run is taken to have two calls at one step.
FewerStepsNever(t) == FALSE

FewerSteps(t) == Cardinality({t[i].step : i \in DOMAIN t}) < Len(t)

\* Step 2: fewer steps than calls is a tie.
Count(j) ==
    /\ job[j].phase = "count"
    /\ clock < Deadline(j)
    /\ job' = [job EXCEPT ![j].phase = "alone", ![j].tied = FewerSteps(job[j].copied)]
    /\ UNCHANGED <<calls, inUse, scratch, clock>>

\* Step 3: the candidate over the copy.
Alone(j, dropped) ==
    LET of == [r \in Run |-> IF r = "incident" THEN job[j].copied ELSE <<>>]
    IN  /\ job[j].phase = "alone"
        /\ clock < Deadline(j)
        /\ UNCHANGED <<calls, clock>>
        /\ IF Takes(dropped)
           THEN /\ \E o \in Outcomes(job[j].limits, of) :
                     job' = [job EXCEPT ![j].phase = "whole",
                                        ![j].alone = Reports(dropped, of, o)]
                /\ UNCHANGED <<inUse, scratch>>
           ELSE End(j, "unreadable", NoProof)

Less(a, b) == [f \in DOMAIN a |-> a[f] - b[f]]

\* judge_budget's refusals: the two reports cannot both be of this trace.
Fit(j, whole) ==
    LET alone == job[j].alone
    IN  /\ alone.runs = 1
        /\ alone.calls = Len(job[j].copied)
        /\ whole.runs >= 1
        /\ whole.calls >= alone.calls
        /\ whole.affected >= alone.affected /\ whole.blocked >= alone.blocked

\* Mutant: the last child is pointed at a trace the incident's calls were already taken out of.
WholeStale(j) == [calls EXCEPT !["incident"] = <<>>]

\* The trace the last child reads: the gateway's, as it is now.
Whole(j) == calls

\* judge_budget: no proof of two reports that cannot both be of this trace.
Judged(j, dropped, whole) ==
    LET alone == job[j].alone
    IN  IF Takes(dropped) /\ Fit(j, whole)
        THEN [job EXCEPT ![j].phase = "done", ![j].at = calls,
                         ![j].proof = [stops |-> IF alone.blocked > 0 THEN "yes" ELSE "no",
                                       elsewhere |-> Less(whole, alone),
                                       exact |-> ~job[j].tied]]
        ELSE [job EXCEPT ![j].phase = "unreadable"]

\* Step 4: the candidate over the whole trace, in whatever order it is loaded this time.
BudgetJudged(j, dropped) ==
    /\ job[j].phase = "whole"
    /\ clock < Deadline(j)
    /\ UNCHANGED <<calls, clock>>
    /\ inUse' = inUse - 1
    /\ scratch' = scratch \ {j}
    /\ \E o \in Outcomes(job[j].limits, Whole(j)) :
         job' = Judged(j, dropped, Reports(dropped, Whole(j), o))

(***************************************************************************)
(* Time and the gateway                                                    *)
(***************************************************************************)
\* A run makes a call, which the gateway records.
Record(r) ==
    /\ \E t \in Trace : /\ Len(t) = Len(calls[r]) + 1 /\ GoesOn(calls[r], t)
                        /\ calls' = [calls EXCEPT ![r] = t]
    /\ UNCHANGED <<job, inUse, scratch, clock>>

\* Time passes, but not past a deadline nobody has acted on: the wait polls every 20 ms.
Tick ==
    /\ clock < LastTick
    /\ \A j \in Working : clock < Deadline(j)
    /\ clock' = clock + 1
    /\ UNCHANGED <<calls, job, inUse, scratch>>

ProofNext ==
    \/ \E j \in Job, r \in Request : Ask(j, r)
    \/ \E j \in Job : ChildFails(j) \/ TimeOut(j)
    \/ \E j \in PolicyJob, ds \in Replayed : PolicyJudged(j, ds)
    \/ \E j \in BudgetJob : Copy(j) \/ Count(j)
    \/ \E j \in BudgetJob, dropped \in BOOLEAN : Alone(j, dropped) \/ BudgetJudged(j, dropped)
    \/ \E r \in Run : Record(r)
    \/ Tick

ProofSpec == ProofInit /\ [][ProofNext]_proofVars

(***************************************************************************)
(* Properties                                                              *)
(***************************************************************************)
\* No path leaves a slot or a private directory behind, and no proof keeps one past the
\* deadline its children share: the bound on children is a bound on proofs.
SlotsComeBack ==
    /\ inUse = Cardinality(Working) /\ inUse <= SlotLimit
    /\ scratch = Working
    /\ \A j \in Working : clock <= job[j].started + Timeout

\* A policy proof that answers is one wardryx stood behind: "yes" names a reproduced decision
\* of the incident that the candidate turns from allow, and a "no" is never read off a replay
\* that diverged or examined nothing.
VerdictIsEarned ==
    \A j \in PolicyJob : job[j].phase = "done" =>
      LET ds == job[j].decisions
      IN  /\ job[j].proof.stops = "yes" => Stops(ds) /\ Trustworthy(ds)
          /\ job[j].proof.stops = "no" => Replayable(ds) # {} /\ Trustworthy(ds) /\ ~Stops(ds)

\* A budget proof says of the incident's copied calls what the candidate that was asked does
\* to them in any order, whatever flag the tool dropped on the way.
BudgetVerdictIsTheCandidates ==
    \A j \in BudgetJob : job[j].phase = "done" =>
      \A o \in Replays(job[j].limits, job[j].copied) :
        (job[j].proof.stops = "yes") <=> (o.blocked > 0)

\* While the gateway records calls, incident's and others', the second half of a budget proof
\* counts nothing below zero, and unless it is marked approximate it hides nothing the
\* candidate does to the other runs: neither a run nor a call nor an amount.  With a step
\* shared in the incident's copy two loads may differ, and an unmarked half would hide some.
ElsewhereHidesNothing ==
    \A j \in BudgetJob : job[j].phase = "done" =>
      LET e == job[j].proof.elsewhere
      IN  /\ \A f \in DOMAIN e \ {"saved"} : e[f] >= 0
          /\ job[j].proof.exact =>
               \E o \in Replays(job[j].limits, job[j].at["other"]) :
                 /\ e.blocked >= o.blocked /\ e.saved >= o.saved
                 /\ o.blocked > 0 => e.affected > 0

\* What a budget proof marks as exact is exact: the second half counts the calls of the other
\* runs and none of the incident's own.
\* It does not hold: a call of the incident recorded between the copy and the whole run is
\* counted with the others'.
ExactIsExact ==
    \A j \in BudgetJob : job[j].phase = "done" /\ job[j].proof.exact =>
      job[j].proof.elsewhere.calls = Len(job[j].at["other"])

\* "The candidate would not have stopped this incident" is said only when a decision of the
\* incident was examined.
\* It does not hold: the half is "no" also when every decision of the incident was skipped.
NoMeansExamined ==
    \A j \in PolicyJob : job[j].phase = "done" /\ job[j].proof.stops = "no" =>
      "incident" \in Replayable(job[j].decisions)

\* A proof says what the tool it ran established, about the candidate it was asked about,
\* and gives back its slot and its directory whichever way it ended (proof/mod.rs,
\* proof/budget.rs).
ProofsAreEarned ==
    /\ SlotsComeBack
    /\ VerdictIsEarned
    /\ BudgetVerdictIsTheCandidates
    /\ ElsewhereHidesNothing
=============================================================================
