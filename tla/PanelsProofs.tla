---------------------------- MODULE PanelsProofs ----------------------------
(***************************************************************************)
(* What the panels' components promise, for every value of their           *)
(* constants: the proofs about an incident (IncidentProofs), the evidence  *)
(* pack (EvidencePack), the live feed to a page (LiveFeed), the panels     *)
(* joined from several reads (CloudPanels), the delegation graph           *)
(* (DelegationGraph), the statistics (EventStats), the reports on the      *)
(* store (StorePanels) and the Cloud's stream (CloudStream).               *)
(***************************************************************************)
EXTENDS IncidentProofs, EvidencePack, LiveFeed, CloudPanels, DelegationGraph, EventStats,
        StorePanels, CloudStream, FiniteSetTheorems, WellFoundedInduction, TLAPS

(***************************************************************************)
(* The proofs about an incident.                                           *)
(***************************************************************************)
Children == {"replay", "copy", "count", "alone", "whole"}
Phase == Children \cup {"idle", "refused", "busy", "failed", "timeout", "not_in_trace",
                        "unreadable", "done"}
Decision == [outcome : {"reproduced", "not_archived", "diverged"}, was : Verdict, now : Verdict]
Reported == [runs : Nat, affected : Nat, calls : Nat, blocked : Nat, saved : Nat]
Half == [runs : Int, affected : Int, calls : Int, blocked : Int, saved : Int]
Proof == [stops : {"none", "yes", "no", "unknown"}, elsewhere : Half, exact : BOOLEAN]
JobState == [phase : Phase, started : Nat, limits : Limits, copied : Trace, tied : BOOLEAN,
             alone : Reported, decisions : [Run -> Decision], at : [Run -> Trace], proof : Proof]

Formed ==
    /\ calls \in [Run -> Trace]
    /\ job \in [Job -> JobState]
    /\ clock \in Nat

\* A proof goes through the phases of its own kind.
OwnPhases ==
    /\ \A j \in PolicyJob : job[j].phase \notin {"copy", "count", "alone", "whole"}
    /\ \A j \in BudgetJob : job[j].phase # "replay"

\* What a report over one run says: what one replay of it did.
SaysOf(report, o) ==
    /\ report.blocked = o.blocked /\ report.saved = o.saved
    /\ report.affected = IF o.blocked > 0 THEN 1 ELSE 0

AloneIsOf(state) == \E o \in Replays(state.limits, state.copied) : SaysOf(state.alone, o)

\* What was copied is the beginning of what the gateway has, for calls are only ever added; a
\* tie in it is known; and the report on the copy is of the candidate over it.
StandsOnItsCopy(state, whole) ==
    /\ state.phase \in {"count", "alone", "whole"} => GoesOn(state.copied, whole)
    /\ state.phase \in {"alone", "whole"} => state.tied = FewerSteps(state.copied)
    /\ state.phase = "whole" => AloneIsOf(state)

CopyStands == \A j \in BudgetJob : StandsOnItsCopy(job[j], calls["incident"])

ProofInv ==
    /\ Formed
    /\ SlotsComeBack
    /\ OwnPhases
    /\ CopyStands
    /\ VerdictIsEarned
    /\ BudgetVerdictIsTheCandidates
    /\ ElsewhereHidesNothing

\* What a step does to one job: the others stand, and the job stays formed.
Only(j) ==
    /\ job' \in [Job -> JobState]
    /\ \A k \in Job : k # j => job'[k] = job[k]

LEMMA WorkingIsFinite == IsFiniteSet(Working) /\ Working \subseteq Job
<1>1. Working \subseteq Job
  BY DEF Working
<1> QED
  BY <1>1, IncidentAssumption, FS_Subset

\* A slot is taken with its directory where there is one left.
LEMMA TakesASlot ==
    ASSUME SlotsComeBack, NEW j \in Job, Only(j), clock \in Nat,
           j \notin Working, job'[j].phase \in Children, job'[j].started = clock,
           inUse < SlotLimit, inUse' = inUse + 1, scratch' = scratch \cup {j}, clock' = clock
    PROVE  SlotsComeBack'
<1>1. Working' = Working \cup {j}
  BY DEF Working, Only, Children
<1>2. Cardinality(Working') = Cardinality(Working) + 1
  BY <1>1, WorkingIsFinite, FS_AddElement
<1>3. Cardinality(Working) \in Nat
  BY WorkingIsFinite, FS_CardinalityType
<1>4. inUse' = Cardinality(Working') /\ inUse' <= SlotLimit /\ scratch' = Working'
  BY <1>1, <1>2, <1>3, IncidentAssumption DEF SlotsComeBack
<1>5. \A k \in Working' : clock' <= job'[k].started + Timeout
  <2> SUFFICES ASSUME NEW k \in Working' PROVE clock' <= job'[k].started + Timeout
    OBVIOUS
  <2>1. CASE k = j
    BY <2>1, IncidentAssumption
  <2>2. CASE k # j
    BY <2>2, <1>1, WorkingIsFinite DEF Only, SlotsComeBack
  <2> QED
    BY <2>1, <2>2
<1> QED
  BY <1>4, <1>5 DEF SlotsComeBack

\* A slot is given back with its directory.
LEMMA GivesItsSlotBack ==
    ASSUME SlotsComeBack, NEW j \in Job, Only(j),
           j \in Working, job'[j].phase \notin Children,
           inUse' = inUse - 1, scratch' = scratch \ {j}, clock' = clock
    PROVE  SlotsComeBack'
<1>1. Working' = Working \ {j}
  BY DEF Working, Only, Children
<1>2. Cardinality(Working') = Cardinality(Working) - 1
  BY <1>1, WorkingIsFinite, FS_RemoveElement
<1>3. Cardinality(Working) \in Nat
  BY WorkingIsFinite, FS_CardinalityType
<1>4. inUse' = Cardinality(Working') /\ inUse' <= SlotLimit /\ scratch' = Working'
  BY <1>1, <1>2, <1>3, IncidentAssumption DEF SlotsComeBack
<1>5. \A k \in Working' : clock' <= job'[k].started + Timeout
  BY <1>1, WorkingIsFinite DEF Only, SlotsComeBack
<1> QED
  BY <1>4, <1>5 DEF SlotsComeBack

\* Between its children a proof keeps its slot and its deadline.
LEMMA KeepsItsSlot ==
    ASSUME SlotsComeBack, NEW j \in Job, Only(j),
           (j \in Working) <=> (job'[j].phase \in Children), job'[j].started = job[j].started,
           UNCHANGED <<inUse, scratch, clock>>
    PROVE  SlotsComeBack'
<1>1. Working' = Working
  BY DEF Working, Only, Children
<1>2. \A k \in Working : job'[k].started = job[k].started
  BY WorkingIsFinite DEF Only
<1> QED
  BY <1>1, <1>2 DEF SlotsComeBack

\* What is said of the proofs, and of the copies they work on.
Said == OwnPhases /\ CopyStands /\ VerdictIsEarned /\ BudgetVerdictIsTheCandidates
        /\ ElsewhereHidesNothing

\* A job that begins, or ends without a proof, says nothing.
LEMMA SaysNothing ==
    ASSUME Said, NEW j \in Job, Only(j), calls' = calls,
           job'[j].phase \notin {"count", "alone", "whole", "done"},
           job'[j].phase = "replay" => j \in PolicyJob,
           job'[j].phase = "copy" => j \in BudgetJob
    PROVE  Said'
<1>1. OwnPhases'
  BY IncidentAssumption DEF Said, OwnPhases, Only, Job
<1>2. CopyStands'
  BY DEF Said, CopyStands, StandsOnItsCopy, Only, Job
<1>3. VerdictIsEarned'
  BY DEF Said, VerdictIsEarned, Only, Job
<1>4. BudgetVerdictIsTheCandidates'
  BY DEF Said, BudgetVerdictIsTheCandidates, Only, Job
<1>5. ElsewhereHidesNothing'
  BY DEF Said, ElsewhereHidesNothing, Only, Job
<1> QED
  BY <1>1, <1>2, <1>3, <1>4, <1>5 DEF Said

LEMMA CountOfRuns == \A rs \in SUBSET Run : Cardinality(rs) \in Nat
<1>1. IsFiniteSet({"incident"}) /\ IsFiniteSet({"incident"} \cup {"other"})
  BY FS_Singleton, FS_AddElement
<1>2. Run = {"incident"} \cup {"other"}
  BY DEF Run
<1> QED
  BY <1>1, <1>2, FS_Subset, FS_CardinalityType

LEMMA NoProofIsFormed == NoProof \in Proof /\ NoReport \in Reported /\ NoDecisions \in [Run -> Decision]
BY DEF NoProof, NoReport, NoDecisions, Proof, Half, Reported, Decision, Verdict

\* A proof goes on to a phase; the rest of it stays.
Entered(j, phase) == [job EXCEPT ![j].phase = phase]

LEMMA Enters ==
    ASSUME ProofInv, NEW j \in Job, NEW phase \in Phase
    PROVE  /\ Entered(j, phase) \in [Job -> JobState]
           /\ \A k \in Job : k # j => Entered(j, phase)[k] = job[k]
           /\ Entered(j, phase)[j].phase = phase
           /\ Entered(j, phase)[j].started = job[j].started
           /\ Entered(j, phase)[j].copied = job[j].copied
<1>1. job[j] \in JobState /\ job \in [Job -> JobState]
  BY DEF ProofInv, Formed
<1> DEFINE now == [job[j] EXCEPT !.phase = phase]
<1>2. /\ now \in JobState /\ now.phase = phase /\ now.started = job[j].started
      /\ now.copied = job[j].copied
  BY <1>1 DEF JobState
<1>3. Entered(j, phase) = [job EXCEPT ![j] = now]
  BY DEF Entered
<1> HIDE DEF now
<1> QED
  BY <1>1, <1>2, <1>3

\* The end of a proof with nothing to say.
LEMMA EndsSilently ==
    ASSUME ProofInv, NEW j \in Job, j \in Working,
           NEW phase \in {"failed", "timeout", "not_in_trace", "unreadable"},
           End(j, phase, NoProof), UNCHANGED <<calls, clock>>
    PROVE  ProofInv'
<1>1. Only(j) /\ job'[j].phase = phase
  <2> DEFINE t == Entered(j, phase)
  <2>0. phase \in Phase
    BY DEF Phase
  <2>1. /\ t \in [Job -> JobState] /\ \A k \in Job : k # j => t[k] = job[k]
        /\ t[j].phase = phase
    BY <2>0, Enters
  <2>2. job' = [t EXCEPT ![j].proof = NoProof]
    BY DEF End, Entered
  <2> HIDE DEF t
  <2> QED
    BY <2>1, <2>2, NoProofIsFormed DEF Only, JobState
<1>2. SlotsComeBack'
  BY <1>1, GivesItsSlotBack DEF ProofInv, End, Children
<1>3. Said'
  BY <1>1, SaysNothing DEF ProofInv, Said
<1> QED
  BY <1>1, <1>2, <1>3 DEF ProofInv, Said, Formed, Only

LEMMA AskKeeps == ASSUME ProofInv, NEW j \in Job, NEW r \in Request, Ask(j, r) PROVE ProofInv'
<1>1. j \notin Working /\ clock \in Nat
  BY DEF Ask, Working, ProofInv, Formed
<1>2. CASE Refusal(j, r) \/ inUse >= SlotLimit
  <2> DEFINE phase == IF Refusal(j, r) THEN "refused" ELSE "busy"
  <2>0. phase \in {"refused", "busy"} /\ job' = [job EXCEPT ![j].phase = phase]
    BY <1>2 DEF Ask
  <2> HIDE DEF phase
  <2>1. Only(j) /\ job'[j].phase \in {"refused", "busy"} /\ job'[j].started = job[j].started
    <3>1. phase \in Phase /\ job' = Entered(j, phase)
      BY <2>0 DEF Phase, Entered
    <3>2. Only(j) /\ job'[j].phase = phase /\ job'[j].started = job[j].started
      BY <3>1, Enters DEF Only
    <3> QED
      BY <2>0, <3>2
  <2>2. SlotsComeBack'
    BY <1>1, <1>2, <2>1, KeepsItsSlot DEF ProofInv, Ask, Children
  <2>3. Said'
    BY <2>1, SaysNothing DEF ProofInv, Said, Ask
  <2> QED
    BY <2>1, <2>2, <2>3 DEF ProofInv, Said, Formed, Only, Ask
<1>3. CASE ~(Refusal(j, r) \/ inUse >= SlotLimit)
  <2> DEFINE phase == IF j \in PolicyJob THEN "replay" ELSE "copy"
  <2>0. /\ phase \in {"replay", "copy"}
        /\ job' = [job EXCEPT ![j].phase = phase, ![j].started = clock,
                              ![j].limits = IF j \in PolicyJob THEN @ ELSE r.limits]
    BY <1>3 DEF Ask
  <2>a. phase = IF j \in PolicyJob THEN "replay" ELSE "copy"
    OBVIOUS
  <2> HIDE DEF phase
  <2>b. /\ Only(j) /\ job'[j].started = clock
        /\ job'[j].phase = phase
    <3> DEFINE t == Entered(j, phase)
    <3>0. phase \in Phase
      BY <2>0 DEF Phase, Children
    <3>1. /\ t \in [Job -> JobState] /\ \A k \in Job : k # j => t[k] = job[k]
          /\ t[j].phase = phase
      BY <3>0, Enters
    <3> DEFINE limits == IF j \in PolicyJob THEN t[j].limits ELSE r.limits
               u == [t EXCEPT ![j].started = clock]
    <3>2. job' = [u EXCEPT ![j].limits = limits]
      BY <2>0, <3>1 DEF Entered
    <3>3. limits \in Limits
      BY <3>1 DEF Request, JobState
    <3> HIDE DEF t, limits
    <3>4. /\ u \in [Job -> JobState] /\ \A k \in Job : k # j => u[k] = job[k]
          /\ u[j].phase = phase /\ u[j].started = clock
      BY <1>1, <3>1 DEF JobState
    <3> HIDE DEF u
    <3> QED
      BY <3>2, <3>3, <3>4 DEF Only, JobState
  <2>1. /\ Only(j) /\ job'[j].started = clock
        /\ job'[j].phase = IF j \in PolicyJob THEN "replay" ELSE "copy"
    BY <2>a, <2>b
  <2>2. inUse < SlotLimit
    <3>1. inUse \in Nat
      BY WorkingIsFinite, FS_CardinalityType DEF ProofInv, SlotsComeBack
    <3> QED
      BY <1>3, <3>1, IncidentAssumption
  <2>3. SlotsComeBack'
    BY <1>1, <1>3, <2>1, <2>2, TakesASlot DEF ProofInv, Ask, Children
  <2>4. Said'
    BY <2>1, SaysNothing DEF ProofInv, Said, Ask, Job
  <2> QED
    BY <2>1, <2>3, <2>4 DEF ProofInv, Said, Formed, Only, Ask
<1> QED
  BY <1>2, <1>3

LEMMA PolicyJudgedKeeps ==
    ASSUME ProofInv, NEW j \in PolicyJob, NEW ds \in Replayed, PolicyJudged(j, ds)
    PROVE  ProofInv'
<1> j \in Job
  BY DEF Job
<1> DEFINE elsewhere == Others(Cardinality(Changed(ds) \ {"incident"}))
           proof == [stops |-> Judge(ds), exact |-> TRUE, elsewhere |-> elsewhere]
<1>1. Cardinality(Changed(ds) \ {"incident"}) \in Nat
  <2>1. Changed(ds) \ {"incident"} \subseteq Run
    BY DEF Changed, Replayable
  <2> QED
    BY <2>1, CountOfRuns
<1>2. elsewhere \in Half
  <2> DEFINE n == Cardinality(Changed(ds) \ {"incident"})
  <2>1. elsewhere = [runs |-> 1, affected |-> n, calls |-> 0, blocked |-> 0, saved |-> 0]
    BY DEF Others
  <2>2. n \in Nat
    BY <1>1
  <2> HIDE DEF n, elsewhere
  <2> QED
    BY <2>1, <2>2 DEF Half
<1> HIDE DEF elsewhere
<1>3. proof \in Proof
  BY <1>2 DEF Proof, Judge
<1>4. ds \in [Run -> Decision]
  BY DEF Replayed, Decision
<1>5. job' = [job EXCEPT ![j].phase = "done", ![j].decisions = ds, ![j].proof = proof]
  BY DEF PolicyJudged, elsewhere
<1>6. proof.stops = Judge(ds)
  OBVIOUS
<1> HIDE DEF proof
<1>7. /\ Only(j) /\ job'[j].phase = "done" /\ job'[j].decisions = ds
      /\ job'[j].proof.stops = Judge(ds)
  <2> DEFINE u == Entered(j, "done")
             t == [u EXCEPT ![j].decisions = ds]
  <2>0. /\ u \in [Job -> JobState] /\ \A k \in Job : k # j => u[k] = job[k]
        /\ u[j].phase = "done"
    <3>1. "done" \in Phase
      BY DEF Phase
    <3> QED
      BY <3>1, Enters
  <2>2. job' = [t EXCEPT ![j].proof = proof]
    BY <1>5 DEF Entered
  <2> HIDE DEF u
  <2>1. /\ t \in [Job -> JobState] /\ \A k \in Job : k # j => t[k] = job[k]
        /\ t[j].phase = "done" /\ t[j].decisions = ds
    BY <1>4, <2>0 DEF JobState
  <2> HIDE DEF t
  <2> QED
    BY <1>3, <1>6, <2>1, <2>2 DEF Only, JobState
<1>8. j \in Working /\ calls' = calls /\ j \notin BudgetJob
  BY IncidentAssumption DEF PolicyJudged, Working
<1>9. SlotsComeBack'
  BY <1>7, <1>8, GivesItsSlotBack DEF ProofInv, PolicyJudged, Children
<1>10. VerdictIsEarned'
  <2> SUFFICES ASSUME NEW k \in PolicyJob, job'[k].phase = "done"
               PROVE  LET es == job'[k].decisions
                      IN  /\ job'[k].proof.stops = "yes" => Stops(es) /\ Trustworthy(es)
                          /\ job'[k].proof.stops = "no" =>
                                Replayable(es) # {} /\ Trustworthy(es) /\ ~Stops(es)
    BY DEF VerdictIsEarned
  <2>1. CASE k = j
    BY <2>1, <1>7 DEF Judge
  <2>2. CASE k # j
    <3>1. job'[k] = job[k]
      BY <2>2, <1>7 DEF Only, Job
    <3> QED
      BY <3>1 DEF ProofInv, VerdictIsEarned
  <2> QED
    BY <2>1, <2>2
<1>11. \A k \in BudgetJob : job'[k] = job[k]
  BY <1>7, <1>8 DEF Only, Job
<1>12. OwnPhases' /\ CopyStands' /\ BudgetVerdictIsTheCandidates' /\ ElsewhereHidesNothing'
  <2>1. OwnPhases'
    BY <1>7, <1>11 DEF ProofInv, OwnPhases, Only, Job
  <2>2. CopyStands'
    BY <1>8, <1>11 DEF ProofInv, CopyStands
  <2>3. BudgetVerdictIsTheCandidates' /\ ElsewhereHidesNothing'
    BY <1>11 DEF ProofInv, BudgetVerdictIsTheCandidates, ElsewhereHidesNothing
  <2> QED
    BY <2>1, <2>2, <2>3
<1> QED
  BY <1>7, <1>9, <1>10, <1>12 DEF ProofInv, Formed, Only, PolicyJudged

\* The steps of tied calls are fewer than the calls.
LEMMA TiesAreSeen == ASSUME NEW t \in Trace, Tied(t) PROVE FewerSteps(t)
<1> DEFINE at == [i \in DOMAIN t |-> t[i].step]
           steps == {t[i].step : i \in DOMAIN t}
<1>1. t \in Seq(Call) /\ Len(t) \in Nat /\ DOMAIN t = 1..Len(t)
  BY IncidentAssumption
<1>2. at \in Surjection(1..Len(t), steps)
  BY <1>1 DEF Surjection
<1>a. at \notin Injection(1..Len(t), steps)
  <2>1. PICK i \in DOMAIN t, k \in DOMAIN t : i # k /\ t[i].step = t[k].step
    BY DEF Tied
  <2>2. at[i] = at[k] /\ i \in DOMAIN at /\ k \in DOMAIN at
    BY <2>1
  <2> QED
    BY <2>1, <2>2 DEF Injection, IsInjective
<1>3. IsFiniteSet(1..Len(t)) /\ Cardinality(1..Len(t)) = Len(t)
  BY <1>1, FS_Interval
<1> HIDE DEF at
<1>4. IsFiniteSet(steps) /\ Cardinality(steps) <= Len(t) /\ Cardinality(steps) # Len(t)
  BY <1>2, <1>a, <1>3, FS_Surjection
<1>5. Cardinality(steps) \in Nat
  BY <1>4, FS_CardinalityType
<1> QED
  BY <1>1, <1>4, <1>5 DEF FewerSteps

\* What a replay of a run is, and what it is of a run without calls.
LEMMA ReplayIs ==
    ASSUME NEW c \in Limits, NEW t \in Trace, NEW o \in Replays(c, t)
    PROVE  /\ o.blocked \in Nat /\ o.saved \in Nat
           /\ t = <<>> => o.blocked = 0 /\ o.saved = 0
<1>1. /\ o.blocked \in 0..Len(t) /\ o.saved \in Nat
      /\ o.saved > 0 => o.blocked > 0
      /\ Len(t) \in Nat
  BY IncidentAssumption
<1> QED
  BY <1>1

\* What a report over a trace says.
LEMMA BacktestIs ==
    ASSUME NEW c \in Limits, NEW of \in [Run -> Trace], NEW o \in Outcomes(c, of)
    PROVE  LET i == o["incident"]
               k == o["other"]
           IN  /\ Backtest(of, o) \in Reported
               /\ i \in Replays(c, of["incident"]) /\ k \in Replays(c, of["other"])
               /\ Backtest(of, o).blocked = i.blocked + k.blocked
               /\ Backtest(of, o).saved = i.saved + k.saved
               /\ Backtest(of, o).affected = (IF i.blocked > 0 THEN 1 ELSE 0)
                                              + (IF k.blocked > 0 THEN 1 ELSE 0)
<1> DEFINE i == o["incident"]
           k == o["other"]
<1>1. "incident" \in Run /\ "other" \in Run /\ Run = {"incident", "other"}
  BY DEF Run
<1>2. i \in Replays(c, of["incident"]) /\ k \in Replays(c, of["other"])
  BY <1>1 DEF Outcomes
<1>3. of["incident"] \in Trace /\ of["other"] \in Trace
  BY <1>1
<1>4. /\ i.blocked \in Nat /\ i.saved \in Nat
      /\ k.blocked \in Nat /\ k.saved \in Nat
  BY <1>2, <1>3, ReplayIs
<1>5. Len(of["incident"]) \in Nat /\ Len(of["other"]) \in Nat
  BY <1>3, IncidentAssumption
<1> DEFINE report == Backtest(of, o)
<1>6. /\ report = [runs |-> report.runs, affected |-> report.affected, calls |-> report.calls,
                   blocked |-> report.blocked, saved |-> report.saved]
      /\ report.runs = (IF of["incident"] # <<>> THEN 1 ELSE 0)
                       + (IF of["other"] # <<>> THEN 1 ELSE 0)
      /\ report.affected = (IF i.blocked > 0 THEN 1 ELSE 0) + (IF k.blocked > 0 THEN 1 ELSE 0)
      /\ report.calls = Len(of["incident"]) + Len(of["other"])
      /\ report.blocked = i.blocked + k.blocked
      /\ report.saved = i.saved + k.saved
  BY <1>1 DEF Backtest, Number, Both
<1> HIDE DEF report, i, k
<1>7. report \in Reported
  <2>1. /\ report.runs \in Nat /\ report.affected \in Nat /\ report.calls \in Nat
        /\ report.blocked \in Nat /\ report.saved \in Nat
    <3>1. report.calls \in Nat
      <4> DEFINE m == Len(of["incident"])
                 n == Len(of["other"])
      <4>1. m \in Nat /\ n \in Nat /\ report.calls = m + n
        BY <1>5, <1>6
      <4> HIDE DEF m, n
      <4> QED
        BY <4>1
    <3>2. report.blocked \in Nat /\ report.saved \in Nat
      BY <1>4, <1>6
    <3>3. report.runs \in Nat
      BY <1>6
    <3>4. report.affected \in Nat
      BY <1>6
    <3> QED
      BY <3>1, <3>2, <3>3, <3>4
  <2> QED
    BY <1>6, <2>1 DEF Reported
<1> QED
  BY <1>2, <1>6, <1>7 DEF report, i, k

\* A budget proof that goes on from a copy.
LEMMA WorksOnItsCopy ==
    ASSUME Said, NEW j \in BudgetJob, Only(j), calls' = calls,
           job'[j].phase \in {"count", "alone", "whole"},
           StandsOnItsCopy(job'[j], calls["incident"])
    PROVE  Said'
<1>1. OwnPhases'
  BY IncidentAssumption DEF Said, OwnPhases, Only, Job
<1>2. CopyStands'
  <2> SUFFICES ASSUME NEW k \in BudgetJob
               PROVE  StandsOnItsCopy(job'[k], calls["incident"])
    BY DEF CopyStands
  <2>1. CASE k = j
    BY <2>1
  <2>2. CASE k # j
    BY <2>2 DEF Said, CopyStands, Only, Job
  <2> QED
    BY <2>1, <2>2
<1>3. VerdictIsEarned'
  BY IncidentAssumption DEF Said, VerdictIsEarned, Only, Job
<1>4. BudgetVerdictIsTheCandidates'
  BY DEF Said, BudgetVerdictIsTheCandidates, Only, Job
<1>5. ElsewhereHidesNothing'
  BY DEF Said, ElsewhereHidesNothing, Only, Job
<1> QED
  BY <1>1, <1>2, <1>3, <1>4, <1>5 DEF Said

LEMMA CopyKeeps == ASSUME ProofInv, NEW j \in BudgetJob, Copy(j) PROVE ProofInv'
<1> j \in Job
  BY DEF Job
<1>1. j \in Working /\ clock \in Nat
  BY DEF Copy, Working, ProofInv, Formed
<1>2. CASE calls["incident"] = <<>>
  BY <1>1, <1>2, EndsSilently DEF Copy
<1>3. CASE calls["incident"] # <<>>
  <2> DEFINE n == calls["incident"]
  <2>1. n \in Trace /\ GoesOn(n, n)
    <3>1. n \in Trace
      BY DEF ProofInv, Formed, Run
    <3>2. n \in Seq(Call)
      BY <3>1, IncidentAssumption
    <3> QED
      BY <3>1, <3>2 DEF GoesOn
  <2>a. job' = [job EXCEPT ![j].phase = "count", ![j].copied = n]
    BY <1>3 DEF Copy
  <2>b. n = calls["incident"]
    OBVIOUS
  <2> HIDE DEF n
  <2>2. /\ Only(j) /\ job'[j].phase = "count" /\ job'[j].copied = n
        /\ job'[j].started = job[j].started
    <3> DEFINE t == Entered(j, "count")
    <3>0. "count" \in Phase
      BY DEF Phase, Children
    <3>1. /\ t \in [Job -> JobState] /\ \A k \in Job : k # j => t[k] = job[k]
          /\ t[j].phase = "count" /\ t[j].started = job[j].started
      BY <3>0, Enters
    <3>2. job' = [t EXCEPT ![j].copied = n]
      BY <2>a DEF Entered
    <3> HIDE DEF t
    <3> QED
      BY <2>1, <3>1, <3>2 DEF Only, JobState
  <2>3. SlotsComeBack'
    BY <1>1, <1>3, <2>2, KeepsItsSlot DEF ProofInv, Copy, Children
  <2>4. StandsOnItsCopy(job'[j], calls["incident"])
    BY <2>1, <2>2, <2>b DEF StandsOnItsCopy
  <2>5. Said'
    BY <2>2, <2>4, WorksOnItsCopy DEF ProofInv, Said, Copy
  <2> QED
    BY <2>2, <2>3, <2>5 DEF ProofInv, Said, Formed, Only, Copy
<1> QED
  BY <1>2, <1>3

LEMMA CountKeeps == ASSUME ProofInv, NEW j \in BudgetJob, Count(j) PROVE ProofInv'
<1> j \in Job
  BY DEF Job
<1>1. j \in Working
  BY DEF Count, Working
<1> DEFINE tied == FewerSteps(job[j].copied)
<1>2. job' = [job EXCEPT ![j].phase = "alone", ![j].tied = tied] /\ tied \in BOOLEAN
  BY DEF Count, FewerSteps
<1> HIDE DEF tied
<1>3. /\ Only(j) /\ job'[j].phase = "alone" /\ job'[j].copied = job[j].copied
      /\ job'[j].started = job[j].started /\ job'[j].tied = tied
  <2> DEFINE t == Entered(j, "alone")
  <2>0. "alone" \in Phase
    BY DEF Phase, Children
  <2>1. /\ t \in [Job -> JobState] /\ \A k \in Job : k # j => t[k] = job[k]
        /\ t[j].phase = "alone" /\ t[j].copied = job[j].copied /\ t[j].started = job[j].started
    BY <2>0, Enters
  <2>2. job' = [t EXCEPT ![j].tied = tied]
    BY <1>2 DEF Entered
  <2> HIDE DEF t
  <2>3. tied \in BOOLEAN
    BY <1>2
  <2>4. t[j] \in JobState
    BY <2>1
  <2> DEFINE now == [t[j] EXCEPT !.tied = tied]
  <2>5. /\ now \in JobState /\ now.phase = t[j].phase /\ now.copied = t[j].copied
        /\ now.started = t[j].started
    BY <2>3, <2>4 DEF JobState
  <2>6. now.tied = tied
    BY <2>4 DEF JobState
  <2>7. job' = [t EXCEPT ![j] = now]
    BY <2>2
  <2> HIDE DEF now
  <2>8. Only(j) /\ job'[j] = now
    BY <2>1, <2>5, <2>7 DEF Only
  <2> QED
    BY <2>1, <2>5, <2>6, <2>8
<1>4. StandsOnItsCopy(job'[j], calls["incident"])
  <2>1. GoesOn(job[j].copied, calls["incident"])
    BY DEF ProofInv, CopyStands, StandsOnItsCopy, Count
  <2> QED
    BY <1>3, <2>1 DEF StandsOnItsCopy, tied
<1>5. SlotsComeBack'
  BY <1>1, <1>3, KeepsItsSlot DEF ProofInv, Count, Children
<1>6. Said'
  BY <1>3, <1>4, WorksOnItsCopy DEF ProofInv, Said, Count
<1> QED
  BY <1>3, <1>5, <1>6 DEF ProofInv, Said, Formed, Only, Count

LEMMA AloneKeeps ==
    ASSUME ProofInv, NEW j \in BudgetJob, NEW dropped \in BOOLEAN, Alone(j, dropped)
    PROVE  ProofInv'
<1> j \in Job
  BY DEF Job
<1>1. j \in Working
  BY DEF Alone, Working
<1>2. CASE dropped
  BY <1>1, <1>2, EndsSilently DEF Alone, Takes
<1>3. CASE ~dropped
  <2> DEFINE of == [r \in Run |-> IF r = "incident" THEN job[j].copied ELSE <<>>]
             c == job[j].limits
  <2>1. /\ job[j].copied \in Trace /\ c \in Limits /\ job[j].phase = "alone"
        /\ GoesOn(job[j].copied, calls["incident"])
        /\ job[j].tied = FewerSteps(job[j].copied)
    BY DEF ProofInv, Formed, JobState, CopyStands, StandsOnItsCopy, Alone
  <2>2. of \in [Run -> Trace] /\ of["incident"] = job[j].copied /\ of["other"] = <<>>
    BY <2>1, IncidentAssumption DEF Run
  <2>3. PICK o \in Outcomes(c, of) :
            job' = [job EXCEPT ![j].phase = "whole", ![j].alone = Backtest(of, o)]
    BY <1>3 DEF Alone, Takes, Reports
  <2> DEFINE report == Backtest(of, o)
             i == o["incident"]
             k == o["other"]
  <2> HIDE DEF of
  <2>4. /\ report \in Reported
        /\ i \in Replays(c, job[j].copied) /\ k \in Replays(c, <<>>)
        /\ report.blocked = i.blocked + k.blocked
        /\ report.saved = i.saved + k.saved
        /\ report.affected = (IF i.blocked > 0 THEN 1 ELSE 0) + (IF k.blocked > 0 THEN 1 ELSE 0)
    BY <2>1, <2>2, BacktestIs
  <2> HIDE DEF report, i, k
  <2>5. SaysOf(report, i)
    <3>1. /\ i.blocked \in Nat /\ i.saved \in Nat
          /\ k.blocked = 0 /\ k.saved = 0
      BY <2>1, <2>4, ReplayIs, IncidentAssumption
    <3> QED
      BY <2>4, <3>1 DEF SaysOf
  <2>6. /\ Only(j) /\ job'[j].phase = "whole" /\ job'[j].alone = report
        /\ job'[j].copied = job[j].copied /\ job'[j].started = job[j].started
        /\ job'[j].limits = c /\ job'[j].tied = job[j].tied
    <3> DEFINE t == Entered(j, "whole")
    <3>0. "whole" \in Phase
      BY DEF Phase, Children
    <3>1. /\ t \in [Job -> JobState] /\ \A m \in Job : m # j => t[m] = job[m]
          /\ t[j].phase = "whole" /\ t[j].started = job[j].started
          /\ t[j].copied = job[j].copied
      BY <3>0, Enters
    <3>a. t[j].limits = c /\ t[j].tied = job[j].tied
      BY DEF Entered, ProofInv, Formed, JobState
    <3>2. job' = [t EXCEPT ![j].alone = report]
      BY <2>3 DEF Entered, report
    <3> HIDE DEF t
    <3> QED
      BY <2>4, <3>1, <3>a, <3>2 DEF Only, JobState
  <2>7. SlotsComeBack'
    BY <1>1, <1>3, <2>6, KeepsItsSlot DEF ProofInv, Alone, Takes, Children
  <2>8. StandsOnItsCopy(job'[j], calls["incident"])
    <3>1. AloneIsOf(job'[j])
      BY <2>4, <2>5, <2>6 DEF AloneIsOf
    <3> QED
      BY <2>1, <2>6, <3>1 DEF StandsOnItsCopy
  <2>9. Said'
    BY <2>6, <2>8, WorksOnItsCopy DEF ProofInv, Said, Alone
  <2> QED
    BY <2>6, <2>7, <2>9 DEF ProofInv, Said, Formed, Only, Alone
<1> QED
  BY <1>2, <1>3

\* The last child's report is of the trace as it is now, which holds what was copied.
LEMMA BudgetJudgedKeeps ==
    ASSUME ProofInv, NEW j \in BudgetJob, NEW dropped \in BOOLEAN, BudgetJudged(j, dropped)
    PROVE  ProofInv'
<1> j \in Job
  BY DEF Job
<1> DEFINE c == job[j].limits
           alone == job[j].alone
<1>1. j \in Working /\ calls' = calls /\ job[j].phase = "whole" /\ clock' = clock
  BY DEF BudgetJudged, Working
<1>2. PICK o \in Outcomes(c, calls) : job' = Judged(j, dropped, Reports(dropped, calls, o))
  BY DEF BudgetJudged, Whole
<1> DEFINE whole == Reports(dropped, calls, o)
<1>3. CASE ~(Takes(dropped) /\ Fit(j, whole))
  <2>1. job' = [job EXCEPT ![j].phase = "unreadable"]
    BY <1>2, <1>3 DEF Judged
  <2>2. Only(j) /\ job'[j].phase = "unreadable"
    <3>1. "unreadable" \in Phase /\ job' = Entered(j, "unreadable")
      BY <2>1 DEF Phase, Entered
    <3> QED
      BY <3>1, Enters DEF Only
  <2>3. SlotsComeBack'
    BY <1>1, <2>2, GivesItsSlotBack DEF ProofInv, BudgetJudged, Children
  <2>4. Said'
    BY <1>1, <2>2, SaysNothing DEF ProofInv, Said
  <2> QED
    BY <1>1, <2>2, <2>3, <2>4 DEF ProofInv, Said, Formed, Only
<1>4. CASE Takes(dropped) /\ Fit(j, whole)
  <2> DEFINE halts == IF alone.blocked > 0 THEN "yes" ELSE "no"
             elsewhere == Less(whole, alone)
             exact == ~job[j].tied
             proof == [stops |-> halts, elsewhere |-> elsewhere, exact |-> exact]
             i == o["incident"]
             k == o["other"]
  <2>1. /\ calls \in [Run -> Trace] /\ calls["incident"] \in Trace /\ calls["other"] \in Trace
        /\ job[j] \in JobState /\ alone \in Reported /\ job[j].copied \in Trace /\ c \in Limits
        /\ GoesOn(job[j].copied, calls["incident"]) /\ job[j].tied \in BOOLEAN
        /\ job[j].tied = FewerSteps(job[j].copied) /\ AloneIsOf(job[j])
    BY <1>1 DEF ProofInv, Formed, Run, CopyStands, StandsOnItsCopy, JobState
  <2>2. /\ whole \in Reported
        /\ i \in Replays(c, calls["incident"]) /\ k \in Replays(c, calls["other"])
        /\ whole.blocked = i.blocked + k.blocked
        /\ whole.saved = i.saved + k.saved
        /\ whole.affected = (IF i.blocked > 0 THEN 1 ELSE 0) + (IF k.blocked > 0 THEN 1 ELSE 0)
    BY <1>4, <2>1, BacktestIs DEF Reports, Takes
  <2>3. PICK first \in Replays(c, job[j].copied) : SaysOf(alone, first)
    BY <2>1 DEF AloneIsOf
  <2>5. job' = [job EXCEPT ![j].phase = "done", ![j].at = calls, ![j].proof = proof]
    BY <1>2, <1>4 DEF Judged
  <2> HIDE DEF whole, i, k
  <2>4. /\ elsewhere \in Half
        /\ DOMAIN elsewhere = {"runs", "affected", "calls", "blocked", "saved"}
        /\ elsewhere.runs = whole.runs - alone.runs
        /\ elsewhere.affected = whole.affected - alone.affected
        /\ elsewhere.calls = whole.calls - alone.calls
        /\ elsewhere.blocked = whole.blocked - alone.blocked
        /\ elsewhere.saved = whole.saved - alone.saved
    <3> HIDE DEF alone
    <3>1. DOMAIN whole = {"runs", "affected", "calls", "blocked", "saved"}
      BY <2>2 DEF Reported
    <3>2. elsewhere = [f \in {"runs", "affected", "calls", "blocked", "saved"} |->
                           whole[f] - alone[f]]
      BY <3>1 DEF Less
    <3>3. /\ whole.runs \in Nat /\ whole.affected \in Nat /\ whole.calls \in Nat
          /\ whole.blocked \in Nat /\ whole.saved \in Nat
          /\ alone.runs \in Nat /\ alone.affected \in Nat
          /\ alone.calls \in Nat /\ alone.blocked \in Nat /\ alone.saved \in Nat
      BY <2>1, <2>2 DEF Reported
    <3> HIDE DEF elsewhere
    <3> QED
      BY <3>2, <3>3 DEF Half
  <2> HIDE DEF elsewhere
  <2>6. exact \in BOOLEAN /\ (exact <=> ~job[j].tied)
    BY <2>1
  <2>7. halts \in {"yes", "no"} /\ (halts = "yes" <=> alone.blocked > 0)
    OBVIOUS
  <2> HIDE DEF halts, exact
  <2>8. /\ proof \in Proof /\ proof.stops = halts /\ proof.elsewhere = elsewhere
        /\ proof.exact = exact
    BY <2>4, <2>6, <2>7 DEF Proof
  <2> HIDE DEF proof
  <2>9. /\ Only(j) /\ job'[j].phase = "done" /\ job'[j].at = calls /\ job'[j].proof = proof
        /\ job'[j].copied = job[j].copied /\ job'[j].limits = c
    <3> DEFINE u == Entered(j, "done")
               t == [u EXCEPT ![j].at = calls]
    <3>0. "done" \in Phase
      BY DEF Phase
    <3>1. /\ u \in [Job -> JobState] /\ \A m \in Job : m # j => u[m] = job[m]
          /\ u[j].phase = "done" /\ u[j].copied = job[j].copied
      BY <3>0, Enters
    <3>2. u[j].limits = c
      BY DEF Entered, ProofInv, Formed, JobState
    <3>3. job' = [t EXCEPT ![j].proof = proof]
      BY <2>5 DEF Entered
    <3> HIDE DEF u
    <3>4. /\ t \in [Job -> JobState] /\ \A m \in Job : m # j => t[m] = job[m]
          /\ t[j].phase = "done" /\ t[j].at = calls /\ t[j].copied = job[j].copied
          /\ t[j].limits = c
      BY <2>1, <3>1, <3>2 DEF JobState
    <3> HIDE DEF t
    <3> QED
      BY <2>8, <3>3, <3>4 DEF Only, JobState
  <2>10. SlotsComeBack'
    BY <1>1, <2>9, GivesItsSlotBack DEF ProofInv, BudgetJudged, Children
  <2>11. OwnPhases' /\ CopyStands' /\ VerdictIsEarned'
    <3>1. j \notin PolicyJob
      BY IncidentAssumption
    <3>2. StandsOnItsCopy(job'[j], calls["incident"])
      BY <2>9 DEF StandsOnItsCopy
    <3>3. CopyStands'
      <4> SUFFICES ASSUME NEW m \in BudgetJob PROVE StandsOnItsCopy(job'[m], calls["incident"])
        BY <1>1 DEF CopyStands
      <4> QED
        BY <2>9, <3>2 DEF ProofInv, CopyStands, Only, Job
    <3> QED
      BY <1>1, <2>9, <3>1, <3>3 DEF ProofInv, OwnPhases, VerdictIsEarned, Only, Job
  <2>12. BudgetVerdictIsTheCandidates'
    <3>1. ASSUME NEW u \in Replays(c, job[j].copied)
          PROVE  (proof.stops = "yes") <=> (u.blocked > 0)
      <4>1. u.blocked > 0 <=> first.blocked > 0
        BY <2>1, <2>3, IncidentAssumption
      <4> QED
        BY <2>3, <2>7, <2>8, <4>1 DEF SaysOf
    <3>2. \A m \in BudgetJob : m # j => job'[m] = job[m]
      BY <2>9 DEF Only, Job
    <3> QED
      BY <2>9, <3>1, <3>2 DEF ProofInv, BudgetVerdictIsTheCandidates
  <2>13. ElsewhereHidesNothing'
    <3>1. \A f \in DOMAIN elsewhere \ {"saved"} : elsewhere[f] >= 0
      <4>1. /\ whole.runs \in Nat /\ whole.affected \in Nat /\ whole.calls \in Nat
            /\ whole.blocked \in Nat /\ alone.runs \in Nat /\ alone.affected \in Nat
            /\ alone.calls \in Nat /\ alone.blocked \in Nat
        BY <2>1, <2>2 DEF Reported
      <4>2. /\ whole.runs >= alone.runs /\ whole.calls >= alone.calls
            /\ whole.affected >= alone.affected /\ whole.blocked >= alone.blocked
        BY <1>4, <4>1 DEF Fit
      <4> HIDE DEF alone
      <4>3. /\ elsewhere.runs >= 0 /\ elsewhere.affected >= 0 /\ elsewhere.calls >= 0
            /\ elsewhere.blocked >= 0
        BY <4>1, <4>2, <2>4
      <4> QED
        BY <2>4, <4>3
    <3>2. ASSUME exact
          PROVE  /\ elsewhere.blocked >= k.blocked /\ elsewhere.saved >= k.saved
                 /\ k.blocked > 0 => elsewhere.affected > 0
      <4>1. ~Tied(job[j].copied)
        BY <2>1, <2>6, <3>2, TiesAreSeen
      <4>2. first.blocked <= i.blocked /\ first.saved <= i.saved
        BY <2>1, <2>2, <2>3, <4>1, IncidentAssumption
      <4>3. /\ first.blocked \in Nat /\ first.saved \in Nat
            /\ i.blocked \in Nat /\ i.saved \in Nat
            /\ k.blocked \in Nat /\ k.saved \in Nat
        BY <2>1, <2>2, <2>3, ReplayIs
      <4>4. /\ alone.blocked = first.blocked /\ alone.saved = first.saved
            /\ alone.affected = IF first.blocked > 0 THEN 1 ELSE 0
        BY <2>3 DEF SaysOf
      <4> HIDE DEF alone
      <4> QED
        BY <2>2, <2>4, <4>2, <4>3, <4>4
    <3>3. \A m \in BudgetJob : m # j => job'[m] = job[m]
      BY <2>9 DEF Only, Job
    <3>4. LET e == proof.elsewhere
          IN  /\ \A f \in DOMAIN e \ {"saved"} : e[f] >= 0
              /\ proof.exact => \E u \in Replays(c, calls["other"]) :
                                   /\ e.blocked >= u.blocked /\ e.saved >= u.saved
                                   /\ u.blocked > 0 => e.affected > 0
      BY <2>2, <2>8, <3>1, <3>2
    <3> QED
      BY <2>9, <3>3, <3>4 DEF ProofInv, ElsewhereHidesNothing
  <2> QED
    BY <1>1, <2>9, <2>10, <2>11, <2>12, <2>13 DEF ProofInv, Formed, Only
<1> QED
  BY <1>3, <1>4

\* The gateway only adds calls: a copy stays the beginning of what it has.
LEMMA RecordKeeps == ASSUME ProofInv, NEW r \in Run, Record(r) PROVE ProofInv'
<1>1. PICK t \in Trace : GoesOn(calls[r], t) /\ calls' = [calls EXCEPT ![r] = t]
  BY DEF Record
<1>2. calls' \in [Run -> Trace]
  BY <1>1 DEF ProofInv, Formed
<1>3. CopyStands'
  <2>1. ASSUME NEW s \in Trace, GoesOn(s, calls["incident"])
        PROVE  GoesOn(s, calls'["incident"])
    <3>1. calls["incident"] \in Trace
      BY DEF ProofInv, Formed, Run
    <3>2. /\ Len(s) \in Nat /\ Len(calls["incident"]) \in Nat /\ Len(t) \in Nat
      BY <3>1, IncidentAssumption
    <3>3. CASE r = "incident"
      <4>1. calls'["incident"] = t
        BY <1>1, <3>3 DEF ProofInv, Formed
      <4> QED
        BY <1>1, <2>1, <3>2, <3>3, <4>1 DEF GoesOn
    <3>4. CASE r # "incident"
      BY <1>1, <2>1, <3>4 DEF ProofInv, Formed, Run
    <3> QED
      BY <3>3, <3>4
  <2>2. job' = job /\ \A j \in BudgetJob : job[j].copied \in Trace
    BY DEF ProofInv, Formed, JobState, Job, Record
  <2> QED
    BY <2>1, <2>2 DEF ProofInv, CopyStands, StandsOnItsCopy
<1>4. SlotsComeBack' /\ OwnPhases' /\ VerdictIsEarned' /\ BudgetVerdictIsTheCandidates'
      /\ ElsewhereHidesNothing'
  BY DEF ProofInv, Record, SlotsComeBack, Working, OwnPhases, VerdictIsEarned,
         BudgetVerdictIsTheCandidates, ElsewhereHidesNothing
<1> QED
  BY <1>2, <1>3, <1>4 DEF ProofInv, Formed, Record

LEMMA TickKeeps == ASSUME ProofInv, Tick PROVE ProofInv'
<1>1. Working' = Working
  BY DEF Tick, Working
<1>2. SlotsComeBack'
  <2>1. \A j \in Working : job[j].started \in Nat
    BY WorkingIsFinite DEF ProofInv, Formed, JobState
  <2> QED
    BY <1>1, <2>1, IncidentAssumption DEF ProofInv, Formed, Tick, SlotsComeBack, Deadline
<1>3. OwnPhases' /\ CopyStands' /\ VerdictIsEarned' /\ BudgetVerdictIsTheCandidates'
      /\ ElsewhereHidesNothing'
  BY DEF ProofInv, Tick, OwnPhases, CopyStands, VerdictIsEarned,
         BudgetVerdictIsTheCandidates, ElsewhereHidesNothing
<1> QED
  BY <1>2, <1>3 DEF ProofInv, Formed, Tick

\* Whatever is asked, however many proofs run and however the gateway records meanwhile, every
\* slot and directory comes back by the deadline, a policy verdict is one the replay stood
\* behind, a budget verdict is the candidate's in any order of load, and a budget proof that is
\* not marked approximate hides nothing the candidate does to the other runs: for any jobs,
\* slots, deadlines, candidates and traces, and any replay that blocks of a run without ties
\* what it blocked of its beginning (proof/mod.rs, proof/budget.rs).
THEOREM ProofsAreEarnedHolds == ProofSpec => []ProofsAreEarned
<1>1. ProofInit => ProofInv
  <2> SUFFICES ASSUME ProofInit PROVE ProofInv
    OBVIOUS
  <2>1. \A j \in Job : job[j] = Idle
    BY DEF ProofInit
  <2>2. Idle \in JobState /\ Idle.phase = "idle"
    BY NoProofIsFormed, IncidentAssumption DEF Idle, JobState, Phase
  <2>3. Formed
    BY <2>1, <2>2 DEF ProofInit, Formed, Run
  <2>4. Working = {}
    BY <2>1, <2>2 DEF Working
  <2>5. SlotsComeBack
    BY <2>4, FS_EmptySet, IncidentAssumption DEF SlotsComeBack, ProofInit
  <2>6. OwnPhases /\ CopyStands /\ VerdictIsEarned /\ BudgetVerdictIsTheCandidates
        /\ ElsewhereHidesNothing
    BY <2>1, <2>2 DEF OwnPhases, CopyStands, StandsOnItsCopy, VerdictIsEarned,
                      BudgetVerdictIsTheCandidates, ElsewhereHidesNothing, Job
  <2> QED
    BY <2>3, <2>5, <2>6 DEF ProofInv
<1>2. ProofInv /\ [ProofNext]_proofVars => ProofInv'
  <2> SUFFICES ASSUME ProofInv, [ProofNext]_proofVars PROVE ProofInv'
    OBVIOUS
  <2>1. ASSUME NEW j \in Job, NEW r \in Request, Ask(j, r) PROVE ProofInv'
    BY <2>1, AskKeeps
  <2>2. ASSUME NEW j \in Job, ChildFails(j) \/ TimeOut(j) PROVE ProofInv'
    BY <2>2, EndsSilently DEF ChildFails, TimeOut
  <2>3. ASSUME NEW j \in PolicyJob, NEW ds \in Replayed, PolicyJudged(j, ds) PROVE ProofInv'
    BY <2>3, PolicyJudgedKeeps
  <2>4. ASSUME NEW j \in BudgetJob, Copy(j) \/ Count(j) PROVE ProofInv'
    BY <2>4, CopyKeeps, CountKeeps
  <2>5. ASSUME NEW j \in BudgetJob, NEW dropped \in BOOLEAN,
               Alone(j, dropped) \/ BudgetJudged(j, dropped)
        PROVE  ProofInv'
    BY <2>5, AloneKeeps, BudgetJudgedKeeps
  <2>6. ASSUME NEW r \in Run, Record(r) PROVE ProofInv'
    BY <2>6, RecordKeeps
  <2>7. CASE Tick
    BY <2>7, TickKeeps
  <2>8. CASE UNCHANGED proofVars
    <3>1. SlotsComeBack' = SlotsComeBack /\ OwnPhases' = OwnPhases
      BY <2>8 DEF proofVars, SlotsComeBack, Working, OwnPhases
    <3>2. /\ CopyStands' = CopyStands /\ VerdictIsEarned' = VerdictIsEarned
          /\ BudgetVerdictIsTheCandidates' = BudgetVerdictIsTheCandidates
          /\ ElsewhereHidesNothing' = ElsewhereHidesNothing
      BY <2>8 DEF proofVars, CopyStands, VerdictIsEarned, BudgetVerdictIsTheCandidates,
                  ElsewhereHidesNothing
    <3> QED
      BY <2>8, <3>1, <3>2 DEF ProofInv, Formed, proofVars
  <2> QED
    BY <2>1, <2>2, <2>3, <2>4, <2>5, <2>6, <2>7, <2>8 DEF ProofNext
<1>3. ProofInv => ProofsAreEarned
  BY DEF ProofInv, ProofsAreEarned
<1> QED
  BY <1>1, <1>2, <1>3, PTL DEF ProofSpec

(***************************************************************************)
(* The evidence pack.                                                      *)
(***************************************************************************)
Answer == [of : Artifact, edition : Nat]
PackState == [zip : SUBSET Answer, artifacts : SUBSET Answer, missing : SUBSET Artifact,
              signed : BOOLEAN, journaled : BOOLEAN]
Ticked == [asked : SUBSET Tool, paired : BOOLEAN]
BuildState == [at : 0..9, request : {Nothing} \cup Ticked,
               since : {Nothing} \cup [Tool -> Nat], got : SUBSET Answer,
               missing : SUBSET Artifact, path : {Nothing} \cup Nat,
               pack : {Nothing} \cup PackState]

Gathered ==
    /\ money \in BOOLEAN /\ removable \in BOOLEAN
    /\ edition \in [Tool -> Nat]
    /\ build \in [Build -> BuildState]
    /\ temp \in [Names -> {Nothing} \cup Nat]
    /\ fresh \in Nat

\* The artifacts a build of these tools has come past when it is at the i-th.
Past(i, wants) == {Order[k] : k \in {n \in 1..6 : n < i /\ ToolOf[Order[n]] \in wants}}

\* An answer was given since then, one read from a temporary file as far as what was in it
\* before could be removed.
InTime(a, since) ==
    a.of # "focus" \/ removable => a.edition \in since[ToolOf[a.of]]..edition[ToolOf[a.of]]

\* These answers and these missing artifacts make up the whole, and each answer was given
\* since then.
Accounts(taken, missing, whole, since) ==
    /\ {a.of : a \in taken} \cup missing = whole
    /\ {a.of : a \in taken} \cap missing = {}
    /\ \A a \in taken : InTime(a, since)

\* A build that is under way accounts for what it has come past, and is at an artifact that
\* was asked for.
GathersInOrder(b) ==
    /\ build[b].at \in 1..7 =>
         /\ build[b].since \in [Tool -> Nat] /\ build[b].request \in Ticked
         /\ \A t \in Tool : build[b].since[t] <= edition[t]
         /\ Accounts(build[b].got, build[b].missing, Past(build[b].at, Effective(build[b].request)),
                     build[b].since)
    /\ build[b].at \in 1..6 => ToolOf[Order[build[b].at]] \in Effective(build[b].request)
    /\ build[b].at \in 0..7 => build[b].pack = Nothing

\* A build waits for an export only at the last artifact, under a name no later export of this
\* process takes, and the file holds what was asked for since it began, or is not there.
ExportIsItsOwn(b) ==
    build[b].path # Nothing =>
      /\ build[b].at = 6
      /\ build[b].path \in Names /\ build[b].path < fresh
      /\ temp[build[b].path] # Nothing /\ removable =>
            temp[build[b].path] \in build[b].since["tokenfuse"]..edition["tokenfuse"]

\* What is assembled and handed back is whole.
HandedBackIsWhole(b) ==
    build[b].at \in 8..9 /\ build[b].pack # Nothing =>
      /\ Accounts(build[b].pack.artifacts, build[b].pack.missing,
                  {s \in Artifact : ToolOf[s] \in Effective(build[b].request)}, build[b].since)
      /\ build[b].pack.zip = build[b].pack.artifacts
      /\ build[b].since \in [Tool -> Nat] /\ build[b].request \in Ticked
      /\ build[b].pack.signed <=> build[b].request.paired

BuildStands(b) == GathersInOrder(b) /\ ExportIsItsOwn(b) /\ HandedBackIsWhole(b)

\* Nothing is journaled but a pack that was assembled and signed; it is handed back unless the
\* console died before.
RowIsOfPack(row) ==
    /\ row.build \in Build /\ build[row.build].at \in 8..9
    /\ build[row.build].pack # Nothing =>
         row.zip = build[row.build].pack.zip /\ build[row.build].pack.signed

\* A pack is said to be journaled only with its row.
HasRow(b) == \E row \in journal : row.build = b
SaidIsTrue(b) == build[b].pack # Nothing /\ build[b].pack.journaled => HasRow(b)

RowsAreOfPacks ==
    /\ \A row \in journal : RowIsOfPack(row)
    /\ \A b \in Build : SaidIsTrue(b)

PackInv == Gathered /\ (\A b \in Build : BuildStands(b)) /\ RowsAreOfPacks

LEMMA OrderIs ==
    /\ Order[1] = "compliance" /\ Order[2] = "audit" /\ Order[3] = "crypto"
    /\ Order[4] = "cbom" /\ Order[5] = "bom" /\ Order[6] = "focus"
    /\ \A k \in 1..6 : Order[k] \in Artifact
BY DEF Order, Artifact

LEMMA OrderIsOfSix == \A k, n \in 1..6 : Order[k] = Order[n] => k = n
<1>1. \A k \in 1..6 : k = 1 \/ k = 2 \/ k = 3 \/ k = 4 \/ k = 5 \/ k = 6
  OBVIOUS
<1> QED
  BY <1>1, OrderIs

LEMMA ToolsOfArtifacts == \A s \in Artifact : ToolOf[s] \in Tool
<1>1. Artifact = {"compliance", "audit", "crypto", "cbom", "bom", "focus"}
  <2>1. \A k \in 1..6 : k = 1 \/ k = 2 \/ k = 3 \/ k = 4 \/ k = 5 \/ k = 6
    OBVIOUS
  <2> QED
    BY <2>1, OrderIs DEF Artifact
<1>2. /\ ToolOf["compliance"] = "cloud" /\ ToolOf["audit"] = "cloud" /\ ToolOf["crypto"] = "qryx"
      /\ ToolOf["cbom"] = "qryx" /\ ToolOf["bom"] = "idryx" /\ ToolOf["focus"] = "tokenfuse"
  BY DEF ToolOf
<1> QED
  BY <1>1, <1>2 DEF Tool

\* The next artifact that was asked for, or none.
LEMMA AfterIs ==
    ASSUME NEW i \in 0..6, NEW wants
    PROVE  /\ After(i, wants) \in (i + 1)..7
           /\ After(i, wants) # 7 => ToolOf[Order[After(i, wants)]] \in wants
           /\ \A k \in (i + 1)..6 : k < After(i, wants) => ToolOf[Order[k]] \notin wants
<1> DEFINE rest == {j \in (i + 1)..6 : ToolOf[Order[j]] \in wants}
           least == CHOOSE j \in rest : \A k \in rest : j <= k
<1>1. CASE rest = {}
  <2>1. After(i, wants) = 7
    BY <1>1 DEF After
  <2> QED
    BY <1>1, <2>1
<1>2. CASE rest # {}
  <2>1. After(i, wants) = least
    BY <1>2 DEF After
  <2>2. rest \subseteq 1..6
    OBVIOUS
  <2>3. \E j \in rest : \A k \in rest : j <= k
    <3> HIDE DEF rest
    <3>1. \A S : S \subseteq 1..6 /\ S # {} => \E j \in S : \A k \in S : j <= k
      <4> SUFFICES ASSUME NEW S, S \subseteq 1..6, S # {} PROVE \E j \in S : \A k \in S : j <= k
        OBVIOUS
      <4>1. CASE 1 \in S
        BY <4>1
      <4>2. CASE 1 \notin S /\ 2 \in S
        BY <4>2
      <4>3. CASE 1 \notin S /\ 2 \notin S /\ 3 \in S
        BY <4>3
      <4>4. CASE 1 \notin S /\ 2 \notin S /\ 3 \notin S /\ 4 \in S
        BY <4>4
      <4>5. CASE 1 \notin S /\ 2 \notin S /\ 3 \notin S /\ 4 \notin S /\ 5 \in S
        BY <4>5
      <4>6. CASE 1 \notin S /\ 2 \notin S /\ 3 \notin S /\ 4 \notin S /\ 5 \notin S
        <5>1. \A k \in S : k = 6
          BY <4>6
        <5>2. PICK j \in S : TRUE
          OBVIOUS
        <5> QED
          BY <5>1, <5>2
      <4> QED
        BY <4>1, <4>2, <4>3, <4>4, <4>5, <4>6
    <3> QED
      BY <1>2, <2>2, <3>1
  <2>4. least \in rest /\ \A k \in rest : least <= k
    BY <2>3
  <2> HIDE DEF least
  <2> QED
    BY <2>1, <2>4
<1> QED
  BY <1>1, <1>2

\* What is past after the next artifact is what was past and that artifact.
LEMMA PastGrows ==
    ASSUME NEW i \in 1..6, NEW wants, ToolOf[Order[i]] \in wants
    PROVE  /\ Past(After(i, wants), wants) = Past(i, wants) \cup {Order[i]}
           /\ Order[i] \notin Past(i, wants)
<1> DEFINE n == After(i, wants)
<1>1. /\ n \in (i + 1)..7
      /\ \A k \in (i + 1)..6 : k < n => ToolOf[Order[k]] \notin wants
  BY AfterIs
<1> HIDE DEF n
<1>2. {k \in 1..6 : k < n /\ ToolOf[Order[k]] \in wants}
        = {k \in 1..6 : k < i /\ ToolOf[Order[k]] \in wants} \cup {i}
  BY <1>1
<1>3. Past(n, wants) = Past(i, wants) \cup {Order[i]}
  BY <1>2 DEF Past
<1>4. Order[i] \notin Past(i, wants)
  BY OrderIsOfSix DEF Past
<1> QED
  BY <1>3, <1>4 DEF n

LEMMA PastAtTheEnds ==
    ASSUME NEW wants
    PROVE  /\ Past(After(0, wants), wants) = {}
           /\ Past(7, wants) = {s \in Artifact : ToolOf[s] \in wants}
<1>1. /\ After(0, wants) \in 1..7
      /\ \A k \in 1..6 : k < After(0, wants) => ToolOf[Order[k]] \notin wants
  BY AfterIs
<1>2. Past(After(0, wants), wants) = {}
  BY <1>1 DEF Past
<1>3. Past(7, wants) = {s \in Artifact : ToolOf[s] \in wants}
  BY DEF Past, Artifact
<1> QED
  BY <1>2, <1>3

\* What a step does to one build: the others stand, and the build stays formed.
OnlyBuild(b) ==
    /\ build' \in [Build -> BuildState]
    /\ \A c \in Build : c # b => build'[c] = build[c]

\* As the tools' answers change, an answer given since then still is one.
LEMMA AnswersStand ==
    ASSUME Gathered, NEW taken \in SUBSET Answer, NEW since \in [Tool -> Nat],
           \A a \in taken : InTime(a, since),
           edition' \in [Tool -> Nat], \A t \in Tool : edition[t] <= edition'[t]
    PROVE  \A a \in taken : a.of # "focus" \/ removable =>
              a.edition \in since[ToolOf[a.of]]..edition'[ToolOf[a.of]]
<1> SUFFICES ASSUME NEW a \in taken, a.of # "focus" \/ removable
             PROVE  a.edition \in since[ToolOf[a.of]]..edition'[ToolOf[a.of]]
  OBVIOUS
<1>0. a.edition \in since[ToolOf[a.of]]..edition[ToolOf[a.of]]
  BY DEF InTime
<1>1. a.of \in Artifact /\ a.edition \in Nat
  BY DEF Answer
<1>2. ToolOf[a.of] \in Tool
  BY <1>1, ToolsOfArtifacts
<1>3. /\ since[ToolOf[a.of]] \in Nat /\ edition[ToolOf[a.of]] \in Nat
      /\ edition'[ToolOf[a.of]] \in Nat /\ edition[ToolOf[a.of]] <= edition'[ToolOf[a.of]]
  BY <1>2 DEF Gathered
<1> QED
  BY <1>0, <1>1, <1>3

\* The builds a step leaves alone, with the same answers at the tools, no name of theirs taken
\* and nothing put in their files.
LEMMA OthersStand ==
    ASSUME PackInv, NEW b \in Build, OnlyBuild(b), UNCHANGED <<removable, edition>>,
           fresh' \in Nat, fresh <= fresh',
           \A n \in Names : n < fresh => temp'[n] = temp[n] \/ temp'[n] = Nothing
    PROVE  \A c \in Build : c # b => BuildStands(c)'
<1> SUFFICES ASSUME NEW c \in Build, c # b PROVE BuildStands(c)'
  OBVIOUS
<1>1. build'[c] = build[c] /\ BuildStands(c)
  BY DEF OnlyBuild, PackInv
<1>2. GathersInOrder(c)' /\ HandedBackIsWhole(c)'
  BY <1>1 DEF BuildStands, GathersInOrder, HandedBackIsWhole, Accounts, InTime
<1>3. ExportIsItsOwn(c)'
  <2>1. CASE build[c].path = Nothing
    BY <1>1, <2>1 DEF ExportIsItsOwn
  <2>2. CASE build[c].path # Nothing
    <3> DEFINE p == build[c].path
    <3>1. /\ build[c].at = 6 /\ p \in Names /\ p < fresh
          /\ temp[p] # Nothing /\ removable => temp[p] \in build[c].since["tokenfuse"]..edition["tokenfuse"]
      BY <1>1, <2>2 DEF BuildStands, ExportIsItsOwn
    <3>2. p \in Nat /\ fresh \in Nat
      BY <2>2 DEF PackInv, Gathered, BuildState
    <3>3. p < fresh' /\ (temp'[p] = temp[p] \/ temp'[p] = Nothing)
      BY <3>1, <3>2
    <3> QED
      BY <1>1, <3>1, <3>3 DEF ExportIsItsOwn
  <2> QED
    BY <2>1, <2>2
<1> QED
  BY <1>2, <1>3 DEF BuildStands

\* The rows stay those of packs as long as what is handed back is left alone.
LEMMA RowsStand ==
    ASSUME PackInv, NEW b \in Build, OnlyBuild(b), build[b].at \in 0..7,
           build'[b].pack = Nothing, journal' = journal
    PROVE  RowsAreOfPacks'
<1>1. ASSUME NEW row \in journal PROVE RowIsOfPack(row)'
  <2>1. RowIsOfPack(row)
    BY DEF PackInv, RowsAreOfPacks
  <2>2. row.build \in Build /\ row.build # b
    BY <2>1 DEF RowIsOfPack
  <2>3. build'[row.build] = build[row.build]
    BY <2>2 DEF OnlyBuild
  <2>. QED
    BY <2>1, <2>3 DEF RowIsOfPack
<1>2. ASSUME NEW c \in Build PROVE SaidIsTrue(c)'
  <2>1. CASE c = b
    BY <2>1 DEF SaidIsTrue
  <2>2. CASE c # b
    <3>1. build'[c] = build[c] /\ SaidIsTrue(c)
      BY <2>2 DEF PackInv, RowsAreOfPacks, OnlyBuild
    <3>. QED
      BY <3>1 DEF SaidIsTrue, HasRow
  <2>. QED
    BY <2>1, <2>2
<1>. QED
  BY <1>1, <1>2 DEF RowsAreOfPacks

\* An answer to the question a build is at, given since it began as far as that can be known.
AnswersInTime(b, e) ==
    Current(b) # "focus" \/ removable =>
      e \in build[b].since[ToolOf[Current(b)]]..edition[ToolOf[Current(b)]]

\* One artifact more, as an answer of its tool or named missing.
LEMMA Advances ==
    ASSUME PackInv, NEW b \in Build, Gathering(b), OnlyBuild(b),
           build'[b].at = Further(b), build'[b].path = Nothing,
           build'[b].request = build[b].request, build'[b].since = build[b].since,
           build'[b].pack = build[b].pack,
           \/ build'[b].got = build[b].got /\ build'[b].missing = Absent(b)
           \/ /\ build'[b].missing = build[b].missing
              /\ \E e \in Nat : AnswersInTime(b, e) /\ build'[b].got = Artifacts(b, e),
           temp' \in [Names -> {Nothing} \cup Nat],
           \A n \in Names : temp'[n] = temp[n] \/ temp'[n] = Nothing,
           UNCHANGED <<money, removable, edition, fresh, journal>>
    PROVE  PackInv'
<1> DEFINE wants == Effective(build[b].request)
           before == Past(build[b].at, wants)
           now == Past(build'[b].at, wants)
<1>1. /\ build[b].at \in 1..6 /\ ToolOf[Current(b)] \in wants
      /\ build[b].since \in [Tool -> Nat] /\ build[b].request \in Ticked
      /\ \A t \in Tool : build[b].since[t] <= edition[t]
      /\ Accounts(build[b].got, build[b].missing, before, build[b].since)
      /\ build[b].pack = Nothing
  BY DEF PackInv, BuildStands, GathersInOrder, Gathering, Current
<1>2. /\ build'[b].at \in 2..7
      /\ build'[b].at # 7 => ToolOf[Order[build'[b].at]] \in wants
  BY <1>1, AfterIs DEF Further
<1>3. now = before \cup {Current(b)} /\ Current(b) \notin before
  BY <1>1, PastGrows DEF Further, Current
<1> HIDE DEF before, now
<1>4. Accounts(build'[b].got, build'[b].missing, now, build[b].since)
  <2>1. CASE build'[b].got = build[b].got /\ build'[b].missing = Absent(b)
    BY <1>1, <1>3, <2>1 DEF Accounts, Absent
  <2>2. CASE /\ build'[b].missing = build[b].missing
             /\ \E e \in Nat : AnswersInTime(b, e) /\ build'[b].got = Artifacts(b, e)
    <3>1. PICK e \in Nat :
             /\ AnswersInTime(b, e)
             /\ build'[b].got = build[b].got \cup {[of |-> Current(b), edition |-> e]}
      BY <2>2 DEF Artifacts
    <3> DEFINE new == [of |-> Current(b), edition |-> e]
    <3>2. new.of = Current(b) /\ new.edition = e
      OBVIOUS
    <3> HIDE DEF new
    <3>3. build'[b].got = build[b].got \cup {new}
      BY <3>1 DEF new
    <3>4. {a.of : a \in build'[b].got} = {a.of : a \in build[b].got} \cup {Current(b)}
      BY <3>2, <3>3
    <3>6. InTime(new, build[b].since)
      BY <3>1, <3>2 DEF AnswersInTime, InTime
    <3>5. \A a \in build'[b].got : InTime(a, build[b].since)
      BY <1>1, <3>3, <3>6 DEF Accounts
    <3> QED
      BY <1>1, <1>3, <2>2, <3>4, <3>5 DEF Accounts
  <2> QED
    BY <2>1, <2>2
<1>5. GathersInOrder(b)'
  <2>1. Accounts(build[b].got, build[b].missing, Past(build[b].at, Effective(build[b].request)),
                 build[b].since)'
    BY <1>4 DEF Accounts, InTime, now
  <2> QED
    BY <1>1, <1>2, <2>1 DEF GathersInOrder
<1>6. ExportIsItsOwn(b)' /\ HandedBackIsWhole(b)'
  BY <1>2 DEF ExportIsItsOwn, HandedBackIsWhole
<1>7. \A c \in Build : c # b => BuildStands(c)'
  BY OthersStand DEF PackInv, Gathered
<1>8. RowsAreOfPacks'
  BY <1>1, RowsStand
<1> QED
  BY <1>5, <1>6, <1>7, <1>8 DEF PackInv, Gathered, BuildStands, OnlyBuild

\* What a build under way has, of its own types.
LEMMA GatheringIs ==
    ASSUME PackInv, NEW b \in Build, Gathering(b)
    PROVE  /\ build[b] \in BuildState /\ build[b].at \in 1..6
           /\ Current(b) \in Artifact /\ ToolOf[Current(b)] \in Tool
           /\ Further(b) \in 2..7
           /\ Absent(b) \in SUBSET Artifact
           /\ \A t \in Tool : build[b].since[t] \in Nat /\ edition[t] \in Nat
                               /\ build[b].since[t] <= edition[t]
           /\ \A e \in Nat : Artifacts(b, e) \in SUBSET Answer
<1>1. build[b] \in BuildState /\ build[b].at \in 1..6
  BY DEF PackInv, Gathered, Gathering
<1>2. Current(b) \in Artifact /\ ToolOf[Current(b)] \in Tool
  BY <1>1, OrderIs, ToolsOfArtifacts DEF Current
<1>3. Further(b) \in 2..7
  BY <1>1, AfterIs DEF Further
<1>4. build[b].got \in SUBSET Answer /\ build[b].missing \in SUBSET Artifact
  BY <1>1 DEF BuildState
<1>5. \A t \in Tool : build[b].since[t] \in Nat /\ edition[t] \in Nat
                      /\ build[b].since[t] <= edition[t]
  BY <1>1 DEF PackInv, Gathered, BuildStands, GathersInOrder
<1>6. \A e \in Nat : Artifacts(b, e) \in SUBSET Answer
  BY <1>2, <1>4 DEF Artifacts, Answer
<1> QED
  BY <1>1, <1>2, <1>3, <1>4, <1>5, <1>6 DEF Absent

LEMMA GatherKeeps == ASSUME PackInv, NEW b \in Build, Gather(b) PROVE PackInv'
<1> DEFINE further == Further(b)
           e == edition[ToolOf[Current(b)]]
           taken == Artifacts(b, e)
<1>1. Gathering(b) /\ Current(b) # "focus"
  BY DEF Gather
<1>2. /\ further \in 2..7 /\ e \in Nat /\ taken \in SUBSET Answer
      /\ e \in build[b].since[ToolOf[Current(b)]]..e
  BY <1>1, GatheringIs
<1>3. build[b].path = Nothing
  BY <1>1, OrderIs DEF PackInv, BuildStands, ExportIsItsOwn, Current
<1>4. build' = [build EXCEPT ![b].at = further, ![b].got = taken]
  BY DEF Gather
<1>5. taken = Artifacts(b, e) /\ e = edition[ToolOf[Current(b)]] /\ further = Further(b)
  OBVIOUS
<1> HIDE DEF further, e, taken
<1>6. /\ OnlyBuild(b) /\ build'[b].at = further /\ build'[b].got = taken
      /\ build'[b].path = build[b].path /\ build'[b].request = build[b].request
      /\ build'[b].since = build[b].since /\ build'[b].pack = build[b].pack
      /\ build'[b].missing = build[b].missing
  <2> DEFINE t == [build EXCEPT ![b].at = further]
  <2>1. build \in [Build -> BuildState] /\ further \in 0..9
    BY <1>2 DEF PackInv, Gathered
  <2>2. build' = [t EXCEPT ![b].got = taken] /\ t = [build EXCEPT ![b].at = further]
    BY <1>4
  <2> HIDE DEF t
  <2>3. /\ t \in [Build -> BuildState] /\ \A c \in Build : c # b => t[c] = build[c]
        /\ t[b].at = further /\ t[b].path = build[b].path /\ t[b].request = build[b].request
        /\ t[b].since = build[b].since /\ t[b].pack = build[b].pack
        /\ t[b].missing = build[b].missing
    BY <2>1, <2>2 DEF BuildState
  <2>4. taken \in SUBSET Answer /\ t \in [Build -> BuildState] /\ build' = [t EXCEPT ![b].got = taken]
    BY <1>2, <2>2, <2>3
  <2>5. /\ build' \in [Build -> BuildState] /\ \A c \in Build : c # b => build'[c] = t[c]
        /\ build'[b].got = taken /\ build'[b].at = t[b].at /\ build'[b].path = t[b].path
        /\ build'[b].request = t[b].request /\ build'[b].since = t[b].since
        /\ build'[b].pack = t[b].pack /\ build'[b].missing = t[b].missing
    BY <2>4 DEF BuildState
  <2> QED
    BY <2>3, <2>5 DEF OnlyBuild
<1>7. /\ UNCHANGED <<money, removable, edition, temp, fresh, journal>>
      /\ temp \in [Names -> {Nothing} \cup Nat]
  BY DEF Gather, PackInv, Gathered
<1>8. e \in Nat /\ AnswersInTime(b, e)
  BY <1>2, <1>5 DEF AnswersInTime
<1> QED
  BY <1>1, <1>3, <1>5, <1>6, <1>7, <1>8, Advances

LEMMA GatherFailsKeeps == ASSUME PackInv, NEW b \in Build, GatherFails(b) PROVE PackInv'
<1> DEFINE further == Further(b)
           missing == Absent(b)
<1>1. Gathering(b) /\ build[b].path = Nothing
  BY DEF GatherFails
<1>2. further \in 2..7 /\ missing \in SUBSET Artifact
  BY <1>1, GatheringIs
<1>3. build' = [build EXCEPT ![b].at = further, ![b].missing = missing]
  BY DEF GatherFails
<1>4. missing = Absent(b) /\ further = Further(b)
  OBVIOUS
<1> HIDE DEF further, missing
<1>5. /\ OnlyBuild(b) /\ build'[b].at = further /\ build'[b].got = build[b].got
      /\ build'[b].path = build[b].path /\ build'[b].request = build[b].request
      /\ build'[b].since = build[b].since /\ build'[b].pack = build[b].pack
      /\ build'[b].missing = missing
  <2> DEFINE t == [build EXCEPT ![b].at = further]
  <2>1. build \in [Build -> BuildState] /\ further \in 0..9
    BY <1>2 DEF PackInv, Gathered
  <2>2. build' = [t EXCEPT ![b].missing = missing] /\ t = [build EXCEPT ![b].at = further]
    BY <1>3
  <2> HIDE DEF t
  <2>3. /\ t \in [Build -> BuildState] /\ \A c \in Build : c # b => t[c] = build[c]
        /\ t[b].at = further /\ t[b].path = build[b].path /\ t[b].request = build[b].request
        /\ t[b].since = build[b].since /\ t[b].pack = build[b].pack /\ t[b].got = build[b].got
    BY <2>1, <2>2 DEF BuildState
  <2>4. missing \in SUBSET Artifact /\ t \in [Build -> BuildState] /\ build' = [t EXCEPT ![b].missing = missing]
    BY <1>2, <2>2, <2>3
  <2>5. /\ build' \in [Build -> BuildState] /\ \A c \in Build : c # b => build'[c] = t[c]
        /\ build'[b].missing = missing /\ build'[b].at = t[b].at /\ build'[b].path = t[b].path
        /\ build'[b].request = t[b].request /\ build'[b].since = t[b].since
        /\ build'[b].pack = t[b].pack /\ build'[b].got = t[b].got
    BY <2>4 DEF BuildState
  <2> QED
    BY <2>3, <2>5 DEF OnlyBuild
<1>6. /\ UNCHANGED <<money, removable, edition, temp, fresh, journal>>
      /\ temp \in [Names -> {Nothing} \cup Nat]
  BY DEF GatherFails, PackInv, Gathered
<1> QED
  BY <1>1, <1>4, <1>5, <1>6, Advances

\* The export's file is named as no build of this process names another, and what it held
\* before is not there.
LEMMA ExportKeeps == ASSUME PackInv, NEW b \in Build, Export(b) PROVE PackInv'
<1>1. /\ Gathering(b) /\ Current(b) = "focus" /\ build[b].path = Nothing
      /\ fresh \in Names /\ fresh \in Nat /\ fresh' = fresh + 1
      /\ build' = [build EXCEPT ![b].path = fresh]
      /\ UNCHANGED <<money, removable, edition, journal>>
  BY DEF Export, PackInv, Gathered
<1>5. edition["tokenfuse"] \in Nat /\ build[b].since["tokenfuse"] \in Nat
      /\ build[b].since["tokenfuse"] <= edition["tokenfuse"]
  BY <1>1, GatheringIs DEF Tool
<1>2. PICK put \in {edition["tokenfuse"], Cleared(fresh)} : temp' = [temp EXCEPT ![fresh] = put]
  BY DEF Export
<1>12. /\ put \in {Nothing} \cup Nat
       /\ removable => put \in {edition["tokenfuse"], Nothing}
  BY <1>1, <1>2, <1>5 DEF Cleared, PackInv, Gathered
<1>3. /\ OnlyBuild(b) /\ build'[b].path = fresh
      /\ build'[b].at = build[b].at /\ build'[b].got = build[b].got
      /\ build'[b].request = build[b].request /\ build'[b].since = build[b].since
      /\ build'[b].pack = build[b].pack /\ build'[b].missing = build[b].missing
  BY <1>1 DEF PackInv, Gathered, BuildState, OnlyBuild
<1>4. build[b].at = 6
  BY <1>1, OrderIs, OrderIsOfSix DEF Current, Gathering
<1>6. /\ temp' \in [Names -> {Nothing} \cup Nat] /\ temp'[fresh] = put
      /\ \A n \in Names : n # fresh => temp'[n] = temp[n]
  BY <1>1, <1>2, <1>12 DEF PackInv, Gathered
<1>7. \A n \in Names : n < fresh => n # fresh
  BY <1>1
<1>8. GathersInOrder(b)' /\ HandedBackIsWhole(b)'
  BY <1>1, <1>3, <1>4 DEF PackInv, BuildStands, GathersInOrder, HandedBackIsWhole, Accounts, InTime
<1>9. ExportIsItsOwn(b)'
  BY <1>1, <1>3, <1>4, <1>5, <1>6, <1>12, EvidenceAssumption DEF ExportIsItsOwn
<1>10. \A c \in Build : c # b => BuildStands(c)'
  BY <1>1, <1>3, <1>6, <1>7, OthersStand
<1>11. RowsAreOfPacks'
  <2>1. build[b].pack = Nothing
    BY <1>4 DEF PackInv, BuildStands, GathersInOrder
  <2> QED
    BY <1>1, <1>3, <1>4, <2>1, RowsStand
<1> QED
  BY <1>1, <1>3, <1>6, <1>8, <1>9, <1>10, <1>11 DEF PackInv, Gathered, BuildStands, OnlyBuild

\* What is read back is the file of this build's own export.
LEMMA ReadBackKeeps == ASSUME PackInv, NEW b \in Build, ReadBack(b) PROVE PackInv'
<1> DEFINE p == build[b].path
           had == temp[p]
<1>1. /\ Gathering(b) /\ p \in Names /\ build[b].at = 6
      /\ had # Nothing /\ removable => had \in build[b].since["tokenfuse"]..edition["tokenfuse"]
  BY DEF ReadBack, PackInv, BuildStands, ExportIsItsOwn, Gathering
<1>2. Current(b) = "focus" /\ ToolOf[Current(b)] = "tokenfuse"
  BY <1>1, OrderIs DEF Current, ToolOf
<1>3. /\ temp' \in [Names -> {Nothing} \cup Nat]
      /\ \A n \in Names : temp'[n] = temp[n] \/ temp'[n] = Nothing
      /\ UNCHANGED <<money, removable, edition, fresh, journal>>
  BY <1>1 DEF ReadBack, PackInv, Gathered
<1>4. CASE had = Nothing
  <2>1. /\ OnlyBuild(b) /\ build'[b].at = Further(b) /\ build'[b].path = Nothing
        /\ build'[b].missing = Absent(b) /\ build'[b].got = build[b].got
        /\ build'[b].request = build[b].request /\ build'[b].since = build[b].since
        /\ build'[b].pack = build[b].pack
    <3> DEFINE further == Further(b)
               missing == Absent(b)
               t == [build EXCEPT ![b].at = further]
               u == [t EXCEPT ![b].path = Nothing]
    <3>1. build \in [Build -> BuildState] /\ further \in 0..9
      BY <1>1, GatheringIs DEF PackInv, Gathered
    <3>2. further = Further(b) /\ missing = Absent(b) /\ t = [build EXCEPT ![b].at = further]
      OBVIOUS
    <3>3. u = [t EXCEPT ![b].path = Nothing]
      OBVIOUS
    <3>4. build' = [u EXCEPT ![b].missing = missing]
      BY <1>4 DEF ReadBack
    <3>5. missing \in SUBSET Artifact
      BY <1>1, GatheringIs
    <3> HIDE DEF further, missing, u, t
    <3>6. /\ t \in [Build -> BuildState] /\ \A c \in Build : c # b => t[c] = build[c]
          /\ t[b].at = further /\ t[b].request = build[b].request
          /\ t[b].since = build[b].since /\ t[b].pack = build[b].pack
          /\ t[b].missing = build[b].missing /\ t[b].got = build[b].got
      BY <3>1, <3>2 DEF BuildState
    <3>7. t \in [Build -> BuildState] /\ Nothing \in {Nothing} \cup Nat
      BY <3>6
    <3>8. /\ u \in [Build -> BuildState] /\ \A c \in Build : c # b => u[c] = t[c]
          /\ u[b].path = Nothing /\ u[b].at = t[b].at /\ u[b].request = t[b].request
          /\ u[b].since = t[b].since /\ u[b].pack = t[b].pack
          /\ u[b].missing = t[b].missing /\ u[b].got = t[b].got
      BY <3>3, <3>7 DEF BuildState
    <3>9. u \in [Build -> BuildState]
      BY <3>8
    <3>10. /\ build' \in [Build -> BuildState] /\ \A c \in Build : c # b => build'[c] = u[c]
           /\ build'[b].missing = missing /\ build'[b].at = u[b].at /\ build'[b].path = u[b].path
           /\ build'[b].request = u[b].request /\ build'[b].since = u[b].since
           /\ build'[b].pack = u[b].pack /\ build'[b].got = u[b].got
      BY <3>4, <3>5, <3>9 DEF BuildState
    <3> QED
      BY <3>2, <3>6, <3>8, <3>10 DEF OnlyBuild
  <2> QED
    BY <1>1, <1>3, <2>1, Advances
<1>5. CASE had # Nothing
  <2>0. had \in Nat /\ AnswersInTime(b, had)
    BY <1>1, <1>2, <1>5 DEF PackInv, Gathered, AnswersInTime
  <2>1. /\ OnlyBuild(b) /\ build'[b].at = Further(b) /\ build'[b].path = Nothing
        /\ build'[b].got = Artifacts(b, had) /\ build'[b].missing = build[b].missing
        /\ build'[b].request = build[b].request /\ build'[b].since = build[b].since
        /\ build'[b].pack = build[b].pack
    <3> DEFINE further == Further(b)
               taken == Artifacts(b, had)
               t == [build EXCEPT ![b].at = further]
               u == [t EXCEPT ![b].path = Nothing]
    <3>1. build \in [Build -> BuildState] /\ further \in 0..9
      BY <1>1, GatheringIs DEF PackInv, Gathered
    <3>2. further = Further(b) /\ taken = Artifacts(b, had) /\ t = [build EXCEPT ![b].at = further]
      OBVIOUS
    <3>3. u = [t EXCEPT ![b].path = Nothing]
      OBVIOUS
    <3>4. build' = [u EXCEPT ![b].got = taken]
      BY <1>5 DEF ReadBack
    <3>5. taken \in SUBSET Answer
      BY <1>1, GatheringIs, <2>0
    <3> HIDE DEF further, taken, u, t
    <3>6. /\ t \in [Build -> BuildState] /\ \A c \in Build : c # b => t[c] = build[c]
          /\ t[b].at = further /\ t[b].request = build[b].request
          /\ t[b].since = build[b].since /\ t[b].pack = build[b].pack
          /\ t[b].missing = build[b].missing /\ t[b].got = build[b].got
      BY <3>1, <3>2 DEF BuildState
    <3>7. t \in [Build -> BuildState] /\ Nothing \in {Nothing} \cup Nat
      BY <3>6
    <3>8. /\ u \in [Build -> BuildState] /\ \A c \in Build : c # b => u[c] = t[c]
          /\ u[b].path = Nothing /\ u[b].at = t[b].at /\ u[b].request = t[b].request
          /\ u[b].since = t[b].since /\ u[b].pack = t[b].pack
          /\ u[b].missing = t[b].missing /\ u[b].got = t[b].got
      BY <3>3, <3>7 DEF BuildState
    <3>9. u \in [Build -> BuildState]
      BY <3>8
    <3>10. /\ build' \in [Build -> BuildState] /\ \A c \in Build : c # b => build'[c] = u[c]
           /\ build'[b].got = taken /\ build'[b].at = u[b].at /\ build'[b].path = u[b].path
           /\ build'[b].request = u[b].request /\ build'[b].since = u[b].since
           /\ build'[b].pack = u[b].pack /\ build'[b].missing = u[b].missing
      BY <3>4, <3>5, <3>9 DEF BuildState
    <3> QED
      BY <3>2, <3>6, <3>8, <3>10 DEF OnlyBuild
  <2>2. \E e \in Nat : AnswersInTime(b, e) /\ build'[b].got = Artifacts(b, e)
    BY <2>0, <2>1
  <2> QED
    BY <1>1, <1>3, <2>1, <2>2, Advances
<1> QED
  BY <1>4, <1>5

LEMMA BeginKeeps == ASSUME PackInv, NEW b \in Build, Begin(b) PROVE PackInv'
<1>1. /\ build[b] = NotBegun /\ UNCHANGED <<money, removable, edition, temp, fresh, journal>>
      /\ \E want \in Requests : build' = [build EXCEPT ![b] = Begun(want)]
  BY DEF Begin
<1>2. PICK want \in Requests : build' = [build EXCEPT ![b] = Begun(want)]
  BY <1>1
<1> DEFINE req == [asked |-> want, paired |-> money]
           wants == Effective(req)
           at == After(0, wants)
           new == Begun(want)
<1>3. req \in Ticked
  BY EvidenceAssumption DEF Ticked, Tool, PackInv, Gathered
<1>4. at \in 1..7 /\ (at # 7 => ToolOf[Order[at]] \in wants)
  BY AfterIs
<1>5. Past(at, wants) = {}
  BY PastAtTheEnds
<1>15. new = [at |-> at, request |-> req, since |-> edition,
              got |-> {}, missing |-> {}, path |-> Nothing, pack |-> Nothing]
  BY DEF Begun
<1>16. wants = Effective(req)
  OBVIOUS
<1> HIDE DEF req, wants, at, new
<1>6. /\ new.at = at /\ new.request = req /\ new.since = edition /\ new.got = {}
      /\ new.missing = {} /\ new.path = Nothing /\ new.pack = Nothing
  BY <1>15
<1>7. new \in BuildState
  BY <1>3, <1>4, <1>15 DEF BuildState, PackInv, Gathered
<1>8. build' = [build EXCEPT ![b] = new]
  BY <1>2 DEF new
<1>9. OnlyBuild(b) /\ build'[b] = new
  BY <1>7, <1>8 DEF OnlyBuild, PackInv, Gathered
<1>10. Accounts({}, {}, Past(at, wants), edition)
  BY <1>5 DEF Accounts
<1>11. GathersInOrder(b)'
  <2>1. Accounts(build[b].got, build[b].missing, Past(build[b].at, Effective(build[b].request)),
                 build[b].since)'
    BY <1>1, <1>6, <1>9, <1>10, <1>16 DEF Accounts, InTime
  <2>2. edition' = edition /\ edition \in [Tool -> Nat]
    BY <1>1 DEF PackInv, Gathered
  <2>3. \A t \in Tool : edition[t] <= edition[t]
    BY <2>2
  <2> QED
    BY <1>3, <1>4, <1>6, <1>9, <1>16, <2>1, <2>2, <2>3 DEF GathersInOrder
<1>12. ExportIsItsOwn(b)' /\ HandedBackIsWhole(b)'
  BY <1>4, <1>6, <1>9 DEF ExportIsItsOwn, HandedBackIsWhole
<1>13. \A c \in Build : c # b => BuildStands(c)'
  BY <1>1, <1>9, OthersStand DEF PackInv, Gathered
<1>14. RowsAreOfPacks'
  BY <1>1, <1>6, <1>9, RowsStand DEF NotBegun
<1> QED
  BY <1>1, <1>9, <1>11, <1>12, <1>13, <1>14 DEF PackInv, Gathered, BuildStands, OnlyBuild

LEMMA NoPackKeeps == ASSUME PackInv, NEW b \in Build, NoPack(b) PROVE PackInv'
<1>1. /\ build[b].at = 7 /\ build' = [build EXCEPT ![b].at = 9]
      /\ UNCHANGED <<money, removable, edition, temp, fresh, journal>>
  BY DEF NoPack
<1>2. /\ OnlyBuild(b) /\ build'[b].at = 9 /\ build'[b].path = build[b].path
      /\ build'[b].pack = build[b].pack
  BY <1>1 DEF PackInv, Gathered, BuildState, OnlyBuild
<1>3. build[b].path = Nothing /\ build[b].pack = Nothing
  BY <1>1 DEF PackInv, BuildStands, ExportIsItsOwn, GathersInOrder
<1>4. BuildStands(b)'
  BY <1>2, <1>3 DEF BuildStands, GathersInOrder, ExportIsItsOwn, HandedBackIsWhole
<1>5. \A c \in Build : c # b => BuildStands(c)'
  BY <1>1, <1>2, OthersStand DEF PackInv, Gathered
<1>6. RowsAreOfPacks'
  BY <1>1, <1>2, <1>3, RowsStand
<1> QED
  BY <1>1, <1>2, <1>4, <1>5, <1>6 DEF PackInv, Gathered, OnlyBuild

\* The pack is of what was gathered when nothing is left to gather.
LEMMA JournalKeeps == ASSUME PackInv, NEW b \in Build, Journal(b) PROVE PackInv'
<1>0. PICK row \in BOOLEAN, journaled \in BOOLEAN :
          /\ row => build[b].request.paired
          /\ journaled => row
          /\ build' = [build EXCEPT ![b].at = 8, ![b].pack = Assembled(b, journaled)]
          /\ journal' = IF row THEN journal \cup {JournalRow(b)} ELSE journal
  BY DEF Journal
<1> DEFINE pack == Assembled(b, journaled)
           whole == {s \in Artifact : ToolOf[s] \in Effective(build[b].request)}
<1>1. /\ build[b].at = 7 /\ UNCHANGED <<money, removable, edition, temp, fresh>>
      /\ build' = [build EXCEPT ![b].at = 8, ![b].pack = pack]
  BY <1>0 DEF Journal
<1>2. /\ build[b] \in BuildState /\ build[b].path = Nothing /\ build[b].since \in [Tool -> Nat] /\ build[b].request \in Ticked
      /\ Accounts(build[b].got, build[b].missing, whole, build[b].since)
  <2>1. Past(build[b].at, Effective(build[b].request)) = whole
    BY <1>1, PastAtTheEnds
  <2>2. /\ build[b] \in BuildState /\ build[b].path = Nothing /\ build[b].since \in [Tool -> Nat] /\ build[b].request \in Ticked
        /\ Accounts(build[b].got, build[b].missing, Past(build[b].at, Effective(build[b].request)),
                    build[b].since)
    BY <1>1 DEF PackInv, Gathered, BuildStands, ExportIsItsOwn, GathersInOrder
  <2> HIDE DEF whole
  <2> QED
    BY <2>1, <2>2
<1>3. /\ pack \in PackState /\ pack.artifacts = build[b].got /\ pack.zip = build[b].got
      /\ pack.missing = build[b].missing
      /\ pack.signed <=> build[b].request.paired
      /\ pack.journaled <=> journaled
  <2>1. build[b].request.paired \in BOOLEAN
    BY <1>2 DEF Ticked
  <2>2. pack \in PackState
    BY <1>0, <1>2, <2>1 DEF Assembled, PackState, BuildState
  <2>3. /\ pack.artifacts = build[b].got /\ pack.zip = build[b].got
        /\ pack.missing = build[b].missing
    BY DEF Assembled
  <2>4. (pack.signed <=> build[b].request.paired) /\ (pack.journaled <=> journaled)
    BY Zenon DEF Assembled
  <2> QED
    BY <2>2, <2>3, <2>4
<1> HIDE DEF pack
<1>4. /\ OnlyBuild(b) /\ build'[b].at = 8 /\ build'[b].pack = pack
      /\ build'[b].path = build[b].path /\ build'[b].request = build[b].request
      /\ build'[b].since = build[b].since
  <2> DEFINE t == [build EXCEPT ![b].at = 8]
  <2>1. /\ t \in [Build -> BuildState] /\ \A c \in Build : c # b => t[c] = build[c]
        /\ t[b].at = 8 /\ t[b].path = build[b].path /\ t[b].request = build[b].request
        /\ t[b].since = build[b].since
    BY DEF BuildState, PackInv, Gathered
  <2>2. build' = [t EXCEPT ![b].pack = pack]
    BY <1>1
  <2> HIDE DEF t
  <2>3. /\ build' \in [Build -> BuildState] /\ \A c \in Build : c # b => build'[c] = t[c]
        /\ build'[b].at = t[b].at /\ build'[b].pack = pack
        /\ build'[b].path = t[b].path /\ build'[b].request = t[b].request
        /\ build'[b].since = t[b].since
    BY <1>3, <2>1, <2>2 DEF BuildState
  <2> QED
    BY <2>1, <2>3 DEF OnlyBuild
<1>5. GathersInOrder(b)' /\ ExportIsItsOwn(b)'
  BY <1>2, <1>4 DEF GathersInOrder, ExportIsItsOwn
<1>6. HandedBackIsWhole(b)'
  BY <1>1, <1>2, <1>3, <1>4 DEF HandedBackIsWhole, Accounts, InTime
<1>7. \A c \in Build : c # b => BuildStands(c)'
  BY <1>1, <1>4, OthersStand DEF PackInv, Gathered
<1>10. build[b].pack = Nothing
  BY <1>1 DEF PackInv, BuildStands, GathersInOrder
<1>11. JournalRow(b).build = b /\ JournalRow(b).zip = build[b].got
  BY DEF JournalRow
<1>8. RowsAreOfPacks'
  <2>1. ASSUME NEW rec \in journal PROVE RowIsOfPack(rec)'
    <3>1. RowIsOfPack(rec)
      BY DEF PackInv, RowsAreOfPacks
    <3>2. rec.build \in Build /\ rec.build # b
      BY <1>1, <3>1 DEF RowIsOfPack
    <3>3. build'[rec.build] = build[rec.build]
      BY <1>4, <3>2 DEF OnlyBuild
    <3> QED
      BY <3>1, <3>3 DEF RowIsOfPack
  <2>3. \A rec \in journal' : RowIsOfPack(rec)'
    <3>1. journal' = journal \/ (row /\ journal' = journal \cup {JournalRow(b)})
      BY <1>0
    <3>2. ASSUME NEW rec \in journal' PROVE rec \in journal \/ (row /\ rec = JournalRow(b))
      BY <3>1
    <3>3. ASSUME NEW rec \in journal' PROVE RowIsOfPack(rec)'
      <4>1. CASE rec \in journal
        BY <2>1, <4>1
      <4>2. CASE row /\ rec = JournalRow(b)
        <5>1. rec.build = b /\ rec.zip = build[b].got
          BY <1>11, <4>2
        <5>2. pack.signed
          BY <1>0, <1>3, <4>2, Zenon
        <5>3. build'[b].pack.zip = build[b].got /\ build'[b].pack.signed /\ build'[b].at \in 8..9
          BY <1>3, <1>4, <5>2
        <5> QED
          BY <5>1, <5>3 DEF RowIsOfPack
      <4> QED
        BY <3>2, <4>1, <4>2
    <3> QED
      BY <3>3
  <2>4. ASSUME NEW c \in Build PROVE SaidIsTrue(c)'
    <3>1. CASE c = b
      <4>1. journaled => JournalRow(b) \in journal'
        BY <1>0
      <4> QED
        BY <1>3, <1>4, <1>11, <3>1, <4>1 DEF SaidIsTrue, HasRow
    <3>2. CASE c # b
      <4>1. build'[c] = build[c] /\ SaidIsTrue(c) /\ journal \subseteq journal'
        BY <1>0, <1>4, <3>2 DEF PackInv, RowsAreOfPacks, OnlyBuild
      <4> QED
        BY <4>1 DEF SaidIsTrue, HasRow
    <3> QED
      BY <3>1, <3>2
  <2> QED
    BY <2>3, <2>4 DEF RowsAreOfPacks
<1> QED
  BY <1>1, <1>4, <1>5, <1>6, <1>7, <1>8 DEF PackInv, Gathered, BuildStands, OnlyBuild

\* The answer is that pack.
LEMMA HandBackKeeps == ASSUME PackInv, NEW b \in Build, HandBack(b) PROVE PackInv'
<1>1. /\ build[b].at = 8 /\ build' = [build EXCEPT ![b].at = 9]
      /\ UNCHANGED <<money, removable, edition, temp, fresh, journal>>
  BY DEF HandBack
<1>2. /\ OnlyBuild(b) /\ build'[b].at = 9 /\ build'[b].path = build[b].path
      /\ build'[b].pack = build[b].pack /\ build'[b].request = build[b].request
      /\ build'[b].since = build[b].since
  BY <1>1 DEF PackInv, Gathered, BuildState, OnlyBuild
<1>3. build[b].path = Nothing /\ HandedBackIsWhole(b)
  BY <1>1 DEF PackInv, BuildStands, ExportIsItsOwn
<1>4. BuildStands(b)'
  <2>1. GathersInOrder(b)' /\ ExportIsItsOwn(b)'
    BY <1>2, <1>3 DEF GathersInOrder, ExportIsItsOwn
  <2>2. HandedBackIsWhole(b)'
    BY <1>1, <1>2, <1>3 DEF HandedBackIsWhole, Accounts, InTime
  <2> QED
    BY <2>1, <2>2 DEF BuildStands
<1>5. \A c \in Build : c # b => BuildStands(c)'
  BY <1>1, <1>2, OthersStand DEF PackInv, Gathered
<1>6. RowsAreOfPacks'
  <2>1. ASSUME NEW rec \in journal PROVE RowIsOfPack(rec)'
    <3>1. RowIsOfPack(rec)
      BY DEF PackInv, RowsAreOfPacks
    <3>2. /\ build'[rec.build].pack = build[rec.build].pack
          /\ build'[rec.build].at \in 8..9
      BY <1>1, <1>2, <3>1 DEF OnlyBuild, RowIsOfPack
    <3> QED
      BY <3>1, <3>2 DEF RowIsOfPack
  <2>2. ASSUME NEW c \in Build PROVE SaidIsTrue(c)'
    <3>1. build'[c].pack = build[c].pack /\ SaidIsTrue(c)
      BY <1>2 DEF PackInv, RowsAreOfPacks, OnlyBuild
    <3> QED
      BY <1>1, <3>1 DEF SaidIsTrue, HasRow
  <2> QED
    BY <1>1, <2>1, <2>2 DEF RowsAreOfPacks
<1> QED
  BY <1>1, <1>2, <1>4, <1>5, <1>6 DEF PackInv, Gathered, OnlyBuild

\* An answer that was given stays one that the tool gave while this build ran.
LEMMA EditKeeps == ASSUME PackInv, NEW t \in Tool, Edit(t) PROVE PackInv'
<1>1. /\ edition' \in [Tool -> Nat] /\ \A u \in Tool : edition[u] <= edition'[u]
      /\ UNCHANGED <<money, removable, build, temp, fresh, journal>>
  BY DEF Edit, PackInv, Gathered
<1>2. ASSUME NEW b \in Build PROVE BuildStands(b)'
  <2>1. build[b] \in BuildState /\ BuildStands(b)
    BY DEF PackInv, Gathered
  <2>2. GathersInOrder(b)'
    <3>1. ASSUME build[b].at \in 1..7
          PROVE  /\ build[b].since \in [Tool -> Nat]
                 /\ \A u \in Tool : build[b].since[u] <= edition'[u]
                 /\ Accounts(build[b].got, build[b].missing, Past(build[b].at, Effective(build[b].request)),
                             build[b].since)'
      <4>1. /\ build[b].since \in [Tool -> Nat]
            /\ \A u \in Tool : build[b].since[u] <= edition[u]
            /\ Accounts(build[b].got, build[b].missing, Past(build[b].at, Effective(build[b].request)),
                        build[b].since)
        BY <2>1, <3>1 DEF BuildStands, GathersInOrder
      <4>2. \A u \in Tool : build[b].since[u] <= edition'[u]
        <5> SUFFICES ASSUME NEW u \in Tool PROVE build[b].since[u] <= edition'[u]
          OBVIOUS
        <5>1. build[b].since[u] \in Nat /\ edition[u] \in Nat /\ edition'[u] \in Nat
          BY <1>1, <4>1 DEF PackInv, Gathered
        <5> QED
          BY <1>1, <4>1, <5>1
      <4>3. build[b].got \in SUBSET Answer
        BY <2>1 DEF BuildState
      <4>4. \A a \in build[b].got : a.of # "focus" \/ removable =>
               a.edition \in build[b].since[ToolOf[a.of]]..edition'[ToolOf[a.of]]
        <5>1. \A a \in build[b].got : InTime(a, build[b].since)
          BY <4>1 DEF Accounts
        <5> QED
          BY <1>1, <4>1, <4>3, <5>1, AnswersStand DEF PackInv
      <4> QED
        BY <1>1, <4>1, <4>2, <4>4 DEF Accounts, InTime
    <3> QED
      BY <1>1, <2>1, <3>1 DEF BuildStands, GathersInOrder
  <2>3. ExportIsItsOwn(b)'
    <3> SUFFICES ASSUME build[b].path # Nothing, temp[build[b].path] # Nothing, removable
                 PROVE  temp[build[b].path] \in build[b].since["tokenfuse"]..edition'["tokenfuse"]
      BY <1>1, <2>1 DEF BuildStands, ExportIsItsOwn
    <3>1. /\ build[b].at = 6
          /\ temp[build[b].path] \in build[b].since["tokenfuse"]..edition["tokenfuse"]
      BY <2>1 DEF BuildStands, ExportIsItsOwn
    <3>2. /\ build[b].since["tokenfuse"] \in Nat /\ edition["tokenfuse"] \in Nat
          /\ edition'["tokenfuse"] \in Nat /\ edition["tokenfuse"] <= edition'["tokenfuse"]
      BY <1>1, <2>1, <3>1 DEF PackInv, Gathered, BuildStands, GathersInOrder, Tool
    <3> QED
      BY <3>1, <3>2
  <2>4. HandedBackIsWhole(b)'
    <3> SUFFICES ASSUME build[b].at \in 8..9, build[b].pack # Nothing
                 PROVE  \A a \in build[b].pack.artifacts : a.of # "focus" \/ removable =>
                          a.edition \in build[b].since[ToolOf[a.of]]..edition'[ToolOf[a.of]]
      BY <1>1, <2>1 DEF BuildStands, HandedBackIsWhole, Accounts, InTime
    <3>1. /\ build[b].pack.artifacts \in SUBSET Answer /\ build[b].since \in [Tool -> Nat]
          /\ \A a \in build[b].pack.artifacts : InTime(a, build[b].since)
      BY <2>1 DEF BuildState, PackState, BuildStands, HandedBackIsWhole, Accounts
    <3> QED
      BY <1>1, <3>1, AnswersStand DEF PackInv
  <2> QED
    BY <2>2, <2>3, <2>4 DEF BuildStands
<1>3. RowsAreOfPacks'
  BY <1>1 DEF PackInv, RowsAreOfPacks, RowIsOfPack, SaidIsTrue, HasRow
<1> QED
  BY <1>1, <1>2, <1>3 DEF PackInv, Gathered

\* The builds of a process die with it, and with them every claim on a temporary file.
LEMMA DieKeeps == ASSUME PackInv, Die PROVE PackInv'
<1>1. /\ fresh' = 0 /\ money' = FALSE /\ UNCHANGED <<removable, edition, temp, journal>>
      /\ build' = [b \in Build |-> AfterDeath(b)]
  BY DEF Die
<1>2. NotBegun \in BuildState /\ NotBegun.at = 0 /\ NotBegun.path = Nothing
      /\ NotBegun.pack = Nothing
  BY DEF NotBegun, BuildState
<1>3. ASSUME NEW b \in Build
      PROVE  /\ build'[b] \in BuildState
             /\ \/ build[b].at = 9 /\ build'[b] = build[b]
                \/ /\ build[b].at = 8 /\ build'[b].at = 9 /\ build'[b].pack = Nothing
                   /\ build'[b].path = Nothing
                \/ build[b].at \in 0..7 /\ build'[b] = NotBegun
  <2>1. build[b] \in BuildState /\ build[b].at \in 0..9
        /\ (build[b].at = 8 => build[b].path = Nothing)
    BY DEF PackInv, Gathered, BuildState, BuildStands, ExportIsItsOwn
  <2>5. build'[b] = AfterDeath(b)
    BY <1>1
  <2>2. CASE build[b].at = 9
    BY <2>1, <2>2, <2>5 DEF AfterDeath
  <2>3. CASE build[b].at = 8
    <3> DEFINE t == [build[b] EXCEPT !.at = 9]
    <3>1. build'[b] = [t EXCEPT !.pack = Nothing]
      BY <2>3, <2>5 DEF AfterDeath
    <3>2. t \in BuildState /\ t.at = 9 /\ t.path = Nothing
      BY <2>1, <2>3 DEF BuildState
    <3> HIDE DEF t
    <3>3. build'[b] \in BuildState /\ build'[b].at = 9 /\ build'[b].pack = Nothing
          /\ build'[b].path = Nothing
      BY <3>1, <3>2 DEF BuildState
    <3> QED
      BY <2>3, <3>3
  <2>4. CASE build[b].at \in 0..7
    BY <1>2, <2>4, <2>5 DEF AfterDeath
  <2> QED
    BY <2>1, <2>2, <2>3, <2>4
<1>4. ASSUME NEW b \in Build PROVE BuildStands(b)'
  <2>1. CASE build[b].at = 9 /\ build'[b] = build[b]
    <3>1. BuildStands(b)
      BY DEF PackInv
    <3>2. HandedBackIsWhole(b)'
      BY <1>1, <2>1, <3>1 DEF BuildStands, HandedBackIsWhole, Accounts, InTime
    <3>3. GathersInOrder(b)' /\ ExportIsItsOwn(b)'
      BY <2>1, <3>1 DEF BuildStands, GathersInOrder, ExportIsItsOwn
    <3> QED
      BY <3>2, <3>3 DEF BuildStands
  <2>2. CASE build'[b].at = 9 /\ build'[b].pack = Nothing /\ build'[b].path = Nothing
    BY <2>2 DEF BuildStands, GathersInOrder, ExportIsItsOwn, HandedBackIsWhole
  <2>3. CASE build'[b] = NotBegun
    BY <1>2, <2>3 DEF BuildStands, GathersInOrder, ExportIsItsOwn, HandedBackIsWhole
  <2> QED
    BY <1>3, <2>1, <2>2, <2>3
<1>5. RowsAreOfPacks'
  <2>1. ASSUME NEW row \in journal PROVE RowIsOfPack(row)'
    <3>1. RowIsOfPack(row)
      BY DEF PackInv, RowsAreOfPacks
    <3>2. \/ build'[row.build] = build[row.build]
          \/ build'[row.build].at = 9 /\ build'[row.build].pack = Nothing
      BY <1>3, <3>1 DEF RowIsOfPack
    <3> QED
      BY <3>1, <3>2 DEF RowIsOfPack
  <2>2. ASSUME NEW c \in Build PROVE SaidIsTrue(c)'
    <3>1. SaidIsTrue(c) /\ (build'[c] = build[c] \/ build'[c].pack = Nothing)
      BY <1>2, <1>3 DEF PackInv, RowsAreOfPacks
    <3> QED
      BY <1>1, <3>1 DEF SaidIsTrue, HasRow
  <2> QED
    BY <1>1, <2>1, <2>2 DEF RowsAreOfPacks
<1>6. build' \in [Build -> BuildState]
  <2>1. DOMAIN build' = Build /\ build' = [b \in Build |-> build'[b]]
    BY <1>1
  <2> QED
    BY <1>3, <2>1
<1> QED
  BY <1>1, <1>4, <1>5, <1>6 DEF PackInv, Gathered

LEMMA PairedKeeps == ASSUME PackInv, money' \in BOOLEAN,
                            UNCHANGED <<removable, edition, build, temp, fresh, journal>>
                     PROVE  PackInv'
<1>1. ASSUME NEW b \in Build PROVE BuildStands(b)'
  BY DEF PackInv, BuildStands, GathersInOrder, ExportIsItsOwn, HandedBackIsWhole, Accounts, InTime
<1> QED
  BY <1>1 DEF PackInv, Gathered, RowsAreOfPacks, RowIsOfPack, SaidIsTrue, HasRow

\* Whatever tools are ticked, however many builds run side by side, whatever tools fail, change
\* their answers or exit well with nothing written, and whenever the console dies, a pack
\* lists every artifact of a ticked tool as held or missing (an unsigned one all but the
\* Cloud's), its bytes are answers given while it was built (the FOCUS export's as far as
\* temporary files can be removed), a row of the journal is of the signed pack that was
\* assembled, and a pack said to be journaled has one (evidence/commands.rs,
\* connectors/evidence.rs, tokenfuse.rs).
THEOREM PackIsWhatItSaysHolds == PackSpec => []PackIsWhatItSays
<1>1. PackInit => PackInv
  <2> SUFFICES ASSUME PackInit PROVE PackInv
    OBVIOUS
  <2>1. NotBegun \in BuildState /\ NotBegun.at = 0 /\ NotBegun.path = Nothing
        /\ NotBegun.pack = Nothing
    BY DEF NotBegun, BuildState
  <2>2. \A b \in Build : build[b] = NotBegun
    BY DEF PackInit
  <2>3. build \in [Build -> BuildState]
    BY <2>1 DEF PackInit
  <2>4. Gathered
    BY <2>3 DEF PackInit, Gathered
  <2>5. \A b \in Build : BuildStands(b)
    BY <2>1, <2>2 DEF BuildStands, GathersInOrder, ExportIsItsOwn, HandedBackIsWhole
  <2>6. RowsAreOfPacks
    BY <2>1, <2>2 DEF PackInit, RowsAreOfPacks, SaidIsTrue
  <2> QED
    BY <2>4, <2>5, <2>6 DEF PackInv
<1>2. PackInv /\ [PackNext]_packVars => PackInv'
  <2> SUFFICES ASSUME PackInv, [PackNext]_packVars PROVE PackInv'
    OBVIOUS
  <2>1. ASSUME NEW b \in Build, Begin(b) PROVE PackInv'
    BY <2>1, BeginKeeps
  <2>2. ASSUME NEW b \in Build, Gather(b) PROVE PackInv'
    BY <2>2, GatherKeeps
  <2>3. ASSUME NEW b \in Build, GatherFails(b) PROVE PackInv'
    BY <2>3, GatherFailsKeeps
  <2>4. ASSUME NEW b \in Build, Export(b) PROVE PackInv'
    BY <2>4, ExportKeeps
  <2>5. ASSUME NEW b \in Build, ReadBack(b) PROVE PackInv'
    BY <2>5, ReadBackKeeps
  <2>6. ASSUME NEW b \in Build, NoPack(b) PROVE PackInv'
    BY <2>6, NoPackKeeps
  <2>7. ASSUME NEW b \in Build, HandBack(b) PROVE PackInv'
    BY <2>7, HandBackKeeps
  <2>12. ASSUME NEW b \in Build, Journal(b) PROVE PackInv'
    BY <2>12, JournalKeeps
  <2>8. ASSUME NEW t \in Tool, Edit(t) PROVE PackInv'
    BY <2>8, EditKeeps
  <2>9. CASE Paired
    BY <2>9, PairedKeeps DEF Paired
  <2>10. CASE Die
    BY <2>10, DieKeeps
  <2>11. CASE UNCHANGED packVars
    BY <2>11, PairedKeeps DEF packVars, PackInv, Gathered
  <2> QED
    BY <2>1, <2>2, <2>3, <2>4, <2>5, <2>6, <2>7, <2>8, <2>9, <2>10, <2>11, <2>12 DEF PackNext
<1>3. PackInv => PackIsWhatItSays
  <2> SUFFICES ASSUME PackInv, NEW b \in Build, build[b].pack # Nothing
               PROVE  LET p == build[b].pack
                          packed == {a.of : a \in p.artifacts}
                      IN  /\ packed \cup p.missing =
                                {s \in Artifact : /\ ToolOf[s] \in build[b].request.asked
                                                  /\ ToolOf[s] = "cloud" => p.signed}
                          /\ packed \cap p.missing = {}
                          /\ p.zip = p.artifacts
                          /\ \A a \in p.artifacts : a.of # "focus" \/ removable =>
                               a.edition \in build[b].since[ToolOf[a.of]]..edition[ToolOf[a.of]]
                          /\ p.journaled => \E row \in journal : row.build = b
                          /\ \A row \in journal : row.build = b => row.zip = p.zip /\ p.signed
    BY Zenon DEF PackIsWhatItSays
  <2>1. build[b].at \in 8..9
    BY DEF PackInv, Gathered, BuildState, BuildStands, GathersInOrder
  <2>2. \A row \in journal : row.build = b => row.zip = build[b].pack.zip /\ build[b].pack.signed
    BY DEF PackInv, RowsAreOfPacks, RowIsOfPack
  <2>3. build[b].pack.journaled => \E row \in journal : row.build = b
    BY DEF PackInv, RowsAreOfPacks, SaidIsTrue, HasRow
  <2>4. /\ Accounts(build[b].pack.artifacts, build[b].pack.missing,
                    {s \in Artifact : ToolOf[s] \in Effective(build[b].request)}, build[b].since)
        /\ build[b].pack.zip = build[b].pack.artifacts
        /\ build[b].pack.signed <=> build[b].request.paired
    BY <2>1 DEF PackInv, BuildStands, HandedBackIsWhole
  <2>5. {s \in Artifact : ToolOf[s] \in Effective(build[b].request)}
          = {s \in Artifact : /\ ToolOf[s] \in build[b].request.asked
                              /\ ToolOf[s] = "cloud" => build[b].pack.signed}
    BY <2>4 DEF Effective
  <2> QED
    BY <2>2, <2>3, <2>4, <2>5 DEF Accounts, InTime
<1> QED
  BY <1>1, <1>2, <1>3, PTL DEF PackSpec

-----------------------------------------------------------------------------
(***************************************************************************)
(* LiveFeed: what is stored, sent and shown.                               *)
(***************************************************************************)
FeedLine == [by : {"product", "demo", "mock"}, n : Nat]
FeedRow  == [key : Int, line : FeedLine]

FeedTypeOK ==
    /\ found \in BOOLEAN /\ mode \in {"starting", "live", "demo", "unavailable"}
    /\ waiting \in Seq(FeedLine) /\ stored \in Seq(FeedLine) /\ batch \in Seq(FeedLine)
    /\ liveId \in Int /\ liveId < 0 /\ written \in Nat
    /\ ring \in [Page -> [open : BOOLEAN, q : Seq(FeedRow)]]
    /\ asked \in [Page -> [at : {"never", "asked", "answered", "done"}, rows : Seq(FeedRow)]]
    /\ shown \in [Page -> Seq(FeedRow)]

\* A found environment is never served as a demo, and what is broadcast is stored.
FeedIsOwn ==
    /\ NeverFeedsInvented /\ HistoryIsKept
    /\ found => mode # "demo"
    /\ Of(batch) \subseteq Of(stored)

\* A row off the stream: its key was given out, its line is in the store.
IsLive(r) == r.key > liveId /\ r.key < 0 /\ r.line \in Of(stored)

\* The stream of a page is newest last, and newer than any live row on the page.
StreamIsInOrder(p) ==
    /\ \A i \in DOMAIN ring[p].q : IsLive(ring[p].q[i])
    /\ \A i, j \in DOMAIN ring[p].q : i < j => ring[p].q[j].key < ring[p].q[i].key
    /\ \A i \in DOMAIN ring[p].q, j \in DOMAIN shown[p] :
           shown[p][j].key < 0 => ring[p].q[i].key < shown[p][j].key

\* Two rows a page keeps, r received after s or answered above it.
Later(r, s) ==
    /\ r.key # s.key
    /\ r.key > 0 => s.key > 0 /\ r.key > s.key
    /\ r.key < 0 /\ s.key < 0 => r.key < s.key

\* The rows a page keeps are newest first, each with a key of its own.
PageIsInOrder(p) ==
    /\ \A i \in DOMAIN shown[p] : shown[p][i].key < 0 => IsLive(shown[p][i])
    /\ \A i, j \in DOMAIN shown[p] : i < j => Later(shown[p][i], shown[p][j])

\* An answer of the store has a row's id for a key.
AnswerIsStored(p) ==
    /\ \A i \in DOMAIN asked[p].rows : asked[p].rows[i].key > 0
    /\ \A i, j \in DOMAIN asked[p].rows :
           i < j => asked[p].rows[i].key > asked[p].rows[j].key

FeedInv ==
    /\ FeedTypeOK /\ FeedIsOwn
    /\ \A p \in Page : StreamIsInOrder(p) /\ PageIsInOrder(p) /\ AnswerIsStored(p)

\* The rows a page keeps are the first of those it has.
LEMMA FirstOf ==
    ASSUME NEW T, NEW s \in Seq(T)
    PROVE  /\ First(s) \in Seq(T)
           /\ \A i \in DOMAIN First(s) : i \in DOMAIN s /\ First(s)[i] = s[i]
  <1> DEFINE n == IF Len(s) < FetchLimit THEN Len(s) ELSE FetchLimit
  <1>1. n \in Nat /\ n <= Len(s)
    BY FeedAssumption
  <1>2. First(s) = SubSeq(s, 1, n)
    BY DEF First
  <1> HIDE DEF n
  <1>3. QED
    BY <1>1, <1>2

\* What a channel holds is the end of what it held, q, and was sent, s.
SentFrom(q, s, new, d) ==
    \A i \in DOMAIN new :
        /\ i \in Nat \ {0} /\ i + d <= Len(q) + Len(s)
        /\ i + d <= Len(q) => new[i] = q[i + d]
        /\ i + d > Len(q) => new[i] = s[(i + d) - Len(q)]

LEMMA SendAllOf ==
    ASSUME NEW T, NEW q \in Seq(T), NEW s \in Seq(T)
    PROVE  SendAll(q, s) \in Seq(T) /\ \E d \in Nat : SentFrom(q, s, SendAll(q, s), d)
  <1> DEFINE all == q \o s
  <1>1. /\ all \in Seq(T) /\ Len(all) = Len(q) + Len(s)
        /\ Len(q) \in Nat /\ Len(s) \in Nat
        /\ \A i \in 1..Len(q) : all[i] = q[i]
        /\ \A i \in (Len(q) + 1)..(Len(q) + Len(s)) : all[i] = s[i - Len(q)]
        /\ Len(all) \in Nat /\ DOMAIN all = 1..Len(all)
    OBVIOUS
  <1>2. SendAll(q, s) = IF Len(all) <= Capacity THEN all
                        ELSE SubSeq(all, Len(all) - Capacity + 1, Len(all))
    BY DEF SendAll
  <1> HIDE DEF all
  <1>3. CASE Len(all) <= Capacity
    <2>1. SendAll(q, s) = all
      BY <1>2, <1>3
    <2>2. \A i \in DOMAIN all :
              /\ i \in Nat \ {0} /\ i + 0 <= Len(q) + Len(s)
              /\ i + 0 <= Len(q) => all[i] = q[i + 0]
              /\ i + 0 > Len(q) => all[i] = s[(i + 0) - Len(q)]
      BY <1>1
    <2>3. SentFrom(q, s, all, 0)
      BY <2>2 DEF SentFrom
    <2>4. QED
      BY <1>1, <2>1, <2>3
  <1>4. CASE Len(all) > Capacity
    <2> DEFINE d == Len(all) - Capacity
               r == SubSeq(all, d + 1, Len(all))
    <2>1. SendAll(q, s) = r
      BY <1>1, <1>2, <1>4, FeedAssumption
    <2> DEFINE len == Len(all)
    <2>2. d \in Nat /\ Len(all) \in Nat /\ d + 1 \in 1..Len(all)
      <3>1. len \in Nat /\ len > Capacity /\ d = len - Capacity
        BY <1>1, <1>4
      <3> HIDE DEF len, d
      <3>2. d \in Nat /\ len \in Nat /\ d + 1 \in 1..len
        BY <3>1, FeedAssumption
      <3>3. QED
        BY <3>2 DEF len
    <2> HIDE DEF d, len
    <2>3. r \in Seq(T) /\ Len(r) = Len(all) - d /\ \A i \in 1..(Len(all) - d) : r[i] = all[i + d]
      BY <1>1, <2>2
    <2>4. DOMAIN r = 1..(Len(all) - d)
      BY <2>3
    <2> HIDE DEF r
    <2>5. \A i \in DOMAIN r :
              /\ i \in Nat \ {0} /\ i + d <= Len(q) + Len(s)
              /\ i + d <= Len(q) => r[i] = q[i + d]
              /\ i + d > Len(q) => r[i] = s[(i + d) - Len(q)]
      <3>1. ASSUME NEW i \in DOMAIN r
            PROVE  i \in Nat \ {0} /\ i + d <= Len(q) + Len(s) /\ r[i] = all[i + d]
        BY <1>1, <2>2, <2>3, <2>4
      <3>2. \A j \in 1..(Len(q) + Len(s)) :
                /\ j <= Len(q) => all[j] = q[j]
                /\ j > Len(q) => all[j] = s[j - Len(q)]
        BY <1>1
      <3>3. \A i \in DOMAIN r : i + d \in 1..(Len(q) + Len(s))
        BY <1>1, <2>2, <3>1
      <3>4. ASSUME NEW i \in DOMAIN r
            PROVE  /\ i + d <= Len(q) => all[i + d] = q[i + d]
                   /\ i + d > Len(q) => all[i + d] = s[(i + d) - Len(q)]
        <4> DEFINE k == i + d
        <4>1. k \in 1..(Len(q) + Len(s))
          BY <3>3
        <4> HIDE DEF k
        <4>2. /\ k <= Len(q) => all[k] = q[k]
              /\ k > Len(q) => all[k] = s[k - Len(q)]
          BY <3>2, <4>1
        <4>3. QED
          BY <4>2 DEF k
      <3>5. QED
        BY <3>1, <3>4
    <2>6. SentFrom(q, s, r, d)
      BY <2>5 DEF SentFrom
    <2>7. QED
      BY <2>1, <2>2, <2>3, <2>6
  <1>5. QED
    BY <1>1, <1>3, <1>4, FeedAssumption

\* Nothing is in a channel that was not in it before or is sent to it.
LEMMA SentIsOf ==
    ASSUME NEW T, NEW q \in Seq(T), NEW s \in Seq(T)
    PROVE  Of(SendAll(q, s)) \subseteq Of(q) \cup Of(s)
  <1>1. PICK d \in Nat : \A i \in DOMAIN SendAll(q, s) :
                  /\ i \in Nat \ {0} /\ i + d <= Len(q) + Len(s)
                  /\ i + d <= Len(q) => SendAll(q, s)[i] = q[i + d]
                  /\ i + d > Len(q) => SendAll(q, s)[i] = s[(i + d) - Len(q)]
    <2>1. \E d \in Nat : SentFrom(q, s, SendAll(q, s), d)
      BY SendAllOf
    <2>2. QED
      BY <2>1 DEF SentFrom
  <1>2. ASSUME NEW i \in DOMAIN SendAll(q, s) PROVE SendAll(q, s)[i] \in Of(q) \cup Of(s)
    <2>1. CASE i + d <= Len(q)
      <3>1. i + d \in DOMAIN q
        BY <1>1, <2>1
      <3>2. QED
        BY <1>1, <2>1, <3>1 DEF Of
    <2>2. CASE i + d > Len(q)
      <3>1. (i + d) - Len(q) \in DOMAIN s
        BY <1>1, <2>2
      <3>2. QED
        BY <1>1, <2>2, <3>1 DEF Of
    <2>3. QED
      BY <1>1, <2>1, <2>2
  <1>3. QED
    BY <1>2 DEF Of

LEMMA OfAppended ==
    ASSUME NEW T, NEW s \in Seq(T), NEW e \in T
    PROVE  Append(s, e) \in Seq(T) /\ Of(Append(s, e)) = Of(s) \cup {e}
  <1>1. /\ Append(s, e) \in Seq(T) /\ DOMAIN Append(s, e) = 1..(Len(s) + 1)
        /\ \A i \in 1..Len(s) : Append(s, e)[i] = s[i]
        /\ Append(s, e)[Len(s) + 1] = e /\ Len(s) \in Nat /\ DOMAIN s = 1..Len(s)
    OBVIOUS
  <1>2. QED
    BY <1>1 DEF Of

LEMMA OfJoined ==
    ASSUME NEW T, NEW s \in Seq(T), NEW t \in Seq(T)
    PROVE  s \o t \in Seq(T) /\ Of(s \o t) = Of(s) \cup Of(t)
  <1>1. /\ s \o t \in Seq(T) /\ DOMAIN (s \o t) = 1..(Len(s) + Len(t))
        /\ \A i \in 1..Len(s) : (s \o t)[i] = s[i]
        /\ \A i \in (Len(s) + 1)..(Len(s) + Len(t)) : (s \o t)[i] = t[i - Len(s)]
        /\ Len(s) \in Nat /\ DOMAIN s = 1..Len(s) /\ Len(t) \in Nat /\ DOMAIN t = 1..Len(t)
    OBVIOUS
  <1>2. ASSUME NEW j \in DOMAIN t PROVE t[j] \in Of(s \o t)
    <2>1. Len(s) + j \in DOMAIN (s \o t) /\ (s \o t)[Len(s) + j] = t[j]
      BY <1>1
    <2>2. QED
      BY <2>1 DEF Of
  <1>3. ASSUME NEW i \in DOMAIN s PROVE s[i] \in Of(s \o t)
    <2>1. i \in DOMAIN (s \o t) /\ (s \o t)[i] = s[i]
      BY <1>1
    <2>2. QED
      BY <2>1 DEF Of
  <1>4. ASSUME NEW i \in DOMAIN (s \o t) PROVE (s \o t)[i] \in Of(s) \cup Of(t)
    <2>1. CASE i <= Len(s)
      BY <1>1, <2>1 DEF Of
    <2>2. CASE i > Len(s)
      <3>1. i - Len(s) \in DOMAIN t /\ (s \o t)[i] = t[i - Len(s)]
        BY <1>1, <2>2
      <3>2. QED
        BY <3>1 DEF Of
    <2>3. QED
      BY <1>1, <2>1, <2>2
  <1>5. QED
    BY <1>1, <1>2, <1>3, <1>4 DEF Of

LEMMA LineIsOne == ASSUME FeedTypeOK, NEW by \in {"product", "demo", "mock"}
                   PROVE  Line(by) \in FeedLine /\ Line(by).by = by
  BY DEF FeedTypeOK, FeedLine, Line

LEMMA FeedStarts == FeedInit => FeedInv
  <1>1. SUFFICES ASSUME FeedInit PROVE FeedInv
    OBVIOUS
  <1>2. Of(<<>>) = {} /\ \A T : <<>> \in Seq(T)
    BY DEF Of
  <1>3. FeedTypeOK
    BY <1>1, <1>2 DEF FeedInit, FeedTypeOK, Closed
  <1>4. FeedIsOwn
    <2>1. mode = "starting" /\ waiting = <<>> /\ stored = <<>> /\ batch = <<>>
      BY <1>1 DEF FeedInit
    <2>2. QED
      BY <1>2, <2>1 DEF FeedIsOwn, NeverFeedsInvented, HistoryIsKept
  <1>5. \A p \in Page : StreamIsInOrder(p) /\ PageIsInOrder(p) /\ AnswerIsStored(p)
    <2>1. \A p \in Page : ring[p].q = <<>> /\ asked[p].rows = <<>> /\ shown[p] = <<>>
      BY <1>1 DEF FeedInit, Closed
    <2>2. DOMAIN <<>> = {}
      OBVIOUS
    <2>3. QED
      BY <2>1, <2>2 DEF StreamIsInOrder, PageIsInOrder, AnswerIsStored
  <1>6. QED
    BY <1>3, <1>4, <1>5 DEF FeedInv

\* A page that nothing is sent to and nothing is shown on stays as it is.
LEMMA PageRests ==
    ASSUME FeedInv, NEW p \in Page,
           Of(stored) \subseteq Of(stored'), liveId' \in Int, liveId' <= liveId,
           ring'[p].q = ring[p].q, shown'[p] = shown[p], asked'[p].rows = asked[p].rows
    PROVE  (StreamIsInOrder(p) /\ PageIsInOrder(p) /\ AnswerIsStored(p))'
  <1>1. FeedTypeOK /\ StreamIsInOrder(p) /\ PageIsInOrder(p) /\ AnswerIsStored(p)
    BY DEF FeedInv
  <1>2. ring[p].q \in Seq(FeedRow) /\ shown[p] \in Seq(FeedRow) /\ liveId \in Int
    BY <1>1 DEF FeedTypeOK
  <1>3. ASSUME NEW r \in FeedRow, IsLive(r) PROVE IsLive(r)'
    BY <1>2, <1>3 DEF IsLive, FeedRow
  <1>4. StreamIsInOrder(p)'
    <2>1. \A i \in DOMAIN ring[p].q : IsLive(ring[p].q[i]) /\ ring[p].q[i] \in FeedRow
      BY <1>1, <1>2 DEF StreamIsInOrder
    <2>2. \A i \in DOMAIN ring[p].q :
              LET r == ring[p].q[i]
              IN  r.key > liveId' /\ r.key < 0 /\ r.line \in Of(stored')
      BY <1>3, <2>1 DEF IsLive
    <2>3. QED
      BY <1>1, <2>2 DEF StreamIsInOrder, IsLive
  <1>5. PageIsInOrder(p)'
    <2>1. \A i \in DOMAIN shown[p] :
              /\ shown[p][i] \in FeedRow
              /\ shown[p][i].key < 0 => IsLive(shown[p][i])
      BY <1>1, <1>2 DEF PageIsInOrder
    <2>2. \A i \in DOMAIN shown[p] :
              LET r == shown[p][i]
              IN  r.key < 0 => r.key > liveId' /\ r.key < 0 /\ r.line \in Of(stored')
      BY <1>3, <2>1 DEF IsLive
    <2>3. QED
      BY <1>1, <2>2 DEF PageIsInOrder, IsLive
  <1>6. AnswerIsStored(p)'
    BY <1>1 DEF AnswerIsStored
  <1>7. QED
    BY <1>4, <1>5, <1>6

\* A product writes into the files of a found environment.
LEMMA WriteKeeps == ASSUME FeedInv, Write PROVE FeedInv'
  <1>1. /\ FeedTypeOK /\ found /\ waiting' = Append(waiting, Line("product"))
        /\ written' = written + 1
        /\ UNCHANGED <<found, named, storeDir, mode, stored, batch, liveId, ring, asked, shown>>
    BY DEF FeedInv, Write
  <1>2. Line("product") \in FeedLine /\ Line("product").by = "product"
    BY <1>1, LineIsOne
  <1>3. waiting' \in Seq(FeedLine) /\ Of(waiting') = Of(waiting) \cup {Line("product")}
    BY <1>1, <1>2, OfAppended DEF FeedTypeOK
  <1>4. FeedTypeOK'
    BY <1>1, <1>3 DEF FeedTypeOK
  <1>5. FeedIsOwn'
    BY <1>1, <1>2, <1>3 DEF FeedInv, FeedIsOwn, NeverFeedsInvented, HistoryIsKept, Of
  <1>6. \A p \in Page : (StreamIsInOrder(p) /\ PageIsInOrder(p) /\ AnswerIsStored(p))'
    <2>1. liveId' \in Int /\ liveId' <= liveId /\ Of(stored) \subseteq Of(stored')
      BY <1>1 DEF FeedTypeOK
    <2>2. QED
      BY <1>1, <2>1, PageRests
  <1>7. QED
    BY <1>4, <1>5, <1>6 DEF FeedInv

\* What a demo console gives itself stands behind what was waiting.
LEMMA WaitingOf ==
    ASSUME FeedInv, NEW lines,
           lines = waiting \/ (~found /\ lines = Append(waiting, Line("demo")))
    PROVE  /\ lines \in Seq(FeedLine)
           /\ found => \A l \in Of(lines) : l.by # "demo"
  <1>1. FeedTypeOK /\ NeverFeedsInvented
    BY DEF FeedInv, FeedIsOwn
  <1>2. waiting \in Seq(FeedLine) /\ Line("demo") \in FeedLine
    BY <1>1, LineIsOne DEF FeedTypeOK
  <1>3. Append(waiting, Line("demo")) \in Seq(FeedLine)
    BY <1>2, OfAppended
  <1>4. QED
    BY <1>1, <1>2, <1>3 DEF NeverFeedsInvented

\* Rows that are inserted and broadcast, or only inserted, leave the bus as it must be.
LEMMA InsertedIsOwn ==
    ASSUME FeedInv, NEW lines,
           lines = waiting \/ (~found /\ lines = Append(waiting, Line("demo"))),
           stored' = stored \o lines, waiting' = <<>>,
           batch' = batch \/ batch' = SendAll(batch, lines) \/ batch' = SendAll(<<>>, lines),
           UNCHANGED found
    PROVE  /\ stored' \in Seq(FeedLine) /\ waiting' \in Seq(FeedLine)
           /\ batch' \in Seq(FeedLine)
           /\ NeverFeedsInvented' /\ Of(batch') \subseteq Of(stored')
           /\ Of(stored) \subseteq Of(stored')
  <1>1. /\ stored \in Seq(FeedLine) /\ batch \in Seq(FeedLine)
        /\ NeverFeedsInvented /\ Of(batch) \subseteq Of(stored)
    BY DEF FeedInv, FeedIsOwn, FeedTypeOK
  <1>2. lines \in Seq(FeedLine) /\ (found => \A l \in Of(lines) : l.by # "demo")
    BY WaitingOf
  <1>3. stored' \in Seq(FeedLine) /\ Of(stored') = Of(stored) \cup Of(lines)
    BY <1>1, <1>2, OfJoined
  <1>4. batch' \in Seq(FeedLine) /\ Of(batch') \subseteq Of(batch) \cup Of(lines)
    <2>1. <<>> \in Seq(FeedLine) /\ Of(<<>>) = {}
      BY DEF Of
    <2>2. /\ SendAll(batch, lines) \in Seq(FeedLine)
          /\ Of(SendAll(batch, lines)) \subseteq Of(batch) \cup Of(lines)
      BY <1>1, <1>2, SendAllOf, SentIsOf
    <2>3. /\ SendAll(<<>>, lines) \in Seq(FeedLine)
          /\ Of(SendAll(<<>>, lines)) \subseteq Of(<<>>) \cup Of(lines)
      BY <2>1, <1>2, SendAllOf, SentIsOf
    <2>4. QED
      BY <1>1, <2>1, <2>2, <2>3
  <1>5. waiting' \in Seq(FeedLine) /\ Of(waiting') = {}
    BY DEF Of
  <1>6. NeverFeedsInvented'
    BY <1>1, <1>2, <1>3, <1>4, <1>5 DEF NeverFeedsInvented
  <1>7. QED
    BY <1>1, <1>3, <1>4, <1>5, <1>6

LEMMA BootstrapKeeps ==
    ASSUME FeedInv, NEW w \in SUBSET StateDir, NEW f \in {"none", "open", "insert", "offset"},
           Bootstrap(w, f)
    PROVE  FeedInv'
  <1>1. /\ FeedTypeOK /\ FeedIsOwn /\ mode' = Opened(StoreDir(w), f)
        /\ storeDir' = IF mode' = "live" THEN StoreDir(w)
                       ELSE IF mode' = "demo" THEN "scratch" ELSE "none"
        /\ UNCHANGED <<found, named, liveId, ring, asked, shown>>
    BY DEF FeedInv, Bootstrap
  <1>2. /\ mode' \in {"live", "demo", "unavailable"} /\ (mode' = "demo" => ~found)
        /\ mode' = "live" => StoreDir(w) # "none"
    BY <1>1 DEF Opened
  <1>3. HistoryIsKept'
    <2>1. ASSUME Usable(w) # {} PROVE FirstUsable(w) \in named
      <3>1. Usable(w) \subseteq {1, 2, 3} /\ DOMAIN StateDirs = {1, 2, 3}
        BY DEF Usable, StateDirs
      <3>2. \E i \in Usable(w) : \A j \in Usable(w) : i <= j
        BY <2>1, <3>1
      <3>3. PICK k \in Usable(w) : FirstUsable(w) = StateDirs[k]
        BY <3>2 DEF FirstUsable
      <3>4. QED
        BY <3>3 DEF Usable
    <2>2. ASSUME mode' = "live", named # {} PROVE storeDir' \in named
      BY <1>1, <1>2, <2>1, <2>2 DEF StoreDir
    <2>3. QED
      BY <1>1, <2>2 DEF HistoryIsKept
  <1>4. /\ stored' \in Seq(FeedLine) /\ waiting' \in Seq(FeedLine) /\ batch' \in Seq(FeedLine)
        /\ NeverFeedsInvented' /\ Of(batch') \subseteq Of(stored')
        /\ Of(stored) \subseteq Of(stored')
    <2> DEFINE seed == IF found THEN waiting ELSE Append(waiting, Line("demo"))
    <2>1. CASE UNCHANGED <<stored, waiting, batch>>
      BY <1>1, <2>1 DEF FeedTypeOK, FeedIsOwn, NeverFeedsInvented
    <2>2. CASE /\ stored' = stored \o seed /\ waiting' = <<>>
               /\ batch' = batch \/ batch' = SendAll(<<>>, seed)
      <3>1. seed = waiting \/ (~found /\ seed = Append(waiting, Line("demo")))
        OBVIOUS
      <3> HIDE DEF seed
      <3>2. QED
        BY <1>1, <2>2, <3>1, InsertedIsOwn
    <2>3. QED
      BY <2>1, <2>2 DEF Bootstrap, Insert
  <1>5. written' \in Nat
    BY <1>1 DEF Bootstrap, FeedTypeOK
  <1>6. FeedTypeOK'
    BY <1>1, <1>2, <1>4, <1>5 DEF FeedTypeOK
  <1>7. FeedIsOwn'
    BY <1>1, <1>2, <1>3, <1>4 DEF FeedIsOwn
  <1>8. \A p \in Page : (StreamIsInOrder(p) /\ PageIsInOrder(p) /\ AnswerIsStored(p))'
    <2>1. liveId' \in Int /\ liveId' <= liveId
      BY <1>1 DEF FeedTypeOK
    <2>2. QED
      BY <1>1, <1>4, <2>1, PageRests
  <1>9. QED
    BY <1>6, <1>7, <1>8 DEF FeedInv

LEMMA PollKeeps ==
    ASSUME FeedInv, NEW f \in {"none", "insert", "offset"}, Poll(f) PROVE FeedInv'
  <1>1. /\ FeedTypeOK /\ FeedIsOwn /\ mode \in {"live", "demo"} /\ PollOnce(f)
        /\ UNCHANGED <<found, named, storeDir, mode, liveId, ring, asked, shown>>
    BY DEF FeedInv, Poll
  <1>2. ThisTick = waiting \/ (~found /\ ThisTick = Append(waiting, Line("demo")))
    BY <1>1 DEF ThisTick, FeedIsOwn
  <1>3. /\ stored' \in Seq(FeedLine) /\ waiting' \in Seq(FeedLine) /\ batch' \in Seq(FeedLine)
        /\ NeverFeedsInvented' /\ Of(batch') \subseteq Of(stored')
        /\ Of(stored) \subseteq Of(stored')
    <2>1. CASE f = "insert"
      <3>1. waiting' = <<>> /\ UNCHANGED <<stored, batch>>
        BY <1>1, <2>1 DEF PollOnce
      <3>2. waiting' \in Seq(FeedLine) /\ Of(waiting') = {}
        BY <3>1 DEF Of
      <3>3. QED
        BY <1>1, <3>1, <3>2 DEF FeedTypeOK, FeedIsOwn, NeverFeedsInvented
    <2>2. CASE f # "insert"
      <3>1. /\ stored' = stored \o ThisTick /\ waiting' = <<>>
            /\ batch' = batch \/ batch' = SendAll(batch, ThisTick)
        BY <1>1, <2>2 DEF PollOnce, Insert
      <3> HIDE DEF ThisTick
      <3>2. QED
        BY <1>1, <1>2, <3>1, InsertedIsOwn
    <2>3. QED
      BY <2>1, <2>2
  <1>4. written' \in Nat
    BY <1>1 DEF Poll, FeedTypeOK
  <1>5. FeedTypeOK'
    BY <1>1, <1>3, <1>4 DEF FeedTypeOK
  <1>6. FeedIsOwn'
    BY <1>1, <1>3 DEF FeedIsOwn, HistoryIsKept
  <1>7. \A p \in Page : (StreamIsInOrder(p) /\ PageIsInOrder(p) /\ AnswerIsStored(p))'
    <2>1. liveId' \in Int /\ liveId' <= liveId
      BY <1>1 DEF FeedTypeOK
    <2>2. QED
      BY <1>1, <1>3, <2>1, PageRests
  <1>8. QED
    BY <1>5, <1>6, <1>7 DEF FeedInv

\* The rows of a batch, numbered down from the last key that was given out.
LEMMA StreamGrows ==
    ASSUME FeedInv, NEW p \in Page, NEW news \in Seq(FeedRow),
           \A i \in 1..Len(news) : /\ news[i].key = liveId - (i - 1)
                                   /\ news[i].line \in Of(stored),
           Of(stored) = Of(stored'), liveId' = liveId - Len(news),
           shown'[p] = shown[p], ring'[p].q = SendAll(ring[p].q, news)
    PROVE  StreamIsInOrder(p)' /\ PageIsInOrder(p)'
  <1> DEFINE q == ring[p].q
             new == SendAll(q, news)
             page == shown[p]
  <1>1. FeedTypeOK /\ StreamIsInOrder(p) /\ PageIsInOrder(p)
    BY DEF FeedInv
  <1>2. q \in Seq(FeedRow) /\ page \in Seq(FeedRow) /\ liveId \in Int /\ liveId < 0
    BY <1>1 DEF FeedTypeOK
  <1>3. /\ \A i \in DOMAIN q : q[i].key > liveId /\ q[i].key < 0 /\ q[i].line \in Of(stored)
        /\ \A i, j \in DOMAIN q : i < j => q[j].key < q[i].key
        /\ \A i \in DOMAIN q, j \in DOMAIN page : page[j].key < 0 => q[i].key < page[j].key
    BY <1>1 DEF StreamIsInOrder, IsLive
  <1>4. \A j \in DOMAIN page : page[j].key < 0 => page[j].key > liveId /\ page[j].line \in Of(stored)
    BY <1>1 DEF PageIsInOrder, IsLive
  <1>5. /\ \A i \in DOMAIN q : q[i].key \in Int
        /\ \A i \in DOMAIN page : page[i].key \in Int
        /\ DOMAIN q = 1..Len(q) /\ Len(q) \in Nat
        /\ DOMAIN news = 1..Len(news) /\ Len(news) \in Nat
    <2>1. \A r \in FeedRow : r.key \in Int
      BY DEF FeedRow
    <2> HIDE DEF q, page
    <2>2. QED
      BY <1>2, <2>1
  <1>6. PICK d \in Nat : \A i \in DOMAIN new :
            /\ i \in Nat \ {0} /\ i + d <= Len(q) + Len(news)
            /\ i + d <= Len(q) => new[i] = q[i + d]
            /\ i + d > Len(q) => new[i] = news[(i + d) - Len(q)]
    <2> HIDE DEF q
    <2>1. \E d \in Nat : SentFrom(q, news, new, d)
      BY <1>2, SendAllOf
    <2> HIDE DEF new
    <2>2. QED
      BY <2>1 DEF SentFrom
  <1>7. ring'[p].q = new /\ shown'[p] = page
    OBVIOUS
  <1> HIDE DEF q, new, page
  <1>8. ASSUME NEW i \in DOMAIN new, i + d <= Len(q)
        PROVE  i + d \in DOMAIN q /\ new[i] = q[i + d]
    BY <1>5, <1>6, <1>8
  <1>9. ASSUME NEW i \in DOMAIN new, i + d > Len(q)
        PROVE  /\ new[i].key = liveId - (((i + d) - Len(q)) - 1) /\ new[i].line \in Of(stored)
               /\ (i + d) - Len(q) \in 1..Len(news)
    <2>1. (i + d) - Len(q) \in 1..Len(news) /\ new[i] = news[(i + d) - Len(q)]
      <3>1. /\ i \in Nat \ {0} /\ i + d <= Len(q) + Len(news)
            /\ new[i] = news[(i + d) - Len(q)]
        BY <1>6, <1>9
      <3>2. Len(q) \in Nat /\ Len(news) \in Nat
        BY <1>5
      <3> DEFINE m == Len(q)
                 n == Len(news)
      <3>3. m \in Nat /\ n \in Nat /\ i \in Nat /\ d \in Nat /\ i + d <= m + n /\ i + d > m
        BY <3>1, <3>2, <1>9
      <3> HIDE DEF m, n
      <3>4. (i + d) - m \in 1..n
        BY <3>3
      <3>5. QED
        BY <3>1, <3>4 DEF m, n
    <2> DEFINE k == (i + d) - Len(q)
    <2>2. k \in 1..Len(news) /\ new[i] = news[k]
      BY <2>1
    <2> HIDE DEF k
    <2>3. new[i].key = liveId - (k - 1) /\ new[i].line \in Of(stored)
      BY <2>2
    <2>4. QED
      BY <2>2, <2>3 DEF k
  <1>10. ASSUME NEW i \in DOMAIN new
         PROVE  /\ new[i].key \in Int /\ new[i].key > liveId' /\ new[i].key < 0
                /\ new[i].line \in Of(stored)
    <2>1. CASE i + d <= Len(q)
      <3>1. liveId' <= liveId /\ liveId' \in Int
        BY <1>2, <1>5
      <3>2. QED
        BY <1>2, <1>3, <1>5, <1>8, <2>1, <3>1
    <2>2. CASE i + d > Len(q)
      <3> DEFINE k == (i + d) - Len(q)
      <3>1. new[i].key = liveId - (k - 1) /\ new[i].line \in Of(stored) /\ k \in 1..Len(news)
        BY <1>9, <2>2
      <3> HIDE DEF k
      <3>2. QED
        BY <1>2, <1>5, <3>1
    <2>3. QED
      BY <1>5, <1>6, <2>1, <2>2
  <1>11. ASSUME NEW i \in DOMAIN new, NEW j \in DOMAIN new, i < j
         PROVE  new[j].key < new[i].key
    <2>1. i \in Nat /\ j \in Nat
      BY <1>6
    <2>2. CASE j + d <= Len(q)
      <3>1. i + d <= Len(q) /\ i + d < j + d
        BY <1>5, <1>11, <2>1, <2>2
      <3>2. /\ i + d \in DOMAIN q /\ new[i] = q[i + d]
            /\ j + d \in DOMAIN q /\ new[j] = q[j + d]
        BY <1>8, <2>2, <3>1
      <3>3. QED
        BY <1>3, <3>1, <3>2
    <2>3. CASE i + d <= Len(q) /\ j + d > Len(q)
      <3>1. new[i].key > liveId /\ new[i].key \in Int
        BY <1>3, <1>5, <1>8, <2>3
      <3> DEFINE k == (j + d) - Len(q)
      <3>2. new[j].key = liveId - (k - 1) /\ k \in 1..Len(news)
        BY <1>9, <2>3
      <3> HIDE DEF k
      <3>3. QED
        BY <1>2, <3>1, <3>2
    <2>4. CASE i + d > Len(q) /\ j + d > Len(q)
      <3> DEFINE k == (i + d) - Len(q)
                 m == (j + d) - Len(q)
      <3>1. /\ new[i].key = liveId - (k - 1) /\ k \in 1..Len(news)
            /\ new[j].key = liveId - (m - 1) /\ m \in 1..Len(news)
        BY <1>9, <2>4
      <3>2. k < m
        BY <1>5, <1>11, <2>1
      <3> HIDE DEF k, m
      <3>3. QED
        BY <1>2, <3>1, <3>2
    <2>5. QED
      BY <1>5, <1>11, <2>1, <2>2, <2>3, <2>4
  <1>12. ASSUME NEW i \in DOMAIN new, NEW j \in DOMAIN page, page[j].key < 0
         PROVE  new[i].key < page[j].key
    <2>1. CASE i + d <= Len(q)
      BY <1>3, <1>8, <1>12, <2>1
    <2>2. CASE i + d > Len(q)
      <3> DEFINE k == (i + d) - Len(q)
      <3>1. new[i].key = liveId - (k - 1) /\ k \in 1..Len(news)
        BY <1>9, <2>2
      <3> HIDE DEF k
      <3>2. page[j].key > liveId /\ page[j].key \in Int
        BY <1>4, <1>5, <1>12
      <3>3. QED
        BY <1>2, <3>1, <3>2
    <2>3. QED
      BY <1>5, <1>6, <2>1, <2>2
  <1>13. StreamIsInOrder(p)'
    BY <1>7, <1>10, <1>11, <1>12 DEF StreamIsInOrder, IsLive
  <1>14. PageIsInOrder(p)'
    <2>1. liveId' <= liveId /\ liveId' \in Int
      BY <1>2, <1>5
    <2>2. \A j \in DOMAIN page : page[j].key < 0 => page[j].key > liveId' /\ page[j].line \in Of(stored')
      BY <1>2, <1>4, <1>5, <2>1
    <2>3. QED
      BY <1>1, <1>7, <2>2 DEF PageIsInOrder, IsLive, page
  <1>15. QED
    BY <1>13, <1>14

LEMMA DrainKeeps == ASSUME FeedInv, Drain PROVE FeedInv'
  <1> DEFINE news == [i \in DOMAIN batch |-> Row(LiveKey(i), batch[i])]
  <1>1. /\ FeedTypeOK /\ FeedIsOwn
        /\ ring' = [p \in Page |-> IF ring[p].open THEN [ring[p] EXCEPT !.q = SendAll(@, news)]
                                   ELSE Closed]
        /\ liveId' = liveId - Len(batch) /\ batch' = <<>>
        /\ UNCHANGED <<found, named, storeDir, mode, waiting, stored, asked, shown, written>>
    BY DEF FeedInv, Drain
  <1>2. /\ batch \in Seq(FeedLine) /\ Len(batch) \in Nat /\ liveId \in Int /\ liveId < 0
        /\ DOMAIN batch = 1..Len(batch)
    BY <1>1 DEF FeedTypeOK
  <1>3. /\ news \in Seq(FeedRow) /\ Len(news) = Len(batch)
        /\ \A i \in 1..Len(news) : /\ news[i].key = liveId - (i - 1)
                                   /\ news[i].line \in Of(stored)
    <2>1. \A i \in DOMAIN batch : /\ news[i] \in FeedRow /\ news[i].key = liveId - (i - 1)
                                  /\ news[i].line = batch[i] /\ batch[i] \in Of(batch)
      BY <1>2 DEF FeedRow, Row, LiveKey, Of
    <2>2. news \in [1..Len(batch) -> FeedRow]
      BY <1>2, <2>1
    <2> HIDE DEF news
    <2>3. news \in Seq(FeedRow) /\ Len(news) = Len(batch)
      BY <1>2, <2>2
    <2>4. QED
      BY <1>1, <1>2, <2>1, <2>3 DEF FeedIsOwn
  <1> HIDE DEF news
  <1>4. \A p \in Page :
            IF ring[p].open
            THEN ring'[p] = [ring[p] EXCEPT !.q = SendAll(@, news)]
            ELSE ring'[p] = Closed
    BY <1>1
  <1>5. \A p \in Page : /\ ring[p] \in [open : BOOLEAN, q : Seq(FeedRow)]
                        /\ SendAll(ring[p].q, news) \in Seq(FeedRow)
    BY <1>1, <1>3, SendAllOf DEF FeedTypeOK
  <1>6. ring' \in [Page -> [open : BOOLEAN, q : Seq(FeedRow)]]
    <2>1. Closed \in [open : BOOLEAN, q : Seq(FeedRow)]
      BY DEF Closed
    <2>2. \A p \in Page : ring'[p] \in [open : BOOLEAN, q : Seq(FeedRow)]
      BY <1>4, <1>5, <2>1
    <2>3. QED
      BY <1>1, <2>2
  <1>7. batch' \in Seq(FeedLine) /\ Of(batch') = {} /\ liveId' \in Int /\ liveId' < 0
    BY <1>1, <1>2 DEF Of
  <1>8. FeedTypeOK'
    BY <1>1, <1>6, <1>7 DEF FeedTypeOK
  <1>9. FeedIsOwn'
    BY <1>1, <1>7 DEF FeedIsOwn, NeverFeedsInvented, HistoryIsKept, Of
  <1>10. ASSUME NEW p \in Page
         PROVE  (StreamIsInOrder(p) /\ PageIsInOrder(p) /\ AnswerIsStored(p))'
    <2>1. AnswerIsStored(p) /\ PageIsInOrder(p) /\ shown'[p] = shown[p] /\ asked' = asked
      BY <1>1 DEF FeedInv
    <2>2. Of(stored') = Of(stored) /\ liveId' = liveId - Len(news)
      BY <1>1, <1>3
    <2>3. AnswerIsStored(p)'
      BY <2>1 DEF AnswerIsStored
    <2>4. CASE ring[p].open
      <3>1. ring'[p].q = SendAll(ring[p].q, news)
        BY <1>4, <1>5, <2>4
      <3>2. QED
        BY <1>3, <2>1, <2>2, <2>3, <3>1, StreamGrows
    <2>5. CASE ~ring[p].open
      <3>1. ring'[p].q = <<>> /\ DOMAIN <<>> = {}
        <4>1. ring'[p] = Closed
          BY <1>4, <2>5
        <4>2. Closed.q = <<>>
          BY DEF Closed
        <4>3. DOMAIN <<>> = {}
          OBVIOUS
        <4>4. QED
          BY <4>1, <4>2, <4>3
      <3>2. StreamIsInOrder(p)'
        BY <3>1 DEF StreamIsInOrder
      <3>3. liveId' <= liveId /\ \A i \in DOMAIN shown[p] : shown[p][i].key \in Int
        <4>1. \A r \in FeedRow : r.key \in Int
          BY DEF FeedRow
        <4>2. shown[p] \in Seq(FeedRow) /\ liveId' = liveId - Len(batch)
          BY <1>1 DEF FeedTypeOK
        <4>3. QED
          BY <1>2, <4>1, <4>2
      <3>4. \A i \in DOMAIN shown[p] :
                shown[p][i].key < 0 => /\ shown[p][i].key > liveId'
                                       /\ shown[p][i].line \in Of(stored')
        BY <1>2, <1>7, <2>1, <2>2, <3>3 DEF PageIsInOrder, IsLive
      <3>5. PageIsInOrder(p)'
        BY <2>1, <3>4 DEF PageIsInOrder, IsLive
      <3>6. QED
        BY <2>3, <3>2, <3>5
    <2>6. QED
      BY <2>4, <2>5
  <1>11. QED
    BY <1>8, <1>9, <1>10 DEF FeedInv

\* What one page does leaves the others, and the bus, as they are.
LEMMA OthersRest ==
    ASSUME FeedInv, NEW p \in Page,
           UNCHANGED <<found, named, storeDir, mode, waiting, stored, batch, liveId, written>>,
           ring' \in [Page -> [open : BOOLEAN, q : Seq(FeedRow)]],
           asked' \in [Page -> [at : {"never", "asked", "answered", "done"}, rows : Seq(FeedRow)]],
           shown' \in [Page -> Seq(FeedRow)],
           \A o \in Page \ {p} : /\ ring'[o] = ring[o] /\ asked'[o] = asked[o]
                                 /\ shown'[o] = shown[o],
           StreamIsInOrder(p)' /\ PageIsInOrder(p)' /\ AnswerIsStored(p)'
    PROVE  FeedInv'
  <1>1. FeedTypeOK /\ FeedIsOwn
    BY DEF FeedInv
  <1>2. FeedTypeOK'
    BY <1>1 DEF FeedTypeOK
  <1>3. FeedIsOwn'
    <2>1. Of(stored)' = Of(stored) /\ Of(batch)' = Of(batch) /\ Of(waiting)' = Of(waiting)
      BY DEF Of
    <2>2. QED
      BY <1>1, <2>1 DEF FeedIsOwn, NeverFeedsInvented, HistoryIsKept
  <1>4. ASSUME NEW o \in Page \ {p}
        PROVE  (StreamIsInOrder(o) /\ PageIsInOrder(o) /\ AnswerIsStored(o))'
    <2>1. liveId' \in Int /\ liveId' <= liveId /\ Of(stored) \subseteq Of(stored')
      BY <1>1 DEF FeedTypeOK
    <2>2. QED
      BY <2>1, PageRests
  <1>5. QED
    BY <1>2, <1>3, <1>4 DEF FeedInv

LEMMA ListenKeeps == ASSUME FeedInv, NEW p \in Page, Listen(p) PROVE FeedInv'
  <1>1. /\ FeedTypeOK /\ ring' = [ring EXCEPT ![p].open = TRUE]
        /\ UNCHANGED <<found, named, storeDir, mode, waiting, stored, batch, liveId, written,
                       asked, shown>>
    BY DEF FeedInv, Listen
  <1>2. /\ ring' \in [Page -> [open : BOOLEAN, q : Seq(FeedRow)]]
        /\ ring'[p].q = ring[p].q
        /\ \A o \in Page \ {p} : ring'[o] = ring[o]
    BY <1>1 DEF FeedTypeOK
  <1>3. liveId' \in Int /\ liveId' <= liveId /\ Of(stored) \subseteq Of(stored')
    BY <1>1 DEF FeedTypeOK
  <1>4. StreamIsInOrder(p)' /\ PageIsInOrder(p)' /\ AnswerIsStored(p)'
    BY <1>1, <1>2, <1>3, PageRests
  <1>5. QED
    BY <1>1, <1>2, <1>4, OthersRest DEF FeedTypeOK

\* What a page shows is in order for any stream that holds nothing.
LEMMA NothingSent ==
    ASSUME FeedInv, NEW p \in Page, UNCHANGED <<stored, liveId>>,
           ring'[p].q = <<>>, shown'[p] = shown[p], asked'[p] = asked[p]
    PROVE  StreamIsInOrder(p)' /\ PageIsInOrder(p)' /\ AnswerIsStored(p)'
  <1>1. PageIsInOrder(p) /\ AnswerIsStored(p)
    BY DEF FeedInv
  <1>2. DOMAIN <<>> = {}
    OBVIOUS
  <1>3. StreamIsInOrder(p)'
    BY <1>2 DEF StreamIsInOrder
  <1>4. PageIsInOrder(p)' /\ AnswerIsStored(p)'
    BY <1>1 DEF PageIsInOrder, AnswerIsStored, IsLive, Of
  <1>5. QED
    BY <1>3, <1>4

LEMMA StreamDropsKeeps == ASSUME FeedInv, NEW p \in Page, StreamDrops(p) PROVE FeedInv'
  <1>1. /\ FeedTypeOK /\ ring' = [ring EXCEPT ![p] = Closed]
        /\ UNCHANGED <<found, named, storeDir, mode, waiting, stored, batch, liveId, written,
                       asked, shown>>
    BY DEF FeedInv, StreamDrops
  <1>2. Closed \in [open : BOOLEAN, q : Seq(FeedRow)] /\ Closed.q = <<>>
    BY DEF Closed
  <1>3. /\ ring' \in [Page -> [open : BOOLEAN, q : Seq(FeedRow)]]
        /\ ring'[p].q = <<>>
        /\ \A o \in Page \ {p} : ring'[o] = ring[o]
    BY <1>1, <1>2 DEF FeedTypeOK
  <1>4. StreamIsInOrder(p)' /\ PageIsInOrder(p)' /\ AnswerIsStored(p)'
    BY <1>1, <1>3, NothingSent
  <1>5. QED
    BY <1>1, <1>3, <1>4, OthersRest DEF FeedTypeOK

LEMMA AskEventsKeeps == ASSUME FeedInv, NEW p \in Page, AskEvents(p) PROVE FeedInv'
  <1>1. /\ FeedTypeOK /\ asked' = [asked EXCEPT ![p].at = "asked"]
        /\ UNCHANGED <<found, named, storeDir, mode, waiting, stored, batch, liveId, written,
                       ring, shown>>
    BY DEF FeedInv, AskEvents
  <1>2. /\ asked' \in [Page -> [at : {"never", "asked", "answered", "done"}, rows : Seq(FeedRow)]]
        /\ asked'[p].rows = asked[p].rows
        /\ \A o \in Page \ {p} : asked'[o] = asked[o]
    BY <1>1 DEF FeedTypeOK
  <1>3. liveId' \in Int /\ liveId' <= liveId /\ Of(stored) \subseteq Of(stored')
    BY <1>1 DEF FeedTypeOK
  <1>4. StreamIsInOrder(p)' /\ PageIsInOrder(p)' /\ AnswerIsStored(p)'
    BY <1>1, <1>2, <1>3, PageRests
  <1>5. QED
    BY <1>1, <1>2, <1>4, OthersRest DEF FeedTypeOK

\* The store and the fixtures number their rows from one.
LEMMA AnswerOf ==
    ASSUME FeedTypeOK, NEW readable \in BOOLEAN
    PROVE  /\ RecentEvents(readable) \in Seq(FeedRow)
           /\ \A i \in DOMAIN RecentEvents(readable) : RecentEvents(readable)[i].key > 0
           /\ \A i, j \in DOMAIN RecentEvents(readable) :
                  i < j => RecentEvents(readable)[i].key > RecentEvents(readable)[j].key
  <1> DEFINE newest == [i \in DOMAIN stored |->
                           LET id == Len(stored) + 1 - i IN Row(id, stored[id])]
  <1>1. /\ newest \in Seq(FeedRow)
        /\ \A i \in DOMAIN newest : i \in Int /\ newest[i].key > 0
        /\ \A i, j \in DOMAIN newest : i < j => newest[i].key > newest[j].key
    <2> DEFINE len == Len(stored)
    <2>1. stored \in Seq(FeedLine) /\ len \in Nat /\ DOMAIN stored = 1..len
      BY DEF FeedTypeOK
    <2>2. \A i \in DOMAIN stored : newest[i] = Row((len + 1) - i, stored[(len + 1) - i])
      OBVIOUS
    <2>3. DOMAIN newest = DOMAIN stored
      OBVIOUS
    <2> HIDE DEF newest, len
    <2>4. \A i \in 1..len : (len + 1) - i \in 1..len
      BY <2>1
    <2>5. \A i \in 1..len : /\ newest[i] \in FeedRow /\ newest[i].key = (len + 1) - i
      <3>1. \A k \in 1..len : stored[k] \in FeedLine /\ k \in Int
        BY <2>1
      <3>2. \A k \in Int, l \in FeedLine : Row(k, l) \in FeedRow /\ Row(k, l).key = k
        BY DEF Row, FeedRow
      <3>3. QED
        BY <2>1, <2>2, <2>4, <3>1, <3>2
    <2>6. newest = [i \in 1..len |-> newest[i]]
      BY <2>1, <2>3 DEF newest
    <2>7. newest \in Seq(FeedRow)
      BY <2>1, <2>5, <2>6
    <2>8. QED
      BY SMTT(20), <2>1, <2>3, <2>4, <2>5, <2>7
  <1>2. /\ MockEvents \in Seq(FeedRow) /\ DOMAIN MockEvents = {1, 2}
        /\ MockEvents[1].key = 2 /\ MockEvents[2].key = 1
    BY DEF MockEvents, Row, FeedRow, FeedLine
  <1>3. \A i \in DOMAIN MockEvents : i \in Int /\ MockEvents[i].key > 0
    BY <1>2
  <1>4. \A i, j \in DOMAIN MockEvents : i < j => MockEvents[i].key > MockEvents[j].key
    BY <1>2
  <1>5. ASSUME NEW s \in Seq(FeedRow),
               \A i \in DOMAIN s : i \in Int /\ s[i].key > 0,
               \A i, j \in DOMAIN s : i < j => s[i].key > s[j].key
        PROVE  /\ First(s) \in Seq(FeedRow)
               /\ \A i \in DOMAIN First(s) : First(s)[i].key > 0
               /\ \A i, j \in DOMAIN First(s) : i < j => First(s)[i].key > First(s)[j].key
    <2>1. First(s) \in Seq(FeedRow) /\ \A i \in DOMAIN First(s) : i \in DOMAIN s /\ First(s)[i] = s[i]
      BY FirstOf
    <2>2. QED
      BY <1>5, <2>1
  <1>6. RecentEvents(readable) = First(newest) \/ RecentEvents(readable) = First(MockEvents)
    BY DEF RecentEvents, Newest
  <1> HIDE DEF newest
  <1>7. QED
    BY <1>1, <1>2, <1>3, <1>4, <1>5, <1>6

LEMMA ReadEventsKeeps ==
    ASSUME FeedInv, NEW p \in Page, NEW readable \in BOOLEAN, ReadEvents(p, readable)
    PROVE  FeedInv'
  <1> DEFINE answer == [at |-> "answered", rows |-> RecentEvents(readable)]
  <1>1. /\ FeedTypeOK /\ asked' = [asked EXCEPT ![p] = answer]
        /\ UNCHANGED <<found, named, storeDir, mode, waiting, stored, batch, liveId, written,
                       ring, shown>>
    BY DEF FeedInv, ReadEvents
  <1>2. /\ answer \in [at : {"never", "asked", "answered", "done"}, rows : Seq(FeedRow)]
        /\ \A i \in DOMAIN answer.rows : answer.rows[i].key > 0
        /\ \A i, j \in DOMAIN answer.rows : i < j => answer.rows[i].key > answer.rows[j].key
    BY <1>1, AnswerOf
  <1> HIDE DEF answer
  <1>3. /\ asked' \in [Page -> [at : {"never", "asked", "answered", "done"}, rows : Seq(FeedRow)]]
        /\ asked'[p] = answer
        /\ \A o \in Page \ {p} : asked'[o] = asked[o]
    BY <1>1, <1>2 DEF FeedTypeOK
  <1>4. AnswerIsStored(p)'
    BY <1>2, <1>3 DEF AnswerIsStored
  <1>5. StreamIsInOrder(p) /\ PageIsInOrder(p)
    BY DEF FeedInv
  <1>6. StreamIsInOrder(p)' /\ PageIsInOrder(p)'
    BY <1>1, <1>5 DEF StreamIsInOrder, PageIsInOrder, IsLive, Of
  <1>7. QED
    BY <1>1, <1>3, <1>4, <1>6, OthersRest DEF FeedTypeOK

\* The answer replaces the live rows on the page: those still in the stream come above it.
LEMMA ShowEventsKeeps == ASSUME FeedInv, NEW p \in Page, ShowEvents(p) PROVE FeedInv'
  <1> DEFINE taken == asked[p].rows
             done == [at |-> "done", rows |-> <<>>]
  <1>1. /\ FeedTypeOK /\ shown' = [shown EXCEPT ![p] = taken]
        /\ asked' = [asked EXCEPT ![p] = done]
        /\ UNCHANGED <<found, named, storeDir, mode, waiting, stored, batch, liveId, written, ring>>
        /\ AnswerIsStored(p) /\ StreamIsInOrder(p)
    BY DEF FeedInv, ShowEvents
  <1>2. /\ taken \in Seq(FeedRow) /\ \A i \in DOMAIN taken : taken[i].key > 0
        /\ \A i \in DOMAIN taken : taken[i].key \in Int
        /\ \A i, j \in DOMAIN taken : i < j => taken[i].key > taken[j].key
    <2>1. taken \in Seq(FeedRow)
      BY <1>1 DEF FeedTypeOK
    <2>2. \A r \in FeedRow : r.key \in Int
      BY DEF FeedRow
    <2>3. QED
      BY <1>1, <2>1, <2>2 DEF AnswerIsStored
  <1>3. done \in [at : {"never", "asked", "answered", "done"}, rows : Seq(FeedRow)]
        /\ done.rows = <<>>
    OBVIOUS
  <1> HIDE DEF taken, done
  <1>4. /\ asked' \in [Page -> [at : {"never", "asked", "answered", "done"}, rows : Seq(FeedRow)]]
        /\ shown' \in [Page -> Seq(FeedRow)]
        /\ asked'[p] = done /\ shown'[p] = taken
        /\ \A o \in Page \ {p} : asked'[o] = asked[o] /\ shown'[o] = shown[o]
    BY <1>1, <1>2, <1>3 DEF FeedTypeOK
  <1>5. AnswerIsStored(p)'
    <2>1. DOMAIN <<>> = {}
      OBVIOUS
    <2>2. QED
      BY <1>3, <1>4, <2>1 DEF AnswerIsStored
  <1>6. \A i \in DOMAIN taken : ~(taken[i].key < 0)
    BY <1>2
  <1>7. StreamIsInOrder(p)'
    BY <1>1, <1>4, <1>6 DEF StreamIsInOrder, IsLive, Of
  <1>8. PageIsInOrder(p)'
    <2>1. \A i, j \in DOMAIN taken : i < j => Later(taken[i], taken[j])
      BY <1>2 DEF Later
    <2>2. QED
      BY <1>4, <1>6, <2>1 DEF PageIsInOrder
  <1>9. QED
    BY <1>1, <1>4, <1>5, <1>7, <1>8, OthersRest DEF FeedTypeOK

\* The oldest row of the stream is newer than every live row it is put above.
LEMMA ReceiveKeeps == ASSUME FeedInv, NEW p \in Page, Receive(p) PROVE FeedInv'
  <1> DEFINE q == ring[p].q
             page == shown[p]
             all == <<Head(q)>> \o page
             new == First(all)
  <1>1. /\ FeedTypeOK /\ q # <<>> /\ shown' = [shown EXCEPT ![p] = new]
        /\ ring' = [ring EXCEPT ![p].q = Tail(@)]
        /\ UNCHANGED <<found, named, storeDir, mode, waiting, stored, batch, liveId, written, asked>>
        /\ StreamIsInOrder(p) /\ PageIsInOrder(p) /\ AnswerIsStored(p)
    BY DEF FeedInv, Receive, PutAbove
  <1>2. q \in Seq(FeedRow) /\ page \in Seq(FeedRow)
    BY <1>1 DEF FeedTypeOK
  <1>3. /\ \A i \in DOMAIN q : IsLive(q[i])
        /\ \A i, j \in DOMAIN q : i < j => q[j].key < q[i].key
        /\ \A i \in DOMAIN q, j \in DOMAIN page : page[j].key < 0 => q[i].key < page[j].key
    BY <1>1 DEF StreamIsInOrder
  <1>4. /\ \A i \in DOMAIN page : page[i].key < 0 => IsLive(page[i])
        /\ \A i, j \in DOMAIN page : i < j => Later(page[i], page[j])
    BY <1>1 DEF PageIsInOrder
  <1>5. \A r \in FeedRow : r.key \in Int
    BY DEF FeedRow
  <1>6. ring' \in [Page -> [open : BOOLEAN, q : Seq(FeedRow)]] /\ ring'[p].q = Tail(q)
        /\ \A o \in Page \ {p} : ring'[o] = ring[o]
    <2>1. Tail(q) \in Seq(FeedRow)
      BY <1>1, <1>2
    <2>2. QED
      BY <1>1, <2>1 DEF FeedTypeOK
  <1> HIDE DEF q, page
  <1>7. /\ 1 \in DOMAIN q /\ Head(q) = q[1] /\ q[1] \in FeedRow
        /\ DOMAIN page = 1..Len(page) /\ Len(page) \in Nat
        /\ Len(q) \in Nat /\ DOMAIN q = 1..Len(q)
        /\ Tail(q) \in Seq(FeedRow) /\ DOMAIN Tail(q) = 1..(Len(q) - 1)
        /\ \A i \in DOMAIN Tail(q) : Tail(q)[i] = q[i + 1]
        /\ \A i \in DOMAIN page : page[i].key \in Int
        /\ \A i \in DOMAIN q : q[i].key \in Int
    BY <1>1, <1>2, <1>5
  <1>8. /\ all \in Seq(FeedRow) /\ DOMAIN all = 1..(Len(page) + 1)
        /\ all[1] = q[1] /\ \A i \in 2..(Len(page) + 1) : all[i] = page[i - 1]
    BY <1>2, <1>7
  <1> HIDE DEF all
  <1>9. new \in Seq(FeedRow) /\ \A i \in DOMAIN new : i \in DOMAIN all /\ new[i] = all[i]
    BY <1>8, FirstOf
  <1> HIDE DEF new
  <1>10. \A i \in DOMAIN new :
             \/ i = 1 /\ new[i] = q[1]
             \/ i - 1 \in DOMAIN page /\ i > 1 /\ new[i] = page[i - 1]
    BY <1>7, <1>8, <1>9
  <1>11. \A i \in DOMAIN new : i \in Nat
    BY <1>8, <1>9
  <1>12. /\ shown' \in [Page -> Seq(FeedRow)] /\ shown'[p] = new
         /\ \A o \in Page \ {p} : shown'[o] = shown[o]
    BY <1>1, <1>9 DEF FeedTypeOK
  <1>13. AnswerIsStored(p)'
    BY <1>1 DEF AnswerIsStored
  <1>14. PageIsInOrder(p)'
    <2>1. \A i \in DOMAIN new : new[i].key < 0 => IsLive(new[i])
      BY <1>3, <1>4, <1>7, <1>10
    <2>2. ASSUME NEW i \in DOMAIN new, NEW j \in DOMAIN new, i < j
          PROVE  Later(new[i], new[j])
      <3>1. j - 1 \in DOMAIN page /\ new[j] = page[j - 1]
        BY <1>10, <1>11, <2>2
      <3>2. CASE i = 1 /\ new[i] = q[1]
        <4>1. q[1].key < 0 /\ q[1].key \in Int /\ page[j - 1].key \in Int
          BY <1>3, <1>7, <3>1 DEF IsLive
        <4>2. page[j - 1].key < 0 => q[1].key < page[j - 1].key
          BY <1>3, <1>7, <3>1
        <4>3. QED
          BY <3>1, <3>2, <4>1, <4>2 DEF Later
      <3>3. CASE i - 1 \in DOMAIN page /\ i > 1 /\ new[i] = page[i - 1]
        <4>1. i - 1 < j - 1
          BY <1>11, <2>2
        <4>2. QED
          BY <1>4, <3>1, <3>3, <4>1
      <3>4. QED
        BY <1>10, <3>2, <3>3
    <2>3. \A r : IsLive(r)' <=> IsLive(r)
      BY <1>1 DEF IsLive, Of
    <2>4. QED
      BY <1>12, <2>1, <2>2, <1>1 DEF PageIsInOrder, IsLive, Of
  <1>15. StreamIsInOrder(p)'
    <2> DEFINE rest == Tail(q)
    <2>1. \A i \in DOMAIN rest : i \in Nat /\ i + 1 \in DOMAIN q /\ rest[i] = q[i + 1] /\ 1 < i + 1
      BY <1>7
    <2>2. ring'[p].q = rest /\ shown'[p] = new
      BY <1>6, <1>12
    <2> HIDE DEF rest
    <2>3. \A i \in DOMAIN rest : IsLive(rest[i])
      BY <1>3, <2>1
    <2>4. \A i, j \in DOMAIN rest : i < j => rest[j].key < rest[i].key
      <3>1. ASSUME NEW i \in DOMAIN rest, NEW j \in DOMAIN rest, i < j
            PROVE  rest[j].key < rest[i].key
        <4>1. i + 1 < j + 1
          BY <2>1, <3>1
        <4>2. QED
          BY <1>3, <2>1, <4>1
      <3>2. QED
        BY <3>1
    <2>5. ASSUME NEW i \in DOMAIN rest, NEW j \in DOMAIN new, new[j].key < 0
          PROVE  rest[i].key < new[j].key
      <3>1. i + 1 \in DOMAIN q /\ rest[i] = q[i + 1] /\ 1 < i + 1
        BY <2>1
      <3>2. CASE new[j] = q[1]
        BY <1>3, <1>7, <3>1, <3>2
      <3>3. CASE j - 1 \in DOMAIN page /\ new[j] = page[j - 1]
        BY <1>3, <2>5, <3>1, <3>3
      <3>4. QED
        BY <1>10, <3>2, <3>3
    <2>6. \A i \in DOMAIN rest, j \in DOMAIN new :
              new[j].key < 0 => rest[i].key < new[j].key
      BY <2>5
    <2>7. liveId' = liveId /\ Of(stored)' = Of(stored)
      BY <1>1 DEF Of
    <2>8. \A i \in DOMAIN rest : /\ rest[i].key > liveId' /\ rest[i].key < 0
                                 /\ rest[i].line \in Of(stored)'
      BY <2>3, <2>7 DEF IsLive
    <2>9. QED
      BY <2>2, <2>4, <2>6, <2>8 DEF StreamIsInOrder, IsLive
  <1>16. QED
    BY <1>1, <1>6, <1>12, <1>13, <1>14, <1>15, OthersRest DEF FeedTypeOK

LEMMA FeedStep == FeedInv /\ [FeedNext]_feedVars => FeedInv'
  <1> SUFFICES ASSUME FeedInv, [FeedNext]_feedVars PROVE FeedInv'
    OBVIOUS
  <1>1. CASE FeedNext
    BY <1>1, WriteKeeps, BootstrapKeeps, PollKeeps, DrainKeeps, ListenKeeps, StreamDropsKeeps,
       AskEventsKeeps, ReadEventsKeeps, ShowEventsKeeps, ReceiveKeeps DEF FeedNext
  <1>2. CASE UNCHANGED feedVars
    <2>1. /\ UNCHANGED <<found, named, storeDir, mode, waiting, stored, batch, liveId, written,
                         ring, asked, shown>>
          /\ FeedTypeOK /\ FeedIsOwn
      BY <1>2 DEF feedVars, FeedInv
    <2>2. liveId' \in Int /\ liveId' <= liveId /\ Of(stored) \subseteq Of(stored')
      BY <2>1 DEF FeedTypeOK
    <2>3. \A p \in Page : (StreamIsInOrder(p) /\ PageIsInOrder(p) /\ AnswerIsStored(p))'
      BY <2>1, <2>2, PageRests
    <2>4. FeedTypeOK'
      BY <2>1 DEF FeedTypeOK
    <2>5. FeedIsOwn'
      BY <2>1 DEF FeedIsOwn, NeverFeedsInvented, HistoryIsKept, Of
    <2>6. QED
      BY <2>3, <2>4, <2>5 DEF FeedInv
  <1>3. QED
    BY <1>1, <1>2

\* The order of keys on a page, and what its live rows stand for, from the invariant.
LEMMA FeedInvSays == FeedInv => FeedIsTheBus
  <1>1. SUFFICES ASSUME FeedInv PROVE FeedIsTheBus
    OBVIOUS
  <1>2. /\ FeedTypeOK /\ NeverFeedsInvented /\ HistoryIsKept
        /\ \A p \in Page : StreamIsInOrder(p) /\ PageIsInOrder(p)
    BY <1>1 DEF FeedInv, FeedIsOwn
  <1>3. LiveIsStored
    BY <1>2 DEF LiveIsStored, StreamIsInOrder, PageIsInOrder, IsLive, Of
  <1>4. RowsKeepTheirPlace
    <2>1. ASSUME NEW p \in Page, NEW i \in DOMAIN shown[p], NEW j \in DOMAIN shown[p], i < j
          PROVE  /\ Above(shown[p][i], shown[p][j]) \/ Above(shown[p][j], shown[p][i])
                 /\ shown[p][i].key > 0
                      => shown[p][j].key > 0 /\ shown[p][i].key > shown[p][j].key
                 /\ shown[p][i].key < 0 /\ shown[p][j].key < 0
                      => shown[p][i].key < shown[p][j].key
      <3>1. Later(shown[p][i], shown[p][j])
        BY <1>2, <2>1 DEF PageIsInOrder
      <3>2. shown[p][i].key \in Int /\ shown[p][j].key \in Int
        <4>1. shown[p] \in Seq(FeedRow)
          BY <1>2 DEF FeedTypeOK
        <4>2. \A r \in FeedRow : r.key \in Int
          BY DEF FeedRow
        <4>3. QED
          BY <4>1, <4>2
      <3>3. QED
        BY <3>1, <3>2 DEF Later, Above
    <2>2. QED
      BY <2>1 DEF RowsKeepTheirPlace
  <1>5. QED
    BY <1>2, <1>3, <1>4 DEF FeedIsTheBus

\* What a page is sent live is what the bus was given and keeps, for every number of pages and
\* lines, every size of a channel and of a page, and whatever fails (bus/mod.rs, feed.rs).
THEOREM FeedIsTheBusHolds == FeedSpec => []FeedIsTheBus
  <1>1. FeedInit => FeedInv
    BY FeedStarts
  <1>2. FeedInv /\ [FeedNext]_feedVars => FeedInv'
    BY FeedStep
  <1>3. QED
    BY <1>1, <1>2, FeedInvSays, PTL DEF FeedSpec

-----------------------------------------------------------------------------
(***************************************************************************)
(* CloudPanels: what was read, and what is shown of it.                    *)
(***************************************************************************)
Outcome == {"pending", "ok", "absent", "err"}

PanelTypeOK ==
    /\ server \in Server /\ past \subseteq Server
    /\ asking \in Panel \cup {Nil}
    /\ DOMAIN got = Route /\ \A r \in Route : got[r].is \in Outcome

\* What is read is read while it is asked for, of one server.
PastIsOfTheAsking ==
    /\ asking # Nil => server \in past
    /\ \A s \in past : s.month = server.month

\* An answer is what the server held at some moment of the asking; only an optional route
\* may be missing.
AnswersWereTrue ==
    \A r \in Route :
      /\ got[r].is = "ok" => \E s \in past : got[r].body = Body(r, s)
      /\ got[r].is = "absent" => r \in Optional

\* A panel is shown once its answers are in; only the overview is shown on the first error.
ViewStands ==
    view # NoView =>
        /\ asking = Nil /\ view.panel \in Panel /\ view = ViewOf(view.panel)
        /\ view.panel # "overview" => \A r \in RoutesOf(view.panel) : got[r].is # "pending"

PanelInv == PanelTypeOK /\ PastIsOfTheAsking /\ AnswersWereTrue /\ ViewStands

LEMMA PanelStarts == PanelInit => PanelInv
  <1>1. SUFFICES ASSUME PanelInit PROVE PanelInv
    OBVIOUS
  <1>2. /\ server \in Server /\ past = {} /\ asking = Nil /\ view = NoView
        /\ got = [r \in Route |-> Pending]
    BY <1>1 DEF PanelInit
  <1>3. \A r \in Route : got[r].is = "pending"
    BY <1>2 DEF Pending
  <1>4. PanelTypeOK
    BY <1>2, <1>3 DEF PanelTypeOK, Outcome
  <1>5. AnswersWereTrue
    BY <1>3 DEF AnswersWereTrue
  <1>6. QED
    BY <1>2, <1>4, <1>5 DEF PanelInv, PastIsOfTheAsking, ViewStands

\* What a panel shows is a function of the answers.
LEMMA ViewRests == ASSUME UNCHANGED got, NEW p \in Panel PROVE ViewOf(p)' = ViewOf(p)
  BY DEF ViewOf, UnitsView, UnitsErr, JoinUnitCaps, RunsView, BudgetsRead, OverviewView,
         PostureView, Failures, Section, Answered

\* A step that asks for nothing and answers nothing leaves what is shown.
LEMMA ShownRests ==
    ASSUME ViewStands, UNCHANGED <<asking, got, view>> PROVE ViewStands'
  <1>1. CASE view = NoView
    <2>1. NoView' = NoView
      BY DEF NoView
    <2>2. QED
      BY <1>1, <2>1 DEF ViewStands
  <1>2. CASE view # NoView
    <2>1. /\ asking = Nil /\ view.panel \in Panel /\ view = ViewOf(view.panel)
          /\ view.panel # "overview" => \A r \in RoutesOf(view.panel) : got[r].is # "pending"
      BY <1>2 DEF ViewStands
    <2>2. ViewOf(view.panel)' = ViewOf(view.panel)
      <3> DEFINE p == view.panel
      <3>1. p \in Panel /\ p' = p
        BY <2>1
      <3> HIDE DEF p
      <3>2. \A x \in Panel : ViewOf(x)' = ViewOf(x)
        BY ViewRests
      <3>3. QED
        BY <2>1, <3>2
    <2>3. QED
      BY <2>1, <2>2 DEF ViewStands, RoutesOf
  <1>3. QED
    BY <1>1, <1>2

LEMMA ServerMovesKeeps == ASSUME PanelInv, ServerMoves PROVE PanelInv'
  <1>1. /\ PanelTypeOK /\ PastIsOfTheAsking /\ AnswersWereTrue /\ ViewStands
        /\ UNCHANGED <<asking, got, view>>
        /\ past' = IF asking = Nil THEN past ELSE past \cup {server'}
    BY DEF PanelInv, ServerMoves
  <1>2. /\ server.spend \in [Unit -> Spent \cup {Nil}] /\ server.caps \in [Unit -> {Cap, Nil}]
        /\ server.runs \in [RunId -> {"absent", "live", "killed"}]
        /\ server.budgets \in [RunId -> {Cap, Nil}] /\ server.month \in BOOLEAN
        /\ server = [spend |-> server.spend, caps |-> server.caps, runs |-> server.runs,
                     budgets |-> server.budgets, month |-> server.month]
    BY <1>1 DEF PanelTypeOK, Server
  <1>3. server' \in Server /\ server'.month = server.month
    <2>1. CASE \E u \in Unit, c \in Spent : server' = [server EXCEPT !.spend[u] = c]
      <3>1. PICK u \in Unit, c \in Spent : server' = [server EXCEPT !.spend[u] = c]
        BY <2>1
      <3>2. [server.spend EXCEPT ![u] = c] \in [Unit -> Spent \cup {Nil}]
        BY <1>2
      <3>3. server' = [spend |-> [server.spend EXCEPT ![u] = c], caps |-> server.caps,
                       runs |-> server.runs, budgets |-> server.budgets,
                       month |-> server.month]
        BY <1>2, <3>1
      <3>4. QED
        BY <1>2, <3>2, <3>3 DEF Server
    <2>2. CASE \E u \in Unit, c \in {Cap, Nil} : server' = [server EXCEPT !.caps[u] = c]
      <3>1. PICK u \in Unit, c \in {Cap, Nil} : server' = [server EXCEPT !.caps[u] = c]
        BY <2>2
      <3>2. [server.caps EXCEPT ![u] = c] \in [Unit -> {Cap, Nil}]
        BY <1>2
      <3>3. server' = [spend |-> server.spend, caps |-> [server.caps EXCEPT ![u] = c],
                       runs |-> server.runs, budgets |-> server.budgets,
                       month |-> server.month]
        BY <1>2, <3>1
      <3>4. QED
        BY <1>2, <3>2, <3>3 DEF Server
    <2>3. CASE \E r \in RunId, c \in {"live", "killed"} :
                   server' = [server EXCEPT !.runs[r] = c]
      <3>1. PICK r \in RunId, c \in {"live", "killed"} : server' = [server EXCEPT !.runs[r] = c]
        BY <2>3
      <3>2. [server.runs EXCEPT ![r] = c] \in [RunId -> {"absent", "live", "killed"}]
        BY <1>2
      <3>3. server' = [spend |-> server.spend, caps |-> server.caps,
                       runs |-> [server.runs EXCEPT ![r] = c], budgets |-> server.budgets,
                       month |-> server.month]
        BY <1>2, <3>1
      <3>4. QED
        BY <1>2, <3>2, <3>3 DEF Server
    <2>4. CASE \E r \in RunId, c \in {Cap, Nil} : server' = [server EXCEPT !.budgets[r] = c]
      <3>1. PICK r \in RunId, c \in {Cap, Nil} : server' = [server EXCEPT !.budgets[r] = c]
        BY <2>4
      <3>2. [server.budgets EXCEPT ![r] = c] \in [RunId -> {Cap, Nil}]
        BY <1>2
      <3>3. server' = [spend |-> server.spend, caps |-> server.caps, runs |-> server.runs,
                       budgets |-> [server.budgets EXCEPT ![r] = c], month |-> server.month]
        BY <1>2, <3>1
      <3>4. QED
        BY <1>2, <3>2, <3>3 DEF Server
    <2>5. QED
      BY <2>1, <2>2, <2>3, <2>4 DEF ServerMoves
  <1>4. past \subseteq past' /\ past' \subseteq Server /\ (asking # Nil => server' \in past')
        /\ past' \subseteq past \cup {server'}
    BY <1>1, <1>3 DEF PanelTypeOK
  <1>5. PanelTypeOK'
    BY <1>1, <1>3, <1>4 DEF PanelTypeOK
  <1>6. PastIsOfTheAsking'
    BY <1>1, <1>3, <1>4 DEF PastIsOfTheAsking
  <1>7. AnswersWereTrue'
    BY <1>1, <1>4 DEF AnswersWereTrue
  <1>8. ViewStands'
    BY <1>1, ShownRests
  <1>9. QED
    BY <1>5, <1>6, <1>7, <1>8 DEF PanelInv

LEMMA AskPanelKeeps == ASSUME PanelInv, NEW p \in Panel, AskPanel(p) PROVE PanelInv'
  <1>1. /\ PanelTypeOK /\ view = NoView /\ UNCHANGED <<server, view>>
        /\ asking' = p /\ got' = [r \in Route |-> Pending] /\ past' = {server}
    BY DEF PanelInv, AskPanel
  <1>2. \A r \in Route : got'[r].is = "pending"
    BY <1>1 DEF Pending
  <1>3. PanelTypeOK'
    BY <1>1, <1>2 DEF PanelTypeOK, Outcome
  <1>4. PastIsOfTheAsking'
    BY <1>1 DEF PastIsOfTheAsking
  <1>5. AnswersWereTrue'
    BY <1>2 DEF AnswersWereTrue
  <1>6. ViewStands'
    BY <1>1 DEF ViewStands, NoView
  <1>7. QED
    BY <1>3, <1>4, <1>5, <1>6 DEF PanelInv

LEMMA AnswerArrivesKeeps ==
    ASSUME PanelInv, NEW r \in Route, NEW how \in {"up", "missing", "broken"},
           AnswerArrives(r, how)
    PROVE  PanelInv'
  <1>1. /\ PanelTypeOK /\ PastIsOfTheAsking /\ AnswersWereTrue /\ ViewStands
        /\ r \in Requested /\ got' = [got EXCEPT ![r] = Reply(r, how)]
        /\ UNCHANGED <<server, asking, past, view>>
    BY DEF PanelInv, AnswerArrives
  <1>2. asking # Nil /\ server \in past
    BY <1>1 DEF Requested, PastIsOfTheAsking
  <1> DEFINE reply == Reply(r, how)
  <1>3. /\ reply.is \in {"ok", "absent", "err"}
        /\ reply.is = "ok" => reply.body = Body(r, server)
        /\ reply.is = "absent" => r \in Optional
    BY DEF Reply, NotServed, Failed
  <1> HIDE DEF reply
  <1>4. DOMAIN got' = Route /\ got'[r] = reply /\ \A o \in Route : o # r => got'[o] = got[o]
    BY <1>1 DEF PanelTypeOK, reply
  <1>5. PanelTypeOK'
    BY <1>1, <1>3, <1>4 DEF PanelTypeOK, Outcome
  <1>6. PastIsOfTheAsking'
    BY <1>1 DEF PastIsOfTheAsking
  <1>7. AnswersWereTrue'
    <2>1. ASSUME NEW o \in Route
          PROVE  /\ got'[o].is = "ok" => \E s \in past : got'[o].body = Body(o, s)
                 /\ got'[o].is = "absent" => o \in Optional
      BY <1>1, <1>2, <1>3, <1>4 DEF AnswersWereTrue
    <2>2. QED
      BY <1>1, <2>1 DEF AnswersWereTrue
  <1>8. ViewStands'
    BY <1>1, <1>2 DEF ViewStands, NoView
  <1>9. QED
    BY <1>5, <1>6, <1>7, <1>8 DEF PanelInv

LEMMA PanelOfView == ASSUME NEW p \in Panel PROVE ViewOf(p).panel = p
  BY DEF ViewOf, Panel, UnitsView, RunsView, OverviewView, PostureView

LEMMA ShowKeeps == ASSUME PanelInv, Show PROVE PanelInv'
  <1>1. /\ PanelTypeOK /\ PastIsOfTheAsking /\ AnswersWereTrue
        /\ AllIn \/ CutShort
        /\ view' = ViewOf(asking) /\ asking' = Nil /\ UNCHANGED <<server, got, past>>
    BY DEF PanelInv, Show
  <1>2. asking \in Panel
    <2>1. asking # Nil
      BY <1>1, PanelAssumption DEF AllIn, CutShort, Panel
    <2>2. QED
      BY <1>1, <2>1 DEF PanelTypeOK
  <1>3. view'.panel = asking
    BY <1>1, <1>2, PanelOfView
  <1>4. \A p \in Panel : ViewOf(p)' = ViewOf(p)
    BY <1>1, ViewRests
  <1>5. asking # "overview" => \A r \in RoutesOf(asking) : got[r].is # "pending"
    BY <1>1, <1>2 DEF AllIn, CutShort, Requested
  <1>6. PanelTypeOK'
    BY <1>1 DEF PanelTypeOK
  <1>7. PastIsOfTheAsking'
    BY <1>1 DEF PastIsOfTheAsking
  <1>8. AnswersWereTrue'
    BY <1>1 DEF AnswersWereTrue
  <1>9. ViewStands'
    <2>1. PICK p \in Panel : asking = p
      BY <1>2
    <2>2. view'.panel = p /\ view' = ViewOf(p)' /\ asking' = Nil
      BY <1>1, <1>3, <1>4, <2>1
    <2>3. p # "overview" => \A r \in RoutesOf(p) : got'[r].is # "pending"
      BY <1>1, <1>5, <2>1
    <2>4. RoutesOf(view.panel)' = RoutesOf(p)
      BY <2>2 DEF RoutesOf
    <2>5. ViewOf(view.panel)' = ViewOf(p)'
      BY <2>2 DEF ViewOf
    <2>6. QED
      BY <2>2, <2>3, <2>4, <2>5 DEF ViewStands
  <1>10. QED
    BY <1>6, <1>7, <1>8, <1>9 DEF PanelInv

LEMMA PanelStep == PanelInv /\ [PanelNext]_panelVars => PanelInv'
  <1> SUFFICES ASSUME PanelInv, [PanelNext]_panelVars PROVE PanelInv'
    OBVIOUS
  <1>1. CASE PanelNext
    BY <1>1, ServerMovesKeeps, AskPanelKeeps, AnswerArrivesKeeps, ShowKeeps DEF PanelNext
  <1>2. CASE UNCHANGED panelVars
    <2>1. /\ PanelTypeOK /\ PastIsOfTheAsking /\ AnswersWereTrue /\ ViewStands
          /\ UNCHANGED <<server, asking, got, past, view>>
      BY <1>2 DEF PanelInv, panelVars
    <2>2. ViewStands'
      BY <2>1, ShownRests
    <2>3. PanelTypeOK' /\ PastIsOfTheAsking' /\ AnswersWereTrue'
      BY <2>1 DEF PanelTypeOK, PastIsOfTheAsking, AnswersWereTrue
    <2>4. QED
      BY <2>2, <2>3 DEF PanelInv
  <1>3. QED
    BY <1>1, <1>2

\* What the maps that are read hold, of a server.
LEMMA SpendHolds ==
    ASSUME NEW s \in Server
    PROVE  /\ DOMAIN Body("units", s) = Records(s) /\ Records(s) \subseteq Unit
           /\ \A u \in Records(s) : /\ s.spend[u] # Nil
                                    /\ s.month => Body("units", s)[u] = s.spend[u]
                                    /\ ~s.month => Body("units", s)[u] = 0
  BY DEF Body, UnitSpend, Records

LEMMA CapsHold ==
    ASSUME NEW s \in Server
    PROVE  /\ DOMAIN Body("unit-budgets", s) = {u \in Unit : s.caps[u] # Nil}
           /\ \A u \in DOMAIN Body("unit-budgets", s) : Body("unit-budgets", s)[u] = s.caps[u]
  BY DEF Body

LEMMA RunsHold ==
    ASSUME NEW s \in Server
    PROVE  /\ DOMAIN Body("runs", s) \subseteq RunId
           /\ \A r \in DOMAIN Body("runs", s) : Body("runs", s)[r] = s.runs[r]
  BY DEF Body, Started

LEMMA BudgetsHold ==
    ASSUME NEW s \in Server
    PROVE  /\ DOMAIN Body("budgets", s) = {r \in RunId : s.budgets[r] # Nil}
           /\ \A r \in DOMAIN Body("budgets", s) : Body("budgets", s)[r] = s.budgets[r]
           /\ \A r \in DOMAIN Body("alerts", s) : Body("alerts", s)[r] = s.budgets[r]
  BY DEF Body

\* A panel without an error is the view of the answers it stands on.
LEMMA ShownIs ==
    ASSUME PanelInv, NEW p \in Panel, view.panel = p
    PROVE  /\ view = ViewOf(p)
           /\ p # "overview" => \A r \in RoutesOf(p) : got[r].is \in {"ok", "absent", "err"}
  <1>1. view # NoView
    BY PanelAssumption DEF NoView
  <1>2. /\ view = ViewOf(p) /\ (p # "overview" => \A r \in RoutesOf(p) : got[r].is # "pending")
        /\ PanelTypeOK
    BY <1>1 DEF PanelInv, ViewStands
  <1>3. RoutesOf(p) \subseteq Route
    BY DEF RoutesOf, Route, Panel
  <1>4. QED
    BY <1>2, <1>3 DEF PanelTypeOK, Outcome

LEMMA UnitsWereTrue ==
    ASSUME PanelInv, Shown("units"), NEW u \in DOMAIN view.rows
    PROVE  LET row == view.rows[u]
           IN  /\ row.cap # Nil => \E s \in past : s.caps[u] = row.cap
               /\ row.state = "no_cap" => \E s \in past : s.caps[u] = Nil
               /\ (row.spent # Nil /\ server.month) => \E s \in past : s.spend[u] = row.spent
               /\ row.state = "over" => \E s \in past, t \in past :
                     /\ t.caps[u] # Nil
                     /\ t.caps[u] <= 0 \/ (s.spend[u] # Nil /\ s.spend[u] >= t.caps[u])
  <1> DEFINE units == IF Answered("units") THEN got["units"].body ELSE Blank
             caps == IF Answered("unit-budgets") THEN got["unit-budgets"].body ELSE Blank
             cap == At(caps, u)
             spent == At(units, u)
             row == view.rows[u]
  <1>1. /\ PanelTypeOK /\ PastIsOfTheAsking /\ AnswersWereTrue
        /\ \A r \in {"units", "unit-budgets"} : r \in Route
    BY DEF PanelInv, Route
  <1>2. view = UnitsView /\ ~UnitsErr
    <2>1. view = ViewOf("units") /\ ~view.error
      BY ShownIs DEF Shown, Panel
    <2>2. view = UnitsView
      BY <2>1 DEF ViewOf
    <2>3. QED
      BY <2>1, <2>2 DEF UnitsView
  <1>3. view.rows = JoinUnitCaps
    BY <1>2 DEF UnitsView
  <1>4. /\ u \in DOMAIN units \cup DOMAIN caps
        /\ row = [spent |-> spent, cap |-> cap,
                  state |-> Standing(cap, Answered("unit-budgets"), spent)]
    BY <1>3 DEF JoinUnitCaps
  <1>5. \/ units = Blank
        \/ \E s \in past : units = Body("units", s)
    BY <1>1 DEF AnswersWereTrue, Answered
  <1>6. \/ caps = Blank /\ ~Answered("unit-budgets")
        \/ \E s \in past : caps = Body("unit-budgets", s)
    BY <1>1 DEF AnswersWereTrue, Answered
  <1>7. DOMAIN Blank = {}
    BY DEF Blank
  <1> HIDE DEF units, caps
  <1>8. u \in Unit
    <2>1. DOMAIN units \subseteq Unit
      BY <1>1, <1>5, <1>7, SpendHolds DEF PanelTypeOK
    <2>2. DOMAIN caps \subseteq Unit
      BY <1>1, <1>6, <1>7, CapsHold DEF PanelTypeOK
    <2>3. QED
      BY <1>4, <2>1, <2>2
  <1>9. cap # Nil => cap = Cap /\ \E t \in past : t.caps[u] = cap
    <2>1. ASSUME cap # Nil PROVE cap = Cap /\ \E t \in past : t.caps[u] = cap
      <3>1. u \in DOMAIN caps /\ cap = caps[u]
        BY <2>1 DEF At
      <3>2. PICK t \in past : caps = Body("unit-budgets", t)
        BY <1>6, <1>7, <3>1
      <3>3. t.caps[u] = cap /\ t.caps[u] \in {Cap, Nil}
        BY <1>1, <1>8, <3>1, <3>2, CapsHold DEF PanelTypeOK, Server
      <3>4. QED
        BY <2>1, <3>3
    <2>2. QED
      BY <2>1
  <1>10. cap = Nil /\ Answered("unit-budgets") => \E s \in past : s.caps[u] = Nil
    <2>1. ASSUME cap = Nil, Answered("unit-budgets") PROVE \E s \in past : s.caps[u] = Nil
      <3>1. PICK s \in past : caps = Body("unit-budgets", s)
        BY <1>6, <2>1
      <3>2. /\ DOMAIN caps = {x \in Unit : s.caps[x] # Nil}
            /\ \A x \in DOMAIN caps : caps[x] = s.caps[x]
        BY <1>1, <3>1, CapsHold DEF PanelTypeOK
      <3>3. QED
        BY <1>8, <2>1, <3>2 DEF At
    <2>2. QED
      BY <2>1
  <1>11. spent # Nil => \E s \in past : /\ s.spend[u] # Nil /\ s.spend[u] \in Nat
                                        /\ s.month => spent = s.spend[u]
                                        /\ ~s.month => spent = 0
    <2>1. ASSUME spent # Nil
          PROVE  \E s \in past : /\ s.spend[u] # Nil /\ s.spend[u] \in Nat
                                 /\ s.month => spent = s.spend[u]
                                 /\ ~s.month => spent = 0
      <3>1. u \in DOMAIN units /\ spent = units[u]
        BY <2>1 DEF At
      <3>2. PICK s \in past : units = Body("units", s)
        BY <1>5, <1>7, <3>1
      <3>3. /\ s.spend[u] # Nil /\ (s.month => spent = s.spend[u])
            /\ ~s.month => spent = 0
        BY <1>1, <3>1, <3>2, SpendHolds DEF PanelTypeOK
      <3>4. s.spend[u] \in Spent \cup {Nil} /\ Spent \subseteq Nat
        BY <1>1, <1>8, PanelAssumption DEF PanelTypeOK, Server, Spent
      <3>5. QED
        BY <3>3, <3>4
    <2>2. QED
      BY <2>1
  <1> HIDE DEF cap, spent
  <1> DEFINE capsRead == Answered("unit-budgets")
  <1>12. row.cap = cap /\ row.spent = spent /\ row.state = Standing(cap, capsRead, spent)
    BY <1>4
  <1> HIDE DEF row, capsRead
  <1>13. row.state = "no_cap" => cap = Nil /\ capsRead
    <2>1. capsRead \in BOOLEAN
      BY DEF capsRead, Answered
    <2>2. QED
      BY <1>12, <2>1 DEF Standing
  <1>14. row.state = "over" => /\ cap # Nil
                               /\ cap <= 0 \/ (cap > 0 /\ spent # Nil /\ spent >= cap)
    <2>1. capsRead \in BOOLEAN
      BY DEF capsRead, Answered
    <2>2. cap = Nil \/ cap <= 0 \/ cap > 0
      BY <1>9, PanelAssumption
    <2>3. QED
      BY <1>12, <2>1, <2>2 DEF Standing
  <1>15. (spent # Nil /\ server.month) => \E s \in past : s.spend[u] = spent
    BY <1>1, <1>11 DEF PastIsOfTheAsking
  <1>16. ASSUME row.state = "over"
         PROVE  \E s \in past, t \in past :
                     /\ t.caps[u] # Nil
                     /\ t.caps[u] <= 0 \/ (s.spend[u] # Nil /\ s.spend[u] >= t.caps[u])
    <2>1. PICK t \in past : t.caps[u] = cap
      BY <1>9, <1>14, <1>16
    <2>2. CASE cap <= 0
      BY <1>14, <1>16, <2>1, <2>2
    <2>3. CASE cap > 0 /\ spent # Nil /\ spent >= cap
      <3>1. PICK s \in past : /\ s.spend[u] # Nil /\ s.spend[u] \in Nat
                              /\ s.month => spent = s.spend[u]
                              /\ ~s.month => spent = 0
        BY <1>11, <2>3
      <3>2. cap \in Int /\ cap # Nil
        BY <1>9, <1>14, <1>16, PanelAssumption
      <3>3. spent = s.spend[u]
        BY <2>3, <3>1, <3>2
      <3>4. QED
        BY <2>1, <2>3, <3>1, <3>2, <3>3
    <2>4. QED
      BY <1>14, <1>16, <2>2, <2>3
  <1>17. QED
    BY <1>9, <1>10, <1>12, <1>13, <1>15, <1>16 DEF row, capsRead

LEMMA RunsWereTrue ==
    ASSUME PanelInv, Shown("runs"), NEW r \in DOMAIN view.rows
    PROVE  LET row == view.rows[r]
           IN  /\ \E s \in past : s.runs[r] = row.state
               /\ row.budget # Nil => \E s \in past : s.budgets[r] = row.budget
               /\ (row.budget = Nil /\ row.budgetsRead) => \E s \in past : s.budgets[r] = Nil
  <1> DEFINE budgets == IF Answered("budgets") THEN got["budgets"].body
                        ELSE IF Answered("alerts") THEN got["alerts"].body
                        ELSE Blank
             budget == At(budgets, r)
             row == view.rows[r]
  <1>1. /\ PanelTypeOK /\ AnswersWereTrue
        /\ \A x \in {"runs", "budgets", "alerts"} : x \in Route
    BY DEF PanelInv, Route
  <1>2. view = RunsView /\ Answered("runs")
    <2>1. view = ViewOf("runs") /\ ~view.error
      BY ShownIs DEF Shown, Panel
    <2>2. view = RunsView
      BY <2>1 DEF ViewOf
    <2>3. view.error <=> ~Answered("runs")
      BY <2>2 DEF RunsView
    <2>4. QED
      BY <2>1, <2>2, <2>3
  <1>3. view.rows = [x \in DOMAIN got["runs"].body |->
                        [state |-> got["runs"].body[x], budget |-> At(budgets, x),
                         budgetsRead |-> BudgetsRead]]
    BY <1>2 DEF RunsView
  <1>4. /\ r \in DOMAIN got["runs"].body
        /\ row = [state |-> got["runs"].body[r], budget |-> budget, budgetsRead |-> BudgetsRead]
    BY <1>3
  <1>5. PICK s \in past : got["runs"].body = Body("runs", s)
    BY <1>1, <1>2 DEF AnswersWereTrue, Answered
  <1>6. r \in RunId /\ got["runs"].body[r] = s.runs[r]
    <2>1. s \in Server
      BY <1>1 DEF PanelTypeOK
    <2>2. /\ DOMAIN Body("runs", s) \subseteq RunId
          /\ \A x \in DOMAIN Body("runs", s) : Body("runs", s)[x] = s.runs[x]
      BY <2>1, RunsHold
    <2>3. QED
      BY <1>4, <1>5, <2>2
  <1>7. \/ budgets = Blank /\ ~BudgetsRead
        \/ ~BudgetsRead /\ \E t \in past : budgets = Body("alerts", t)
        \/ \E t \in past : budgets = Body("budgets", t)
    BY <1>1 DEF AnswersWereTrue, Answered, BudgetsRead
  <1>8. DOMAIN Blank = {}
    BY DEF Blank
  <1> HIDE DEF budgets
  <1>9. budget # Nil => \E t \in past : t.budgets[r] = budget
    <2>1. ASSUME budget # Nil PROVE \E t \in past : t.budgets[r] = budget
      <3>1. r \in DOMAIN budgets /\ budget = budgets[r]
        BY <2>1 DEF At
      <3>2. QED
        <4>1. \A t \in past :
                  /\ \A x \in DOMAIN Body("alerts", t) : Body("alerts", t)[x] = t.budgets[x]
                  /\ \A x \in DOMAIN Body("budgets", t) : Body("budgets", t)[x] = t.budgets[x]
          <5>1. \A t \in past : t \in Server
            BY <1>1 DEF PanelTypeOK
          <5>2. QED
            BY <5>1, BudgetsHold
        <4>2. QED
          BY <1>7, <1>8, <3>1, <4>1
    <2>2. QED
      BY <2>1
  <1>10. budget = Nil /\ BudgetsRead => \E t \in past : t.budgets[r] = Nil
    <2>1. ASSUME budget = Nil, BudgetsRead PROVE \E t \in past : t.budgets[r] = Nil
      <3>1. PICK t \in past : budgets = Body("budgets", t)
        BY <1>7, <2>1
      <3>2. /\ DOMAIN budgets = {x \in RunId : t.budgets[x] # Nil}
            /\ \A x \in DOMAIN budgets : budgets[x] = t.budgets[x]
        BY <1>1, <3>1, BudgetsHold DEF PanelTypeOK
      <3>3. QED
        BY <1>6, <2>1, <3>2 DEF At
    <2>2. QED
      BY <2>1
  <1> HIDE DEF budget
  <1>11. row.state = s.runs[r] /\ row.budget = budget /\ row.budgetsRead = BudgetsRead
    BY <1>4, <1>6
  <1>12. QED
    BY <1>9, <1>10, <1>11

LEMMA OutagesAreSaid == PanelInv => OutageIsNotEmptiness
  <1>1. SUFFICES ASSUME PanelInv PROVE OutageIsNotEmptiness
    OBVIOUS
  <1>2. PanelTypeOK /\ AnswersWereTrue
    BY <1>1 DEF PanelInv
  <1>3. ASSUME Shown("units"), DOMAIN view.rows = {}
        PROVE  \/ "units" \notin view.notes /\ \E s \in past : Records(s) = {}
               \/ /\ "unit-budgets" \notin view.notes
                  /\ \E s \in past : \A u \in Unit : s.caps[u] = Nil
               \/ \E r \in RoutesOf("units") : got[r].is = "absent"
    <2>1. /\ view = ViewOf("units") /\ ~view.error
          /\ \A r \in RoutesOf("units") : got[r].is \in {"ok", "absent", "err"}
      BY <1>1, <1>3, ShownIs DEF Shown, Panel
    <2>2. view = UnitsView
      BY <2>1 DEF ViewOf
    <2>3. /\ ~UnitsErr /\ view.rows = JoinUnitCaps
          /\ view.notes = {r \in RoutesOf("units") : ~Answered(r)}
      BY <2>1, <2>2 DEF UnitsView
    <2>4. RoutesOf("units") = {"units", "unit-budgets"} /\ "units" \in Route
          /\ "unit-budgets" \in Route
      BY DEF RoutesOf, Route
    <2>5. CASE Answered("units")
      <3>1. DOMAIN got["units"].body = {}
        BY <1>3, <2>3, <2>5 DEF JoinUnitCaps
      <3>2. PICK s \in past : got["units"].body = Body("units", s)
        BY <1>2, <2>4, <2>5 DEF AnswersWereTrue, Answered
      <3>3. Records(s) = {}
        BY <1>2, <3>1, <3>2, SpendHolds DEF PanelTypeOK
      <3>4. QED
        BY <2>3, <2>5, <3>3
    <2>6. CASE Answered("unit-budgets")
      <3>1. DOMAIN got["unit-budgets"].body = {}
        BY <1>3, <2>3, <2>6 DEF JoinUnitCaps
      <3>2. PICK s \in past : got["unit-budgets"].body = Body("unit-budgets", s)
        BY <1>2, <2>4, <2>6 DEF AnswersWereTrue, Answered
      <3>3. {u \in Unit : s.caps[u] # Nil} = {}
        BY <1>2, <3>1, <3>2, CapsHold DEF PanelTypeOK
      <3>4. QED
        BY <2>3, <2>6, <3>3
    <2>7. CASE ~Answered("units") /\ ~Answered("unit-budgets")
      BY <2>1, <2>3, <2>4, <2>7 DEF UnitsErr, Answered
    <2>8. QED
      BY <2>5, <2>6, <2>7
  <1>4. ASSUME Shown("posture")
        PROVE  /\ \E r \in RoutesOf("posture") : got[r].is \in {"ok", "absent"}
               /\ \A r \in RoutesOf("posture") : view.rows[r] = Nil => r \in view.notes
    <2>1. /\ view = ViewOf("posture") /\ ~view.error
          /\ \A r \in RoutesOf("posture") : got[r].is \in {"ok", "absent", "err"}
      BY <1>1, <1>4, ShownIs DEF Shown, Panel
    <2>2. view = PostureView
      BY <2>1 DEF ViewOf
    <2>3. /\ Failures # RoutesOf("posture")
          /\ view.rows = [r \in RoutesOf("posture") |-> Section(r)]
          /\ view.notes = Failures \cup ({"price-book"} \ {r \in Route : Answered(r)})
      <3>1. view.error <=> Failures = RoutesOf("posture")
        BY <2>2 DEF PostureView
      <3>2. Failures # RoutesOf("posture")
        BY <2>1, <3>1
      <3>3. QED
        BY <2>2, <3>2 DEF PostureView
    <2>4. RoutesOf("posture") = {"settings", "keys", "price-book"}
      BY DEF RoutesOf
    <2>5. \A r \in RoutesOf("posture") : got[r].is = "absent" => r # "keys"
      BY <1>2, <2>4 DEF AnswersWereTrue, Route, Optional
    <2>6. \E r \in RoutesOf("posture") : got[r].is # "err"
      BY <2>3 DEF Failures
    <2>7. ASSUME NEW r \in RoutesOf("posture"), view.rows[r] = Nil PROVE r \in view.notes
      <3>1. Section(r) = Nil
        BY <2>3, <2>7
      <3>2. ~Answered(r) /\ ~(got[r].is = "absent" /\ r = "settings")
        BY <3>1, PanelAssumption DEF Section
      <3>3. QED
        BY <2>1, <2>3, <2>4, <2>5, <3>2 DEF Failures, Answered
    <2>8. QED
      BY <2>1, <2>6, <2>7
  <1>5. ASSUME view.panel \in {"units", "posture"}, view.error
        PROVE  \A r \in RoutesOf(view.panel) : got[r].is = "err"
    <2>1. CASE view.panel = "units"
      <3>1. view = ViewOf("units")
        BY <1>1, <2>1, ShownIs DEF Panel
      <3>2. view = UnitsView
        BY <3>1 DEF ViewOf
      <3>3. UnitsErr
        BY <1>5, <3>2 DEF UnitsView
      <3>4. QED
        BY <2>1, <3>3 DEF UnitsErr, RoutesOf
    <2>2. CASE view.panel = "posture"
      <3>1. view = ViewOf("posture")
        BY <1>1, <2>2, ShownIs DEF Panel
      <3>2. view = PostureView
        BY <3>1 DEF ViewOf
      <3>3. Failures = RoutesOf("posture")
        BY <1>5, <3>2 DEF PostureView
      <3>4. QED
        BY <2>2, <3>3 DEF Failures
    <2>3. QED
      BY <1>5, <2>1, <2>2
  <1>6. QED
    BY <1>3, <1>4, <1>5 DEF OutageIsNotEmptiness

\* What a panel shows was so while it was read, and an outage is never shown as an empty
\* estate, for any units, runs, caps and spends, whatever moves between the answers and
\* whichever of them are missing or fail (money/units.rs, money/commands.rs, posture.rs).
THEOREM PanelsAreHonestHolds == PanelSpec => []PanelsAreHonest
  <1>1. PanelInit => PanelInv
    BY PanelStarts
  <1>2. PanelInv /\ [PanelNext]_panelVars => PanelInv'
    BY PanelStep
  <1>3. PanelInv => PanelsAreHonest
    <2>1. PanelInv => FiguresWereTrue
      BY UnitsWereTrue, RunsWereTrue DEF FiguresWereTrue
    <2>2. QED
      BY <2>1, OutagesAreSaid DEF PanelsAreHonest
  <1>4. QED
    BY <1>1, <1>2, <1>3, PTL DEF PanelSpec

(***************************************************************************)
(* The delegation graph.                                                   *)
(***************************************************************************)
\* The graph of a set of events: everybody named, every link, every natural key; and of each
\* actor the number of its keys and the last of their moments, counted for nobody else.
Tallied(g, events) ==
    /\ g.nodes = UNION {Named(e) : e \in events}
    /\ g.edges = UNION {EdgesOf(e) : e \in events}
    /\ g.seen = {Key(e) : e \in events}
    /\ \A id \in g.nodes :
         /\ ValueOf(g.count, id, 0) = Cardinality(ActedIn(events, id))
         /\ ValueOf(g.last, id, NoTime) \in {NoTime} \cup {k[2] : k \in ActedIn(events, id)}
         /\ \A k \in ActedIn(events, id) : ValueOf(g.last, id, NoTime) >= k[2]
    /\ DOMAIN g.count \subseteq g.nodes /\ DOMAIN g.last \subseteq g.nodes

\* The inductive invariant of the graph held.
GraphInv ==
    /\ table \in Seq(BusEvent)
    /\ fed \subseteq BusEvent /\ IsFiniteSet(fed)
    /\ Tallied(graph, fed)

\* What an event names, and for whom it counts.
LEMMA NamedIsChainAndActor ==
    ASSUME NEW e \in BusEvent
    PROVE  /\ Named(e) = (ToSet(e.chain) \cup {Filed(e)}) \ {Empty}
           /\ e.ts \in Nat /\ Key(e)[1] = Filed(e) /\ Key(e)[2] = e.ts
           /\ Filed(e) # Empty => Filed(e) \in Named(e)
<1>1. e.chain \in Seq(STRING) /\ e.ts \in Nat
  BY GraphAssumption
<1>2. ToSet(Append(e.chain, Filed(e))) = ToSet(e.chain) \cup {Filed(e)}
  <2>. DEFINE path == Append(e.chain, Filed(e))
              n == Len(e.chain)
  <2>1. /\ n \in Nat /\ DOMAIN path = 1..(n + 1) /\ DOMAIN e.chain = 1..n
        /\ path[n + 1] = Filed(e) /\ \A i \in 1..n : path[i] = e.chain[i]
    BY <1>1
  <2>2. ToSet(path) \subseteq ToSet(e.chain) \cup {Filed(e)}
    <3>. SUFFICES ASSUME NEW i \in 1..(n + 1) PROVE path[i] \in ToSet(e.chain) \cup {Filed(e)}
      BY <2>1 DEF ToSet
    <3>. QED
      BY <2>1 DEF ToSet
  <2>3. ToSet(e.chain) \cup {Filed(e)} \subseteq ToSet(path)
    BY <2>1 DEF ToSet
  <2>. QED
    BY <2>2, <2>3
<1>. QED
  BY <1>1, <1>2 DEF Named, Path, Key

\* The ends of a link are different, and both are named.
LEMMA EdgesAreNamed ==
    ASSUME NEW e \in BusEvent, NEW l \in EdgesOf(e)
    PROVE  /\ l = <<l[1], l[2]>> /\ l[1] # l[2]
           /\ l[1] \in Named(e) /\ l[2] \in Named(e)
<1>. DEFINE path == Path(e)
<1>1. PICK s \in (DOMAIN path) \X (DOMAIN path) :
          l = <<path[s[1]], path[s[2]]>> /\ Delegates(path, s[1], s[2])
  BY DEF EdgesOf
<1>. QED
  BY <1>1 DEF Delegates, Named, ToSet

\* The values of a function on a finite set are finitely many.
LEMMA ValuesAreFinite ==
    ASSUME NEW S, IsFiniteSet(S), NEW f, DOMAIN f = S, f = [x \in S |-> f[x]]
    PROVE  IsFiniteSet({f[x] : x \in S})
<1>1. f \in Surjection(S, {f[x] : x \in S})
  BY DEF Surjection
<1>. QED
  BY <1>1, FS_Surjection

\* A graph that tallies a set of events tallies it with one more, once that is fed to it.
LEMMA IngestTallies ==
    ASSUME NEW g, NEW events \in SUBSET BusEvent, IsFiniteSet(events), NEW e \in BusEvent,
           Tallied(g, events)
    PROVE  Tallied(Ingest(g, e), events \cup {e})
<1>. DEFINE actor == Filed(e)
            counts == Newly(g, e) /\ actor # Empty
            h == Ingest(g, e)
            now == events \cup {e}
            acted(id) == ActedIn(events, id)
            acts(id) == ActedIn(now, id)
            prior == ValueOf(g.last, actor, NoTime)
<1>1. /\ h.nodes = g.nodes \cup Named(e)
      /\ h.edges = g.edges \cup EdgesOf(e)
      /\ h.seen = g.seen \cup {Key(e)}
      /\ counts => /\ h.count = Put(g.count, actor, ValueOf(g.count, actor, 0) + 1)
                   /\ h.last = Put(g.last, actor, Max({e.ts, prior}))
      /\ ~counts => h.count = g.count /\ h.last = g.last
  BY DEF Ingest
<1>. HIDE DEF h
<1>2. h.nodes = UNION {Named(x) : x \in now} /\ h.edges = UNION {EdgesOf(x) : x \in now}
      /\ h.seen = {Key(x) : x \in now}
  BY <1>1 DEF Tallied
<1>3. \A x \in now : Key(x)[1] = Filed(x) /\ Key(x)[2] = x.ts /\ x.ts \in Nat
                     /\ (Filed(x) # Empty => Filed(x) \in Named(x))
  BY NamedIsChainAndActor
<1>4. \A id : id # Empty /\ id \notin g.nodes => acted(id) = {}
  BY <1>3 DEF Tallied, ActedIn
<1>5. \A id : id # actor => acts(id) = acted(id)
  BY DEF ActedIn
<1>6. acts(actor) = acted(actor) \cup {Key(e)}
  BY DEF ActedIn
<1>7. ~Newly(g, e) => Key(e) \in acted(actor)
  BY <1>3 DEF Newly, Tallied, ActedIn
<1>8. Newly(g, e) => Key(e) \notin acted(actor)
  BY DEF Newly, Tallied, ActedIn
<1>9. \A id : IsFiniteSet(acted(id))
  <2>. SUFFICES ASSUME NEW id PROVE IsFiniteSet(acted(id))
    OBVIOUS
  <2>1. IsFiniteSet({x \in events : Filed(x) = id})
    BY FS_Subset
  <2>. DEFINE S == {x \in events : Filed(x) = id}
              f == [x \in S |-> Key(x)]
  <2>2. IsFiniteSet({f[x] : x \in S})
    <3>. HIDE DEF S
    <3>1. f = [x \in S |-> f[x]] /\ DOMAIN f = S
      OBVIOUS
    <3>. HIDE DEF f
    <3>. QED
      BY <2>1, <3>1, ValuesAreFinite DEF S
  <2>3. {f[x] : x \in S} = acted(id)
    BY DEF ActedIn
  <2>. QED
    BY <2>2, <2>3
<1>10. \A id : id # Empty =>
          /\ ValueOf(g.count, id, 0) = Cardinality(acted(id))
          /\ ValueOf(g.last, id, NoTime) \in {NoTime} \cup {k[2] : k \in acted(id)}
          /\ \A k \in acted(id) : ValueOf(g.last, id, NoTime) >= k[2]
  <2>. SUFFICES ASSUME NEW id, id # Empty, id \notin g.nodes
                PROVE  /\ ValueOf(g.count, id, 0) = Cardinality(acted(id))
                       /\ ValueOf(g.last, id, NoTime) = NoTime
    BY <1>4 DEF Tallied
  <2>1. ValueOf(g.count, id, 0) = 0 /\ ValueOf(g.last, id, NoTime) = NoTime
    BY DEF ValueOf, Tallied
  <2>. QED
    BY <2>1, <1>4, FS_EmptySet
<1>. HIDE DEF acted, acts, prior
<1>11. \A id \in h.nodes :
          /\ ValueOf(h.count, id, 0) = Cardinality(acts(id))
          /\ ValueOf(h.last, id, NoTime) \in {NoTime} \cup {k[2] : k \in acts(id)}
          /\ \A k \in acts(id) : ValueOf(h.last, id, NoTime) >= k[2]
  <2>. SUFFICES ASSUME NEW id \in h.nodes
                PROVE  /\ ValueOf(h.count, id, 0) = Cardinality(acts(id))
                       /\ ValueOf(h.last, id, NoTime) \in {NoTime} \cup {k[2] : k \in acts(id)}
                       /\ \A k \in acts(id) : ValueOf(h.last, id, NoTime) >= k[2]
    OBVIOUS
  <2>0. id # Empty
    BY <1>2 DEF Named
  <2>1. CASE ~counts \/ id # actor
    <3>1. ValueOf(h.count, id, 0) = ValueOf(g.count, id, 0)
          /\ ValueOf(h.last, id, NoTime) = ValueOf(g.last, id, NoTime)
      BY <2>1, <1>1 DEF ValueOf, Put
    <3>2. acts(id) = acted(id)
      BY <2>1, <2>0, <1>5, <1>6, <1>7
    <3>. QED
      BY <3>1, <3>2, <2>0, <1>10
  <2>2. CASE counts /\ id = actor
    <3>1. prior \in Nat /\ e.ts \in Nat /\ \A k \in acted(id) : k[2] \in Nat
      <4>1. \A k \in acted(id) : k[2] \in Nat
        BY <1>3 DEF acted, ActedIn
      <4>. QED
        BY <4>1, <2>2, <2>0, <1>3, <1>10 DEF NoTime, prior
    <3>2. /\ Max({e.ts, prior}) \in {e.ts, prior}
          /\ Max({e.ts, prior}) >= e.ts /\ Max({e.ts, prior}) >= prior
      BY <3>1 DEF Max
    <3>3. /\ ValueOf(h.count, id, 0) = Cardinality(acted(id)) + 1
          /\ ValueOf(h.last, id, NoTime) = Max({e.ts, prior})
      BY <2>2, <2>0, <1>1, <1>10 DEF ValueOf, Put
    <3>4. Cardinality(acts(id)) = Cardinality(acted(id)) + 1
      BY <2>2, <1>6, <1>8, <1>9, FS_AddElement
    <3>5. ValueOf(h.last, id, NoTime) \in {NoTime} \cup {k[2] : k \in acts(id)}
      <4>1. prior \in {NoTime} \cup {k[2] : k \in acted(id)}
        BY <2>0, <2>2, <1>10 DEF prior
      <4>2. e.ts \in {k[2] : k \in acts(id)} /\ acted(id) \subseteq acts(id)
        BY <2>2, <1>3, <1>6
      <4>. QED
        BY <4>1, <4>2, <3>2, <3>3
    <3>6. \A k \in acts(id) : ValueOf(h.last, id, NoTime) >= k[2]
      <4>. SUFFICES ASSUME NEW k \in acts(id) PROVE Max({e.ts, prior}) >= k[2]
        BY <3>3
      <4>1. CASE k \in acted(id)
        <5>1. prior >= k[2]
          BY <4>1, <2>0, <2>2, <1>10 DEF prior
        <5>. QED
          BY <5>1, <4>1, <3>1, <3>2
      <4>2. CASE k = Key(e)
        BY <4>2, <3>2, <1>3
      <4>. QED
        BY <4>1, <4>2, <2>2, <1>6
    <3>. QED
      BY <3>3, <3>4, <3>5, <3>6
  <2>. QED
    BY <2>1, <2>2
<1>12. DOMAIN h.count \subseteq h.nodes /\ DOMAIN h.last \subseteq h.nodes
  <2>1. DOMAIN g.count \subseteq g.nodes /\ DOMAIN g.last \subseteq g.nodes
    BY DEF Tallied
  <2>2. actor # Empty => actor \in Named(e)
    BY <1>3
  <2>. QED
    BY <2>1, <2>2, <1>1 DEF Put
<1>. QED
  BY <1>2, <1>11, <1>12 DEF Tallied, h, acts

\* A non-empty set of natural numbers has a first one: what stands in for induction below.
NatLess == OpToRel(<, Nat)
LEMMA FirstOfNaturals ==
    ASSUME NEW S \in SUBSET Nat, S # {}
    PROVE  \E n \in S : \A m \in S : m >= n
<1>1. IsWellFoundedOn(NatLess, Nat)
  BY NatLessThanWellFounded DEF NatLess
<1>2. \A m, n \in Nat : m < n => <<m, n>> \in NatLess
  BY DEF NatLess, OpToRel
<1>3. PICK n \in S : \A m \in S : ~(<<m, n>> \in NatLess)
  BY <1>1, WFMin
<1>4. \A m \in S : m \in Nat /\ n \in Nat /\ ~(m < n)
  BY <1>2, <1>3
<1>. QED
  BY <1>4

\* The empty graph tallies no event.
LEMMA NoGraphTallies == Tallied(NoGraph, {})
BY DEF Tallied, NoGraph

\* from_store tallies the events of the rows it is given, in whatever order and however often
\* they come.
LEMMA FromStoreTallies ==
    ASSUME NEW events \in Seq(BusEvent)
    PROVE  Tallied(FromStore(events), ToSet(events))
<1>. DEFINE N == Len(events)
            upTo == CHOOSE f : f = [n \in 0..N |-> IF n = 0 THEN NoGraph ELSE Ingest(f[n - 1], events[n])]
            first(n) == {events[i] : i \in 1..n}
            Builds(f, n) ==
                /\ f = [m \in 0..n |-> IF m = 0 THEN NoGraph ELSE Ingest(f[m - 1], events[m])]
                /\ Tallied(f[n], first(n))
            missed == {n \in Nat : n <= N /\ ~\E f : Builds(f, n)}
<1>1. FromStore(events) = upTo[N]
  BY DEF FromStore
<1>2. N \in Nat /\ DOMAIN events = 1..N /\ \A i \in 1..N : events[i] \in BusEvent
  OBVIOUS
<1>3. missed = {}
  <2>1. SUFFICES ASSUME missed # {} PROVE FALSE
    OBVIOUS
  <2>3. PICK n \in missed : \A m \in missed : m >= n
    <3>1. missed \subseteq Nat
      OBVIOUS
    <3>. HIDE DEF missed
    <3>. QED
      BY <2>1, <3>1, FirstOfNaturals
  <2>4. CASE n = 0
    <3>. DEFINE f0 == [m \in 0..0 |-> NoGraph]
    <3>1. f0 = [m \in 0..0 |-> IF m = 0 THEN NoGraph ELSE Ingest(f0[m - 1], events[m])]
      OBVIOUS
    <3>2. first(0) = {} /\ f0[0] = NoGraph
      OBVIOUS
    <3>3. Builds(f0, 0)
      BY <3>1, <3>2, NoGraphTallies
    <3>. QED
      BY <3>3, <2>4
  <2>5. CASE n # 0
    <3>1. n \in 1..N /\ n - 1 \in Nat /\ n - 1 \notin missed /\ n - 1 <= N
      <4>. HIDE DEF Builds
      <4>. QED
        BY <2>5, <2>3, <1>2
    <3>2. PICK f : Builds(f, n - 1)
      BY <3>1
    <3>. DEFINE k == [m \in 0..n |-> IF m = n THEN Ingest(f[n - 1], events[n]) ELSE f[m]]
    <3>3. \A m \in 0..(n - 1) : f[m] = IF m = 0 THEN NoGraph ELSE Ingest(f[m - 1], events[m])
      <4>1. f = [m \in 0..(n - 1) |-> IF m = 0 THEN NoGraph ELSE Ingest(f[m - 1], events[m])]
        BY <3>2
      <4>. QED
        BY <4>1
    <3>4. ASSUME NEW m \in 0..n
          PROVE  k[m] = IF m = 0 THEN NoGraph ELSE Ingest(k[m - 1], events[m])
      <4>1. CASE m = n
        <5>1. k[m] = Ingest(f[n - 1], events[n]) /\ k[m - 1] = f[n - 1]
          BY <4>1, <3>1
        <5>. QED
          BY <5>1, <4>1, <3>1
      <4>2. CASE m # n
        <5>1. m \in 0..(n - 1) /\ k[m] = f[m] /\ (m # 0 => m - 1 \in 0..n /\ m - 1 # n)
          BY <4>2, <3>1
        <5>2. m # 0 => k[m - 1] = f[m - 1]
          BY <5>1
        <5>. QED
          BY <5>1, <5>2, <3>3
      <4>. QED
        BY <4>1, <4>2
    <3>5. k = [m \in 0..n |-> IF m = 0 THEN NoGraph ELSE Ingest(k[m - 1], events[m])]
      <4>. HIDE DEF k
      <4>1. k = [m \in 0..n |-> k[m]]
        BY DEF k
      <4>. QED
        BY <4>1, <3>4
    <3>6. k[n] = Ingest(f[n - 1], events[n])
      BY <3>1
    <3>7. first(n) = first(n - 1) \cup {events[n]}
      <4>1. 1..n = 1..(n - 1) \cup {n}
        BY <3>1
      <4>. QED
        BY <4>1
    <3>8. first(n - 1) \subseteq BusEvent /\ IsFiniteSet(first(n - 1))
      <4>1. first(n - 1) \subseteq BusEvent
        BY <3>1, <1>2
      <4>2. IsFiniteSet(1..(n - 1))
        BY <3>1, FS_Interval
      <4>. DEFINE r == [i \in 1..(n - 1) |-> events[i]]
      <4>3. IsFiniteSet({r[i] : i \in 1..(n - 1)})
        <5>1. r = [i \in 1..(n - 1) |-> r[i]] /\ DOMAIN r = 1..(n - 1)
          OBVIOUS
        <5>. HIDE DEF r
        <5>. QED
          BY <4>2, <5>1, ValuesAreFinite
      <4>4. {r[i] : i \in 1..(n - 1)} = first(n - 1)
        OBVIOUS
      <4>. QED
        BY <4>1, <4>3, <4>4
    <3>9. Tallied(k[n], first(n))
      <4>1. Tallied(f[n - 1], first(n - 1)) /\ events[n] \in BusEvent
        BY <3>1, <3>2, <1>2
      <4>. HIDE DEF first, k
      <4>2. Tallied(Ingest(f[n - 1], events[n]), first(n - 1) \cup {events[n]})
        BY <4>1, <3>8, IngestTallies
      <4>. QED
        BY <4>2, <3>6, <3>7
    <3>10. Builds(k, n)
      <4>. HIDE DEF k
      <4>. QED
        BY <3>5, <3>9
    <3>. QED
      BY <3>10
  <2>. QED
    BY <2>4, <2>5
<1>4. \E f : Builds(f, N)
  <2>. HIDE DEF Builds
  <2>. QED
    BY <1>2, <1>3
<1>5. upTo = [n \in 0..N |-> IF n = 0 THEN NoGraph ELSE Ingest(upTo[n - 1], events[n])]
  <2>1. \E f : f = [n \in 0..N |-> IF n = 0 THEN NoGraph ELSE Ingest(f[n - 1], events[n])]
    BY <1>4
  <2>. QED
    BY <2>1
<1>6. PICK f : Builds(f, N)
  BY <1>4
<1>. HIDE DEF upTo
<1>7. \A n \in 0..N : upTo[n] = IF n = 0 THEN NoGraph ELSE Ingest(upTo[n - 1], events[n])
  BY <1>5
<1>. DEFINE differ == {n \in Nat : n <= N /\ upTo[n] # f[n]}
<1>8. differ = {}
  <2>1. SUFFICES ASSUME differ # {} PROVE FALSE
    OBVIOUS
  <2>2. PICK n \in differ : \A m \in differ : m >= n
    <3>1. differ \subseteq Nat
      OBVIOUS
    <3>. HIDE DEF differ
    <3>. QED
      BY <2>1, <3>1, FirstOfNaturals
  <2>3. n \in 0..N /\ upTo[n] # f[n] /\ (n # 0 => n - 1 \in 0..N /\ upTo[n - 1] = f[n - 1])
    BY <2>2, <1>2
  <2>4. f[n] = IF n = 0 THEN NoGraph ELSE Ingest(f[n - 1], events[n])
    BY <1>6, <2>3
  <2>. QED
    BY <2>3, <2>4, <1>7
<1>9. ToSet(events) = first(N)
  BY <1>2 DEF ToSet
<1>10. upTo[N] = f[N]
  BY <1>2, <1>8
<1>. QED
  BY <1>1, <1>6, <1>9, <1>10

\* What the operator is shown of such a graph is a function of its events.
LEMMA TalliedIsFaithful ==
    ASSUME fed \subseteq BusEvent, Tallied(graph, fed)
    PROVE  GraphIsFaithful
<1>1. \A e \in fed : /\ Named(e) = (ToSet(e.chain) \cup {Filed(e)}) \ {Empty}
                     /\ e.ts \in Nat /\ Key(e)[1] = Filed(e) /\ Key(e)[2] = e.ts
                     /\ Filed(e) # Empty => Filed(e) \in Named(e)
  BY NamedIsChainAndActor
<1>2. graph.nodes = (UNION {ToSet(e.chain) \cup {Filed(e)} : e \in fed}) \ {Empty}
  BY <1>1 DEF Tallied
<1>3. ASSUME NEW id \in graph.nodes
      PROVE  ValueOf(graph.last, id, NoTime) = Max({NoTime} \cup {k[2] : k \in ActedIn(fed, id)})
  <2>. DEFINE T == {NoTime} \cup {k[2] : k \in ActedIn(fed, id)}
              l == ValueOf(graph.last, id, NoTime)
  <2>1. l \in T /\ \A k \in ActedIn(fed, id) : l >= k[2]
    BY <1>3 DEF Tallied
  <2>2. \A x \in T : x \in Nat
    BY <1>1 DEF NoTime, ActedIn
  <2>3. \A x \in T : l >= x
    <3>1. l \in Nat
      BY <2>1, <2>2
    <3>. HIDE DEF l
    <3>. QED
      BY <2>1, <3>1 DEF NoTime
  <2>. HIDE DEF T, l
  <2>4. Max(T) \in T /\ \A x \in T : Max(T) >= x
    BY <2>1, <2>3 DEF Max
  <2>5. l = Max(T)
    BY <2>1, <2>2, <2>3, <2>4
  <2>. QED
    BY <2>5 DEF T, l
<1>4. GraphIsOfTheSet
  BY <1>2, <1>3 DEF GraphIsOfTheSet, Tallied
<1>5. \A l \in graph.edges : /\ l = <<l[1], l[2]>> /\ l[1] # l[2]
                             /\ l[1] \in graph.nodes /\ l[2] \in graph.nodes
  BY EdgesAreNamed DEF Tallied
<1>6. Empty \notin graph.nodes
  BY <1>2
<1>7. ASSUME NEW id \in graph.nodes
      PROVE  LET s == Slice(graph, id)
             IN  /\ s.parents \cup s.children \subseteq graph.nodes \ {id, Empty}
                 /\ (\A e \in fed : e.agent = id => e.kind = "identity_mismatch")
                        => id = NoKey \/ s.acted = 0
  <2>1. /\ Slice(graph, id).parents \subseteq graph.nodes \ {id, Empty}
        /\ Slice(graph, id).children \subseteq graph.nodes \ {id, Empty}
    BY <1>5, <1>6 DEF Slice
  <2>2. ASSUME \A e \in fed : e.agent = id => e.kind = "identity_mismatch", id # NoKey
        PROVE  Slice(graph, id).acted = 0
    <3>1. ActedIn(fed, id) = {}
      BY <2>2 DEF ActedIn, Filed
    <3>. QED
      BY <3>1, <1>7, FS_EmptySet DEF Slice, Tallied
  <2>. QED
    BY <2>1, <2>2
<1>. QED
  BY <1>4, <1>7 DEF GraphIsFaithful, SlicesAreWhole

\* The graph shown is a function of the set of events it was fed, in whatever order, however
\* often and whichever way they came (DelegationGraph::ingest, from_store, add_event): its
\* nodes, counts and last moments are theirs, its slices are whole, and an agent that refused
\* callers only claimed to be has done nothing in it.
THEOREM GraphIsFaithfulHolds == GraphSpec => []GraphIsFaithful
<1>1. GraphInit => GraphInv
  BY NoGraphTallies, FS_EmptySet DEF GraphInit, GraphInv
<1>2. GraphInv /\ [GraphNext]_graphVars => GraphInv'
  <2>. SUFFICES ASSUME GraphInv, [GraphNext]_graphVars PROVE GraphInv'
    OBVIOUS
  <2>. USE DEF GraphInv
  <2>1. ASSUME NEW e \in BusEvent, Store(e) PROVE GraphInv'
    BY <2>1 DEF Store
  <2>2. CASE BuildGraph
    <3>1. table' = table /\ graph' = FromStore(table) /\ fed' = ToSet(table)
      BY <2>2 DEF BuildGraph
    <3>2. Tallied(graph', fed')
      BY <3>1, FromStoreTallies
    <3>3. ToSet(table) \subseteq BusEvent
      BY DEF ToSet
    <3>4. IsFiniteSet(ToSet(table))
      <4>. DEFINE S == DOMAIN table
      <4>1. IsFiniteSet(S) /\ table = [i \in S |-> table[i]]
        <5>1. Len(table) \in Nat /\ S = 1..Len(table)
          OBVIOUS
        <5>2. table = [i \in S |-> table[i]]
          OBVIOUS
        <5>3. IsFiniteSet(1..Len(table))
          BY <5>1, FS_Interval
        <5>. QED
          BY <5>1, <5>2, <5>3
      <4>. QED
        BY <4>1, ValuesAreFinite DEF ToSet
    <3>. QED
      BY <3>1, <3>2, <3>3, <3>4
  <2>3. ASSUME NEW e \in BusEvent, AddEvent(e) PROVE GraphInv'
    <3>1. table' = table /\ graph' = Ingest(graph, e) /\ fed' = fed \cup {e}
      BY <2>3 DEF AddEvent
    <3>2. Tallied(graph', fed')
      BY <3>1, IngestTallies
    <3>3. IsFiniteSet(fed')
      BY <3>1, FS_AddElement
    <3>. QED
      BY <3>1, <3>2, <3>3
  <2>4. CASE UNCHANGED graphVars
    BY <2>4 DEF graphVars, Tallied
  <2>. QED
    BY <2>1, <2>2, <2>3, <2>4 DEF GraphNext
<1>3. GraphInv => GraphIsFaithful
  BY TalliedIsFaithful DEF GraphInv
<1>. QED
  BY <1>1, <1>2, <1>3, PTL DEF GraphSpec

-----------------------------------------------------------------------------
(***************************************************************************)
(* The statistics and the profile of an agent.                             *)
(***************************************************************************)
\* A finite set of natural numbers that is not empty has a last one.
LEMMA LastOfNaturals ==
    ASSUME NEW S \in SUBSET Nat, IsFiniteSet(S), S # {}
    PROVE  \E n \in S : \A m \in S : m <= n
<1>. DEFINE Endless(T) == T # {} /\ ~\E n \in T : \A m \in T : m <= n
            sizes == {k \in Nat : \E T \in SUBSET S : Cardinality(T) = k /\ Endless(T)}
<1>1. SUFFICES ASSUME Endless(S) PROVE FALSE
  OBVIOUS
<1>2. \A T \in SUBSET S : IsFiniteSet(T) /\ Cardinality(T) \in Nat
  BY FS_Subset, FS_CardinalityType
<1>3. sizes # {}
  BY <1>1, <1>2
<1>4. PICK k \in sizes : \A j \in sizes : j >= k
  <2>1. sizes \subseteq Nat
    OBVIOUS
  <2>. HIDE DEF sizes
  <2>. QED
    BY <1>3, <2>1, FirstOfNaturals
<1>5. PICK T \in SUBSET S : Cardinality(T) = k /\ Endless(T)
  BY <1>4
<1>6. PICK t \in T : TRUE
  BY <1>5
<1>7. IsFiniteSet(T \ {t}) /\ Cardinality(T \ {t}) = k - 1 /\ k \in Nat
  BY <1>2, <1>4, <1>5, FS_RemoveElement
<1>8. T \ {t} # {}
  BY <1>5
<1>9. k - 1 \in Nat
  BY <1>2, <1>7
<1>10. ~Endless(T \ {t})
  <2>1. k - 1 \notin sizes
    BY <1>4, <1>7
  <2>. QED
    BY <2>1, <1>7, <1>9
<1>11. PICK n \in T \ {t} : \A m \in T \ {t} : m <= n
  BY <1>8, <1>10
<1>12. t \in Nat /\ n \in Nat /\ T \subseteq Nat
  OBVIOUS
<1>13. \E x \in T : \A m \in T : m <= x
  <2>1. CASE t <= n
    BY <2>1, <1>11
  <2>2. CASE n <= t
    <3>1. \A m \in T : m <= t
      <4>. SUFFICES ASSUME NEW m \in T, m # t PROVE m <= t
        BY <1>12
      <4>. QED
        BY <1>11, <1>12, <2>2
    <3>. QED
      BY <3>1
  <2>. QED
    BY <2>1, <2>2, <1>12
<1>. QED
  BY <1>13, <1>5

\* The rows a read leaves out when it has not reached its limit: none.
LEMMA CutIsWhole ==
    ASSUME NEW S, IsFiniteSet(S), \A r \in S : r.id \in Nat, NEW limit \in Nat,
           Cardinality(NewestOf(S, limit)) < limit
    PROVE  NewestOf(S, limit) = S
<1>. DEFINE Left == S \ NewestOf(S, limit)
            f == [r \in S |-> r.id]
            ids == {f[r] : r \in Left}
<1>1. SUFFICES ASSUME Left # {} PROVE FALSE
  BY DEF NewestOf
<1>2. IsFiniteSet(ids)
  <2>1. IsFiniteSet(Left)
    BY FS_Subset
  <2>2. [r \in Left |-> f[r]] \in Surjection(Left, ids)
    BY DEF Surjection
  <2>. QED
    BY <2>1, <2>2, FS_Surjection
<1>3. PICK n \in ids : \A m \in ids : m <= n
  <2>1. ids \subseteq Nat /\ ids # {}
    BY <1>1
  <2>. HIDE DEF ids
  <2>. QED
    BY <1>2, <2>1, LastOfNaturals
<1>4. PICK r \in Left : r.id = n
  BY <1>3
<1>5. {k \in S : k.id > r.id} \subseteq NewestOf(S, limit)
  <2>. SUFFICES ASSUME NEW k \in S, k.id > r.id, k \notin NewestOf(S, limit) PROVE FALSE
    OBVIOUS
  <2>1. k \in Left /\ f[k] = k.id
    OBVIOUS
  <2>2. k.id <= n
    BY <2>1, <1>3
  <2>. QED
    BY <2>2, <1>4
<1>6. NewestOf(S, limit) \subseteq S
  BY DEF NewestOf
<1>7. IsFiniteSet(NewestOf(S, limit))
  BY <1>6, FS_Subset
<1>8. /\ Cardinality({k \in S : k.id > r.id}) <= Cardinality(NewestOf(S, limit))
      /\ Cardinality({k \in S : k.id > r.id}) \in Nat
      /\ Cardinality(NewestOf(S, limit)) \in Nat
  BY <1>5, <1>7, FS_Subset, FS_CardinalityType
<1>9. r \in NewestOf(S, limit)
  BY <1>4, <1>8 DEF NewestOf
<1>. QED
  BY <1>4, <1>9

\* There is a k-th of finitely many counts.
LEMMA NthIsThere ==
    ASSUME NEW days, IsFiniteSet(days), NEW count, \A d \in days : count[d] \in Nat,
           NEW k \in 1..Cardinality(days)
    PROVE  /\ Nth(days, count, k) \in Nat
           /\ Cardinality({d \in days : count[d] < Nth(days, count, k)}) < k
           /\ Cardinality({d \in days : count[d] <= Nth(days, count, k)}) >= k
<1>. DEFINE Below(v) == {d \in days : count[d] < v}
            UpTo(v) == {d \in days : count[d] <= v}
            values == {count[d] : d \in days}
            enough == {v \in Nat : Cardinality(UpTo(v)) >= k}
<1>1. /\ k \in Nat /\ k >= 1
      /\ \A v : IsFiniteSet(Below(v)) /\ IsFiniteSet(UpTo(v))
      /\ \A v : Cardinality(Below(v)) \in Nat /\ Cardinality(UpTo(v)) \in Nat
  <2>1. \A v : IsFiniteSet(Below(v)) /\ IsFiniteSet(UpTo(v))
    BY FS_Subset
  <2>2. k \in Nat /\ k >= 1
    BY FS_CardinalityType
  <2>3. \A v : Cardinality(Below(v)) \in Nat /\ Cardinality(UpTo(v)) \in Nat
    <3>. HIDE DEF Below, UpTo
    <3>. QED
      BY <2>1, FS_CardinalityType
  <2>. QED
    BY <2>1, <2>2, <2>3
<1>2. enough # {}
  <2>1. IsFiniteSet(values)
    <3>1. [d \in days |-> count[d]] \in Surjection(days, values)
      BY DEF Surjection
    <3>. QED
      BY <3>1, FS_Surjection
  <2>2. values # {} /\ values \subseteq Nat
    <3>1. days # {}
      BY <1>1, FS_EmptySet
    <3>. QED
      BY <3>1
  <2>3. PICK n \in values : \A m \in values : m <= n
    <3>. HIDE DEF values
    <3>. QED
      BY <2>1, <2>2, LastOfNaturals
  <2>4. UpTo(n) = days /\ n \in Nat
    BY <2>3
  <2>5. Cardinality(days) \in Nat
    BY FS_CardinalityType
  <2>. QED
    BY <2>4, <2>5
<1>3. PICK v \in enough : \A w \in enough : w >= v
  <2>1. enough \subseteq Nat
    OBVIOUS
  <2>. HIDE DEF enough
  <2>. QED
    BY <1>2, <2>1, FirstOfNaturals, Zenon
<1>4. Cardinality(Below(v)) < k
  <2>1. CASE v = 0
    <3>1. Below(v) = {}
      BY <2>1
    <3>. QED
      BY <3>1, <1>1, FS_EmptySet
  <2>2. CASE v # 0
    <3>1. v - 1 \in Nat /\ v - 1 \notin enough
      BY <2>2, <1>3
    <3>2. Below(v) = UpTo(v - 1)
      BY <3>1, <1>3
    <3>3. ~(Cardinality(UpTo(v - 1)) >= k)
      BY <3>1
    <3>4. Cardinality(UpTo(v - 1)) \in Nat /\ k \in Nat
      BY <1>1
    <3>. HIDE DEF UpTo, Below
    <3>. QED
      BY <3>2, <3>3, <3>4
  <2>. QED
    BY <2>1, <2>2
<1>5. v \in values
  <2>1. SUFFICES ASSUME v \notin values PROVE FALSE
    OBVIOUS
  <2>2. UpTo(v) = Below(v)
    BY <2>1, <1>3
  <2>. QED
    BY <2>2, <1>1, <1>3, <1>4
<1>6. \E w \in values : Cardinality(Below(w)) < k /\ Cardinality(UpTo(w)) >= k
  BY <1>3, <1>4, <1>5
<1>7. /\ Nth(days, count, k) \in values
      /\ Cardinality(Below(Nth(days, count, k))) < k
      /\ Cardinality(UpTo(Nth(days, count, k))) >= k
  BY <1>6 DEF Nth
<1>. QED
  BY <1>7

\* As many counts lie at or below the half of m as at or above it.
LowDays(days, count, m) == {d \in days : 2 * count[d] <= m}
HighDays(days, count, m) == {d \in days : 2 * count[d] >= m}
Halves(days, count, m) ==
    /\ 2 * Cardinality(LowDays(days, count, m)) >= Cardinality(days)
    /\ 2 * Cardinality(HighDays(days, count, m)) >= Cardinality(days)

\* The doubled median halves the counts.
LEMMA MedianSplits ==
    ASSUME NEW days, IsFiniteSet(days), NEW count, \A d \in days : count[d] \in Nat
    PROVE  Halves(days, count, Median2(days, count))
<1>. DEFINE Below(v) == {d \in days : count[d] < v}
            UpTo(v) == {d \in days : count[d] <= v}
            From(v) == {d \in days : count[d] >= v}
            N == Cardinality(days)
            mid == N \div 2
            m == Median2(days, count)
            low == LowDays(days, count, m)
            high == HighDays(days, count, m)
<1>1. /\ N \in Nat /\ mid \in Nat /\ (N = 2 * mid \/ N = 2 * mid + 1)
      /\ IsFiniteSet(low) /\ Cardinality(low) \in Nat
      /\ IsFiniteSet(high) /\ Cardinality(high) \in Nat
  <2>1. IsFiniteSet(low) /\ IsFiniteSet(high) /\ N \in Nat
    BY FS_Subset, FS_CardinalityType DEF LowDays, HighDays
  <2>. QED
    BY <2>1, FS_CardinalityType
<1>2. ASSUME NEW v \in Nat
      PROVE  /\ IsFiniteSet(Below(v)) /\ Cardinality(Below(v)) \in Nat
             /\ IsFiniteSet(UpTo(v)) /\ Cardinality(UpTo(v)) \in Nat
             /\ IsFiniteSet(From(v)) /\ Cardinality(From(v)) \in Nat
             /\ Cardinality(From(v)) = N - Cardinality(Below(v))
  <2>1. /\ IsFiniteSet(Below(v)) /\ IsFiniteSet(UpTo(v)) /\ IsFiniteSet(From(v))
    BY FS_Subset
  <2>2. From(v) = days \ Below(v) /\ Below(v) \subseteq days
    OBVIOUS
  <2>3. Cardinality(days \ Below(v)) = N - Cardinality(Below(v))
    <3>1. days \cap Below(v) = Below(v)
      BY <2>2
    <3>2. Cardinality(days \ Below(v)) = N - Cardinality(days \cap Below(v))
      BY FS_Difference
    <3>. QED
      BY <3>1, <3>2
  <2>. QED
    BY <2>1, <2>2, <2>3, FS_CardinalityType
<1>. SUFFICES 2 * Cardinality(low) >= N /\ 2 * Cardinality(high) >= N
  BY DEF Halves
<1>. HIDE DEF N, mid, m, low, high, Below, UpTo, From
<1>3. CASE N = 0
  BY <1>1, <1>3
<1>4. CASE N # 0 /\ N = 2 * mid + 1
  <2>. DEFINE v == Nth(days, count, mid + 1)
  <2>1. mid + 1 \in 1..N
    BY <1>1, <1>4
  <2>2. v \in Nat /\ Cardinality(Below(v)) < mid + 1 /\ Cardinality(UpTo(v)) >= mid + 1
    BY <2>1, NthIsThere DEF N, Below, UpTo
  <2>3. m = 2 * v
    <3>1. N % 2 = 1
      BY <1>1, <1>4
    <3>. QED
      BY <3>1, <1>4 DEF m, Median2, N, mid
  <2>. HIDE DEF v
  <2>4. low = UpTo(v) /\ high = From(v)
    BY <2>2, <2>3 DEF low, high, LowDays, HighDays, UpTo, From
  <2>. QED
    BY <2>2, <2>4, <1>1, <1>2, <1>4
<1>5. CASE N # 0 /\ N = 2 * mid
  <2>. DEFINE a == Nth(days, count, mid)
              b == Nth(days, count, mid + 1)
  <2>1. mid \in 1..N /\ mid + 1 \in 1..N
    BY <1>1, <1>5
  <2>2. a \in Nat /\ Cardinality(Below(a)) < mid /\ Cardinality(UpTo(a)) >= mid
    BY <2>1, NthIsThere DEF N, Below, UpTo
  <2>3. b \in Nat /\ Cardinality(Below(b)) < mid + 1 /\ Cardinality(UpTo(b)) >= mid + 1
    BY <2>1, NthIsThere DEF N, Below, UpTo
  <2>4. m = a + b
    <3>1. N % 2 # 1
      BY <1>1, <1>5
    <3>. QED
      BY <3>1, <1>5 DEF m, Median2, N, mid
  <2>. HIDE DEF a, b
  <2>5. a <= b
    <3>1. SUFFICES ASSUME b < a PROVE FALSE
      BY <2>2, <2>3
    <3>2. UpTo(b) \subseteq Below(a)
      BY <3>1, <2>2, <2>3 DEF UpTo, Below
    <3>3. Cardinality(UpTo(b)) <= Cardinality(Below(a))
      BY <3>2, <2>2, <1>2, FS_Subset
    <3>. QED
      BY <3>3, <2>2, <2>3, <1>1, <1>2
  <2>6. UpTo(a) \subseteq low /\ From(b) \subseteq high
    BY <2>2, <2>3, <2>4, <2>5 DEF UpTo, From, low, high, LowDays, HighDays
  <2>7. Cardinality(UpTo(a)) <= Cardinality(low) /\ Cardinality(From(b)) <= Cardinality(high)
    BY <2>6, <1>1, FS_Subset
  <2>. QED
    BY <2>2, <2>3, <2>7, <1>1, <1>2, <1>5
<1>. QED
  BY <1>1, <1>3, <1>4, <1>5

\* An agent the bus names in a row of its own, not only in what refused callers claimed.
Charged(a) == \E r \in everWritten : r.agent = a /\ r.kind # "refusal"

\* The rows of the table, and what was ever written in one.
RowsAreWritten ==
    /\ wrote \in Nat /\ today \in 0..LastDay
    /\ IsFiniteSet(rows)
    /\ \A r \in rows :
         /\ r.id \in Nat /\ r.kind \in KindAll /\ r.agent \in Agent /\ r.day \in Day
         /\ [kind |-> r.kind, agent |-> r.agent, day |-> r.day] \in everWritten

\* What the panel, the stop list and the profile hold, between their reads too.
PanelIsCharged ==
    /\ panel.day \in Int
    /\ panel.blocked \in [Subject -> Nat] /\ panel.byPerson \in [Subject -> Nat]
    /\ \A a \in Agent : panel.blocked[a] # 0 \/ panel.byPerson[a] # 0 => Charged(a)
    /\ UnderstatementIsMarked

StopsAreCharged ==
    stops.listed # 0 => Charged(stops.agent)

ProfileIsCharged ==
    /\ profile.day \in 0..LastDay
    /\ profile.count \in [Day -> Nat]
    /\ \A d \in Day : profile.count[d] # 0 => Charged(profile.agent)
    /\ NoNormalForANewcomer
    /\ BaselineIsEveryDay

\* The inductive invariant of the statistics.
StatsInv == RowsAreWritten /\ PanelIsCharged /\ StopsAreCharged /\ ProfileIsCharged

\* Sizes of sets of rows; one that is not empty has a row.
LEMMA SomeRows ==
    ASSUME RowsAreWritten, NEW S \in SUBSET rows
    PROVE  /\ IsFiniteSet(S) /\ Cardinality(S) \in Nat
           /\ Cardinality(S) # 0 => \E r \in S : TRUE
<1>1. IsFiniteSet(S) /\ Cardinality(S) \in Nat
  BY FS_Subset, FS_CardinalityType DEF RowsAreWritten
<1>. QED
  BY <1>1, FS_EmptySet

\* A row that is filed under an agent, or halts it, is a charge against it.
LEMMA RowCharges ==
    ASSUME RowsAreWritten, NEW a \in Agent, NEW r \in rows,
           FiledUnder(r) = a \/ a \in Halts(r)
    PROVE  Charged(a)
<1>. DEFINE w == [kind |-> r.kind, agent |-> r.agent, day |-> r.day]
<1>1. w \in everWritten /\ w.agent = r.agent /\ w.kind = r.kind
  BY DEF RowsAreWritten
<1>2. a \notin {CallerKey, "console"}
  BY StatsAssumption
<1>3. r.agent = a /\ r.kind # "refusal"
  BY <1>2 DEF FiledUnder, Halts
<1>. QED
  BY <1>1, <1>3 DEF Charged

\* The panel's two reads.
LEMMA CountsAreCharged ==
    ASSUME RowsAreWritten, NEW day \in Int
    PROVE  /\ CountsSince(day) \in [Subject -> Nat]
           /\ \A a \in Agent : CountsSince(day)[a] # 0 => Charged(a)
<1>. DEFINE S(s) == {r \in rows : InWindow(r, day) /\ FiledUnder(r) = s /\ IsStop(r)}
<1>1. \A s : /\ Cardinality(S(s)) \in Nat
             /\ Cardinality(S(s)) # 0 => \E r \in S(s) : TRUE
  BY SomeRows
<1>2. \A a \in Agent : Cardinality(S(a)) # 0 => Charged(a)
  <2>. SUFFICES ASSUME NEW a \in Agent, Cardinality(S(a)) # 0 PROVE Charged(a)
    OBVIOUS
  <2>1. PICK r \in S(a) : TRUE
    BY <1>1
  <2>. QED
    BY <2>1, RowCharges
<1>3. CountsSince(day) = [s \in Subject |-> Cardinality(S(s))]
  BY DEF CountsSince
<1>. HIDE DEF S
<1>. QED
  BY <1>1, <1>2, <1>3 DEF Subject

LEMMA DetailIsCharged ==
    ASSUME RowsAreWritten, NEW some \in SUBSET rows
    PROVE  /\ PersonIn(some) \in [Subject -> Nat] /\ HaltsIn(some) \in [Subject -> Nat]
           /\ \A a \in Agent : PersonIn(some)[a] # 0 \/ HaltsIn(some)[a] # 0 => Charged(a)
<1>. DEFINE S(s) == {r \in some : ByPerson(r) /\ FiledUnder(r) = s}
            H(s) == {r \in some : s \in Halts(r)}
<1>1. \A s : /\ S(s) \in SUBSET rows /\ H(s) \in SUBSET rows
             /\ Cardinality(S(s)) \in Nat /\ Cardinality(H(s)) \in Nat
             /\ Cardinality(S(s)) # 0 => \E r \in S(s) : TRUE
             /\ Cardinality(H(s)) # 0 => \E r \in H(s) : TRUE
  <2>1. \A s : S(s) \in SUBSET rows /\ H(s) \in SUBSET rows
    OBVIOUS
  <2>. HIDE DEF S, H
  <2>. QED
    BY <2>1, SomeRows
<1>2. ASSUME NEW a \in Agent, Cardinality(S(a)) # 0 \/ Cardinality(H(a)) # 0 PROVE Charged(a)
  <2>1. PICK r \in rows : r \in S(a) \/ r \in H(a)
    <3>. HIDE DEF S, H
    <3>. QED
      BY <1>1, <1>2
  <2>. QED
    BY <2>1, RowCharges
<1>3. /\ PersonIn(some) = [s \in Subject |-> Cardinality(S(s))]
      /\ HaltsIn(some) = [s \in Subject |-> Cardinality(H(s))]
  BY DEF PersonIn, HaltsIn
<1>. HIDE DEF S, H
<1>. QED
  BY <1>1, <1>2, <1>3 DEF Subject

\* The panel shown: nobody is charged with a claim, and a cut column is marked.
LEMMA ReadDetailKeeps ==
    ASSUME StatsInv, ReadDetail
    PROVE  PanelIsCharged'
<1>. DEFINE wanted == {r \in rows : InWindow(r, panel.day) /\ NeedsDetail(r)}
            read == NewestOf(wanted, DetailScan)
<1>1. /\ rows' = rows /\ everWritten' = everWritten
      /\ panel' = [panel EXCEPT
             !.phase = "shown",
             !.blocked = Plus(panel.blocked, HaltsIn(read)),
             !.byPerson = Plus(PersonIn(read), HaltsIn(read)),
             !.truncated = Truncated(Cardinality(read)),
             !.owedPerson = Plus(PersonIn(wanted), HaltsIn(wanted)),
             !.owedBlocked = Plus(panel.blocked, HaltsIn(wanted))]
  BY DEF ReadDetail
<1>2. RowsAreWritten /\ wanted \in SUBSET rows /\ read \in SUBSET rows
  BY DEF StatsInv, NewestOf
<1>3. Cardinality(read) < DetailScan => read = wanted
  <2>1. IsFiniteSet(wanted) /\ \A r \in wanted : r.id \in Nat
    BY <1>2, SomeRows DEF RowsAreWritten
  <2>2. DetailScan \in Nat
    BY StatsAssumption
  <2>. HIDE DEF wanted
  <2>. QED
    BY <2>1, <2>2, CutIsWhole
<1>4. Cardinality(read) \in Nat
  BY <1>2, SomeRows
<1>. HIDE DEF wanted, read
<1>5. /\ PersonIn(read) \in [Subject -> Nat] /\ HaltsIn(read) \in [Subject -> Nat]
      /\ \A a \in Agent : PersonIn(read)[a] # 0 \/ HaltsIn(read)[a] # 0 => Charged(a)
  BY <1>2, DetailIsCharged
<1>6. panel.blocked \in [Subject -> Nat] /\ \A a \in Agent : panel.blocked[a] # 0 => Charged(a)
  BY DEF StatsInv, PanelIsCharged
<1>7. \A f, g \in [Subject -> Nat] :
         /\ Plus(f, g) \in [Subject -> Nat]
         /\ \A a \in Agent : Plus(f, g)[a] # 0 => f[a] # 0 \/ g[a] # 0
  BY DEF Plus, Subject
<1>8. \A a : Charged(a)' = Charged(a)
  BY <1>1 DEF Charged
<1>9. UnderstatementIsMarked'
  <2>1. DetailScan \in Nat
    BY StatsAssumption
  <2>2. ~Truncated(Cardinality(read)) => read = wanted
    BY <2>1, <1>3, <1>4 DEF Truncated
  <2>3. /\ panel'.byPerson = Plus(PersonIn(read), HaltsIn(read))
        /\ panel'.owedPerson = Plus(PersonIn(wanted), HaltsIn(wanted))
        /\ panel'.truncated = Truncated(Cardinality(read))
    BY <1>1
  <2>. QED
    BY <2>2, <2>3 DEF UnderstatementIsMarked
<1>10. /\ panel'.day \in Int
       /\ panel'.blocked \in [Subject -> Nat] /\ panel'.byPerson \in [Subject -> Nat]
       /\ \A a \in Agent : panel'.blocked[a] # 0 \/ panel'.byPerson[a] # 0 => Charged(a)
  <2>1. /\ panel'.day = panel.day /\ panel'.blocked = Plus(panel.blocked, HaltsIn(read))
        /\ panel'.byPerson = Plus(PersonIn(read), HaltsIn(read))
    BY <1>1
  <2>2. panel.day \in Int
    BY DEF StatsInv, PanelIsCharged
  <2>. QED
    BY <2>1, <2>2, <1>5, <1>6, <1>7
<1>. QED
  BY <1>8, <1>9, <1>10 DEF PanelIsCharged

\* A day is a natural number that the producers' clocks have reached.
LEMMA DayIs ==
    /\ LastDay \in Nat /\ AheadDays \in Nat /\ Day \subseteq Nat
    /\ \A d \in Nat : d \in Day <=> d <= LastDay + AheadDays
BY StatsAssumption DEF Day

\* The last of an interval of days, and what is left without it.
LEMMA ButLastOfInterval ==
    ASSUME NEW a \in Nat, NEW b \in Nat, a <= b
    PROVE  Max(a..b) = b /\ ButLast(a..b) = a..(b - 1)
<1>1. b \in a..b /\ \A y \in a..b : b >= y
  OBVIOUS
<1>2. Max(a..b) \in a..b /\ \A y \in a..b : Max(a..b) >= y
  BY <1>1 DEF Max
<1>3. Max(a..b) = b
  BY <1>1, <1>2
<1>. QED
  BY <1>3 DEF ButLast

\* The complete days before the judged one.
LEMMA BaselineOfInterval ==
    ASSUME NEW a \in Nat, NEW b \in Nat, a + 2 <= b
    PROVE  /\ Cardinality(a..b) >= 2
           /\ ButLast(ButLast(a..b)) = a..(b - 2)
           /\ IsFiniteSet(a..(b - 2))
<1>1. Cardinality(a..b) = b - a + 1
  BY FS_Interval
<1>2. ButLast(a..b) = a..(b - 1)
  BY ButLastOfInterval
<1>3. b - 1 \in Nat /\ a <= b - 1 /\ (b - 1) - 1 = b - 2
  OBVIOUS
<1>. DEFINE c == b - 1
<1>4. c \in Nat /\ a <= c /\ c - 1 = b - 2 /\ a..c = a..(b - 1)
  BY <1>3
<1>. HIDE DEF c
<1>5. ButLast(a..c) = a..(c - 1)
  BY <1>4, ButLastOfInterval
<1>6. IsFiniteSet(a..(b - 2))
  <2>1. a \in Int /\ b - 2 \in Int
    OBVIOUS
  <2>. DEFINE e == b - 2
  <2>. HIDE DEF e
  <2>2. IsFiniteSet(a..e)
    BY <2>1, FS_Interval DEF e
  <2>. QED
    BY <2>2 DEF e
<1>. QED
  BY <1>1, <1>2, <1>4, <1>5, <1>6

\* No day is halved by anything.
LEMMA NoDays ==
    ASSUME NEW count, NEW m
    PROVE  Halves({}, count, m)
<1>1. LowDays({}, count, m) = {} /\ HighDays({}, count, m) = {}
  BY DEF LowDays, HighDays
<1>2. Cardinality({}) = 0
  BY FS_EmptySet
<1>. QED
  BY <1>1, <1>2 DEF Halves

\* What BaselineIsEveryDay says of a profile.
Rests(p) ==
    (\A d \in Day : d > p.day => p.count[d] = 0) =>
      Halves(p.start..(p.day - 2), p.count, p.median2)

\* What NoNormalForANewcomer says of a profile.
Earned(p) ==
    p.confidence = "normal" =>
      \E r \in everWritten : FiledUnder(r) = p.agent /\ p.day - r.day + 1 >= MinDays

LEMMA ProfileProperties ==
    /\ NoNormalForANewcomer <=> (profile.phase = "shown" => Earned(profile))
    /\ BaselineIsEveryDay <=> (profile.phase = "shown" => Rests(profile))
<1>1. NoNormalForANewcomer <=> (profile.phase = "shown" => Earned(profile))
  BY DEF NoNormalForANewcomer, Earned
<1>2. BaselineIsEveryDay <=> (profile.phase = "shown" => Rests(profile))
  BY Zenon DEF BaselineIsEveryDay, Rests, Halves, LowDays, HighDays
<1>. QED
  BY <1>1, <1>2

\* The profile shown: what it calls normal is, and its baseline is of every complete day.
LEMMA ProfileIsSound ==
    ASSUME RowsAreWritten, ProfileIsCharged, NEW first \in FirstDays(profile.agent)
    PROVE  LET q == Profile(profile, first)
           IN  /\ q.agent = profile.agent /\ q.day = profile.day /\ q.count = profile.count
               /\ Earned(q) /\ Rests(q)
<1>. DEFINE p == profile
            start == Start(first, p.day)
            filled == Filled(start, p.day, p.count)
            watched == Max({p.day - start + 1, 0})
            two == Cardinality(filled) >= 2
            q == Profile(profile, first)
<1>1. /\ q.agent = p.agent /\ q.day = p.day /\ q.count = p.count
      /\ q.start = start /\ q.held = watched
      /\ q.confidence = IF watched = 0 /\ \A d \in filled : p.count[d] = 0 THEN "no_data"
                        ELSE IF watched < MinDays THEN "too_new"
                        ELSE "normal"
      /\ q.median2 = IF two THEN Median2(ButLast(ButLast(filled)), p.count) ELSE 0
  BY DEF Profile
<1>2. PICK r \in rows : FiledUnder(r) = p.agent /\ r.day = first
  BY DEF FirstDays
<1>3. /\ p.day \in Nat /\ p.day \in 0..LastDay /\ first \in Nat
      /\ Window \in Nat /\ MinDays \in Nat \ {0} /\ p.count \in [Day -> Nat]
  <2>1. first \in Nat
    BY <1>2, DayIs DEF RowsAreWritten
  <2>2. Window \in Nat /\ MinDays \in Nat \ {0}
    BY StatsAssumption
  <2>3. p.day \in 0..LastDay /\ p.count \in [Day -> Nat]
    BY DEF ProfileIsCharged
  <2>4. p.day \in Nat
    BY <2>3, DayIs
  <2>. QED
    BY <2>1, <2>2, <2>3, <2>4
<1>4. start \in Nat /\ start >= first
  <2>. DEFINE w == p.day - Window + 1
  <2>1. w \in Int /\ first \in Nat
    BY <1>3
  <2>. HIDE DEF w
  <2>2. Max({first, w}) \in {first, w} /\ \A y \in {first, w} : Max({first, w}) >= y
    <3>1. \E x \in {first, w} : \A y \in {first, w} : x >= y
      BY <2>1
    <3>. QED
      BY <3>1 DEF Max
  <2>3. Max({first, w}) \in Int /\ Max({first, w}) >= first
    BY <2>1, <2>2
  <2>4. start = Max({first, w})
    BY DEF Start, w
  <2>. QED
    BY <2>1, <2>3, <2>4
<1>. HIDE DEF start
<1>5. watched \in Nat /\ (watched # 0 => watched = p.day - start + 1)
  <2>. DEFINE n == p.day - start + 1
  <2>1. n \in Int
    BY <1>3, <1>4
  <2>. HIDE DEF n
  <2>2. Max({n, 0}) \in {n, 0} /\ \A y \in {n, 0} : Max({n, 0}) >= y
    <3>1. \E x \in {n, 0} : \A y \in {n, 0} : x >= y
      BY <2>1
    <3>. QED
      BY <3>1 DEF Max
  <2>3. Max({n, 0}) \in Nat /\ (Max({n, 0}) # 0 => Max({n, 0}) = n)
    BY <2>1, <2>2
  <2>4. watched = Max({n, 0})
    BY DEF n
  <2>. QED
    BY <2>3, <2>4 DEF n
<1>. HIDE DEF watched, filled, two, q, p
<1>6. Earned(q)
  <2>1. SUFFICES ASSUME q.confidence = "normal"
                 PROVE  \E w \in everWritten : FiledUnder(w) = q.agent /\ q.day - w.day + 1 >= MinDays
    BY DEF Earned
  <2>2. watched >= MinDays /\ watched # 0
    BY <1>1, <1>3, <1>5, <2>1
  <2>3. p.day - first + 1 >= MinDays
    BY <2>2, <1>3, <1>4, <1>5
  <2>. DEFINE w == [kind |-> r.kind, agent |-> r.agent, day |-> r.day]
  <2>4. w \in everWritten /\ FiledUnder(w) = FiledUnder(r) /\ w.day = r.day
    BY DEF RowsAreWritten, FiledUnder
  <2>. QED
    BY <2>3, <2>4, <1>1, <1>2
<1>7. Rests(q)
  <2>1. SUFFICES ASSUME \A d \in Day : d > p.day => p.count[d] = 0
                 PROVE  Halves(start..(p.day - 2), p.count, q.median2)
    BY <1>1 DEF Rests
  <2>2. CASE p.day < start + 2
    <3>1. start..(p.day - 2) = {}
      BY <2>2, <1>3, <1>4
    <3>. QED
      BY <3>1, NoDays
  <2>3. CASE p.day >= start + 2
    <3>1. filled = start..p.day
      <4>1. filled = {d \in Day : d >= start /\ d <= p.day}
        <5>1. \A d \in Day : d \in Nat /\ p.count[d] \in Nat
          BY <1>3, DayIs
        <5>2. \A d \in Day : d > p.day => ~(p.count[d] > 0)
          BY <2>1, <5>1
        <5>3. \A d \in Day : d <= p.day \/ d > p.day
          BY <1>3, <5>1
        <5>4. \A d \in Day : (d <= p.day \/ p.count[d] > 0) <=> d <= p.day
          BY <5>2, <5>3
        <5>. QED
          BY <5>4 DEF filled, Filled
      <4>2. \A d \in start..p.day : d \in Day
        BY <1>3, <1>4, DayIs
      <4>3. start..p.day \subseteq filled
        BY <4>1, <4>2, <1>3, <1>4
      <4>4. filled \subseteq start..p.day
        <5>. SUFFICES ASSUME NEW d \in filled PROVE d \in start..p.day
          OBVIOUS
        <5>1. d \in Nat /\ d >= start /\ d <= p.day
          BY <4>1, DayIs
        <5>. QED
          BY <5>1, <1>3, <1>4
      <4>. QED
        BY <4>3, <4>4
    <3>2. /\ Cardinality(start..p.day) >= 2
          /\ ButLast(ButLast(start..p.day)) = start..(p.day - 2)
          /\ IsFiniteSet(start..(p.day - 2))
      BY <2>3, <1>3, <1>4, BaselineOfInterval
    <3>3. q.median2 = Median2(start..(p.day - 2), p.count)
      BY <3>1, <3>2, <1>1 DEF two
    <3>4. \A d \in start..(p.day - 2) : p.count[d] \in Nat
      BY <1>3, <1>4, DayIs
    <3>. DEFINE days == start..(p.day - 2)
    <3>. HIDE DEF days
    <3>5. Halves(days, p.count, Median2(days, p.count))
      BY <3>2, <3>4, MedianSplits DEF days
    <3>. QED
      BY <3>3, <3>5 DEF days
  <2>. QED
    BY <2>2, <2>3, <1>3, <1>4
<1>. QED
  BY <1>1, <1>6, <1>7 DEF p, q

\* The profile's second read keeps the invariant.
LEMMA ReadFirstKeeps ==
    ASSUME StatsInv, ReadFirst
    PROVE  ProfileIsCharged'
<1>. DEFINE days == FirstDays(profile.agent)
<1>1. rows' = rows /\ everWritten' = everWritten
  BY DEF ReadFirst
<1>2. \A a : Charged(a)' = Charged(a)
  BY <1>1 DEF Charged
<1>3. RowsAreWritten /\ ProfileIsCharged
  BY DEF StatsInv
<1>4. NoNormalForANewcomer' <=> (profile'.phase = "shown" => Earned(profile'))
  BY <1>1 DEF NoNormalForANewcomer, Earned
<1>5. BaselineIsEveryDay' <=> (profile'.phase = "shown" => Rests(profile'))
  BY Zenon DEF BaselineIsEveryDay, Rests, Halves, LowDays, HighDays
<1>6. CASE days = {}
  <2>1. profile' = [NoProfile EXCEPT !.phase = "shown", !.agent = profile.agent]
    BY <1>6 DEF ReadFirst
  <2>2. /\ profile'.day = 0 /\ profile'.count = [d \in Day |-> 0] /\ profile'.start = 0
        /\ profile'.confidence = "no_data"
    BY <2>1 DEF NoProfile
  <2>3. profile'.day \in 0..LastDay
    BY <2>2, StatsAssumption
  <2>4. 0..(0 - 2) = {}
    OBVIOUS
  <2>5. Rests(profile')
    BY <2>2, <2>4, NoDays DEF Rests
  <2>. QED
    BY <2>2, <2>3, <2>5, <1>4, <1>5 DEF ProfileIsCharged, Earned
<1>7. CASE days # {}
  <2>1. Min(days) \in days
    <3>1. days \subseteq Nat
      BY <1>3, DayIs DEF FirstDays, RowsAreWritten
    <3>2. \E x \in days : \A y \in days : x <= y
      <4>. HIDE DEF days
      <4>1. PICK x \in days : \A y \in days : y >= x
        BY <3>1, <1>7, FirstOfNaturals
      <4>. QED
        BY <4>1, <3>1
    <3>. QED
      BY <3>2 DEF Min
  <2>2. profile' = Profile(profile, Min(days))
    BY <1>7 DEF ReadFirst
  <2>. DEFINE q == Profile(profile, Min(days))
  <2>3. /\ q.agent = profile.agent /\ q.day = profile.day /\ q.count = profile.count
        /\ Earned(q) /\ Rests(q)
    BY <2>1, <1>3, ProfileIsSound
  <2>. HIDE DEF q
  <2>4. profile' = q
    BY <2>2 DEF q
  <2>. QED
    BY <2>3, <2>4, <1>2, <1>3, <1>4, <1>5 DEF ProfileIsCharged
<1>. QED
  BY <1>6, <1>7

\* A stop list is of charges.
LEMMA ReadStopsKeeps ==
    ASSUME StatsInv, NEW a \in Agent, ReadStops(a)
    PROVE  StopsAreCharged'
<1>. DEFINE wanted == {r \in rows : IsStop(r) \/ r.kind = "block"}
            listed == StopsOf(NewestOf(wanted, StopsLimit), a)
<1>1. everWritten' = everWritten /\ stops'.agent = a /\ stops'.listed = Cardinality(listed)
  BY DEF ReadStops
<1>2. RowsAreWritten /\ listed \in SUBSET rows
  BY DEF StatsInv, StopsOf, NewestOf
<1>3. ASSUME Cardinality(listed) # 0 PROVE Charged(a)
  <2>1. PICK r \in listed : TRUE
    <3>. HIDE DEF listed
    <3>. QED
      BY <1>2, <1>3, SomeRows
  <2>2. r \in rows /\ (a \in Halts(r) \/ FiledUnder(r) = a)
    BY <2>1 DEF StopsOf, NewestOf
  <2>. QED
    BY <2>2, <1>2, RowCharges
<1>4. Charged(a)' <=> Charged(a)
  BY <1>1 DEF Charged
<1>. HIDE DEF listed
<1>. QED
  BY <1>1, <1>3, <1>4 DEF StopsAreCharged

\* A profile's days are of rows that charge its agent.
LEMMA ReadDaysKeeps ==
    ASSUME StatsInv, NEW a \in Agent, ReadDays(a)
    PROVE  ProfileIsCharged'
<1>. DEFINE Rows(d) == {r \in rows : FiledUnder(r) = a /\ r.day = d /\ InWindow(r, today)}
            count == [d \in Day |-> Cardinality(Rows(d))]
<1>1. /\ everWritten' = everWritten
      /\ profile' = [profile EXCEPT !.phase = "days", !.agent = a, !.day = today, !.count = count]
  BY DEF ReadDays
<1>2. RowsAreWritten
  BY DEF StatsInv
<1>3. \A d \in Day : /\ Cardinality(Rows(d)) \in Nat
                     /\ Cardinality(Rows(d)) # 0 => Charged(a)
  <2>. TAKE d \in Day
  <2>1. Rows(d) \in SUBSET rows
    OBVIOUS
  <2>2. /\ Cardinality(Rows(d)) \in Nat
        /\ Cardinality(Rows(d)) # 0 => \E r \in Rows(d) : TRUE
    <3>. HIDE DEF Rows
    <3>. QED
      BY <1>2, <2>1, SomeRows
  <2>3. \A r \in Rows(d) : Charged(a)
    BY <1>2, RowCharges
  <2>. QED
    BY <2>2, <2>3
<1>. HIDE DEF Rows
<1>4. count \in [Day -> Nat] /\ \A d \in Day : count[d] # 0 => Charged(a)
  BY <1>3
<1>. HIDE DEF count
<1>5. profile'.phase = "days" /\ profile'.agent = a /\ profile'.day = today /\ profile'.count = count
  BY <1>1
<1>6. today \in 0..LastDay
  BY <1>2 DEF RowsAreWritten
<1>7. Charged(a)' <=> Charged(a)
  BY <1>1 DEF Charged
<1>. QED
  BY <1>4, <1>5, <1>6, <1>7 DEF ProfileIsCharged, NoNormalForANewcomer, BaselineIsEveryDay

\* What is shown stays charged while rows are written.
LEMMA ChargesStay ==
    ASSUME everWritten \subseteq everWritten'
    PROVE  /\ \A a : Charged(a) => Charged(a)'
           /\ PanelIsCharged /\ panel' = panel => PanelIsCharged'
           /\ StopsAreCharged /\ stops' = stops => StopsAreCharged'
           /\ ProfileIsCharged /\ profile' = profile => ProfileIsCharged'
<1>1. \A a : Charged(a) => Charged(a)'
  BY DEF Charged
<1>2. PanelIsCharged /\ panel' = panel => PanelIsCharged'
  BY <1>1 DEF PanelIsCharged, UnderstatementIsMarked
<1>3. StopsAreCharged /\ stops' = stops => StopsAreCharged'
  BY <1>1 DEF StopsAreCharged
<1>4. ASSUME ProfileIsCharged, profile' = profile PROVE ProfileIsCharged'
  <2>1. NoNormalForANewcomer'
    BY <1>4 DEF ProfileIsCharged, NoNormalForANewcomer
  <2>2. BaselineIsEveryDay'
    BY <1>4, Zenon DEF ProfileIsCharged, BaselineIsEveryDay
  <2>3. /\ profile'.day \in 0..LastDay /\ profile'.count \in [Day -> Nat]
        /\ \A d \in Day : profile'.count[d] # 0 =>
              \E r \in everWritten' : r.agent = profile'.agent /\ r.kind # "refusal"
    BY <1>4 DEF ProfileIsCharged, Charged
  <2>. QED
    BY <2>1, <2>2, <2>3 DEF ProfileIsCharged, Charged
<1>. QED
  BY <1>1, <1>2, <1>3, <1>4

LEMMA StatsStarts == StatsInit => StatsInv
<1>. SUFFICES ASSUME StatsInit PROVE StatsInv
  OBVIOUS
<1>1. RowsAreWritten
  BY FS_EmptySet, StatsAssumption DEF StatsInit, RowsAreWritten
<1>2. PanelIsCharged
  <2>1. NoFigures \in [Subject -> Nat] /\ \A a \in Agent : NoFigures[a] = 0
    BY DEF NoFigures, Subject
  <2>2. panel.phase = "idle" /\ panel.day = 0 /\ panel.blocked = NoFigures /\ panel.byPerson = NoFigures
    BY DEF StatsInit, NoPanel
  <2>. QED
    BY <2>1, <2>2 DEF PanelIsCharged, UnderstatementIsMarked
<1>3. StopsAreCharged
  BY DEF StatsInit, StopsAreCharged, NoStops
<1>4. ProfileIsCharged
  <2>1. profile.phase = "idle" /\ profile.day = 0 /\ profile.count = [d \in Day |-> 0]
    BY DEF StatsInit, NoProfile
  <2>. QED
    BY <2>1, StatsAssumption DEF ProfileIsCharged, NoNormalForANewcomer, BaselineIsEveryDay
<1>. QED
  BY <1>1, <1>2, <1>3, <1>4 DEF StatsInv

LEMMA StatsKeeps == StatsInv /\ [StatsNext]_statsVars => StatsInv'
<1>. SUFFICES ASSUME StatsInv, [StatsNext]_statsVars PROVE StatsInv'
  OBVIOUS
<1>. USE DEF StatsInv
<1>1. ASSUME UNCHANGED <<rows, everWritten, wrote>>, today' \in 0..LastDay PROVE RowsAreWritten'
  BY <1>1 DEF RowsAreWritten
<1>2. today \in 0..LastDay
  BY DEF RowsAreWritten
<1>3. CASE ReadCounts
  <2>1. /\ UNCHANGED <<rows, everWritten, wrote, today, stops, profile>>
        /\ panel'.phase = "counted" /\ panel'.day = today
        /\ panel'.blocked = CountsSince(today) /\ panel'.byPerson = panel.byPerson
    <3>1. panel' = [panel EXCEPT !.phase = "counted", !.day = today, !.blocked = CountsSince(today)]
      BY <1>3 DEF ReadCounts
    <3>. QED
      BY <3>1, <1>3 DEF ReadCounts, PanelIsCharged
  <2>2. /\ CountsSince(today) \in [Subject -> Nat]
        /\ \A a \in Agent : CountsSince(today)[a] # 0 => Charged(a)
    BY <1>2, CountsAreCharged
  <2>3. \A a : Charged(a)' <=> Charged(a)
    BY <2>1 DEF Charged
  <2>4. PanelIsCharged'
    BY <1>2, <2>1, <2>2, <2>3 DEF PanelIsCharged, UnderstatementIsMarked
  <2>. QED
    BY <1>1, <1>2, <2>1, <2>4, ChargesStay
<1>4. CASE ReadDetail
  <2>1. UNCHANGED <<rows, everWritten, wrote, today, stops, profile>>
    BY <1>4 DEF ReadDetail
  <2>. QED
    BY <1>1, <1>2, <1>4, <2>1, ReadDetailKeeps, ChargesStay
<1>5. CASE ReadFirst
  <2>1. UNCHANGED <<rows, everWritten, wrote, today, stops, panel>>
    BY <1>5 DEF ReadFirst
  <2>. QED
    BY <1>1, <1>2, <1>5, <2>1, ReadFirstKeeps, ChargesStay
<1>6. ASSUME NEW a \in Agent, ReadStops(a) PROVE StatsInv'
  <2>1. UNCHANGED <<rows, everWritten, wrote, today, panel, profile>>
    BY <1>6 DEF ReadStops
  <2>. QED
    BY <1>1, <1>2, <1>6, <2>1, ReadStopsKeeps, ChargesStay
<1>7. ASSUME NEW a \in Agent, ReadDays(a) PROVE StatsInv'
  <2>1. UNCHANGED <<rows, everWritten, wrote, today, panel, stops>>
    BY <1>7 DEF ReadDays
  <2>. QED
    BY <1>1, <1>2, <1>7, <2>1, ReadDaysKeeps, ChargesStay
<1>8. CASE Prune
  <2>1. /\ UNCHANGED <<everWritten, wrote, today, panel, stops, profile>>
        /\ rows' \subseteq rows
    BY <1>8 DEF Prune
  <2>2. RowsAreWritten'
    BY <2>1, FS_Subset DEF RowsAreWritten
  <2>. QED
    BY <2>1, <2>2, ChargesStay
<1>9. CASE NextDay
  <2>1. UNCHANGED <<rows, everWritten, wrote, panel, stops, profile>> /\ today' = today + 1 /\ today < LastDay
    BY <1>9 DEF NextDay
  <2>2. today' \in 0..LastDay
    BY <2>1, <1>2, DayIs
  <2>. QED
    BY <1>1, <2>1, <2>2, ChargesStay
<1>10. ASSUME NEW what \in Kind, NEW a \in Agent, NEW ahead \in 0..AheadDays,
              WriteRow(what, a, today + ahead)
       PROVE  StatsInv'
  <2>. DEFINE r == [id |-> wrote + 1, kind |-> what, agent |-> a, day |-> today + ahead]
              w == [kind |-> what, agent |-> a, day |-> today + ahead]
  <2>1. /\ rows' = rows \cup {r} /\ everWritten' = everWritten \cup {w} /\ wrote' = wrote + 1
        /\ UNCHANGED <<today, panel, stops, profile>>
    BY <1>10 DEF WriteRow
  <2>2. today + ahead \in Day /\ what \in KindAll
    BY <1>2, DayIs, StatsAssumption
  <2>3. wrote \in Nat
    BY DEF RowsAreWritten
  <2>4. r.id \in Nat /\ r.kind \in KindAll /\ r.agent \in Agent /\ r.day \in Day
        /\ w = [kind |-> r.kind, agent |-> r.agent, day |-> r.day]
    BY <2>2, <2>3
  <2>. HIDE DEF r, w
  <2>5. IsFiniteSet(rows')
    BY <2>1, FS_AddElement DEF RowsAreWritten
  <2>6. RowsAreWritten'
    BY <2>1, <2>3, <2>4, <2>5 DEF RowsAreWritten
  <2>. QED
    BY <2>1, <2>6, ChargesStay
<1>11. CASE UNCHANGED statsVars
  <2>1. UNCHANGED <<rows, everWritten, wrote, today, panel, stops, profile>>
    BY <1>11 DEF statsVars
  <2>. QED
    BY <1>1, <1>2, <2>1, ChargesStay
<1>. QED
  BY <1>3, <1>4, <1>5, <1>6, <1>7, <1>8, <1>9, <1>10, <1>11 DEF StatsNext

\* What the invariant says of an agent that is named only in refusals: nothing is charged.
LEMMA StatsAreHonest == StatsInv => CountsAreHonest
<1>. SUFFICES ASSUME StatsInv PROVE CountsAreHonest
  OBVIOUS
<1>1. ClaimedIsClean
  <2>. SUFFICES ASSUME NEW a \in Agent, \A r \in everWritten : r.agent = a => r.kind = "refusal"
                PROVE  /\ panel.blocked[a] = 0 /\ panel.byPerson[a] = 0
                       /\ stops.agent = a => stops.listed = 0
                       /\ profile.agent = a => \A d \in Day : profile.count[d] = 0
                       /\ GraphCount(a) = 0
    BY DEF ClaimedIsClean
  <2>1. ~Charged(a)
    BY DEF Charged
  <2>2. {x \in rows : FiledUnder(x) = a} = {}
    BY <2>1, RowCharges DEF StatsInv
  <2>3. GraphCount(a) = 0
    <3>1. {<<r.kind, r.day>> : r \in {x \in rows : FiledUnder(x) = a}} = {}
      BY <2>2
    <3>. QED
      BY <3>1, FS_EmptySet DEF GraphCount
  <2>. QED
    BY <2>1, <2>3 DEF StatsInv, PanelIsCharged, StopsAreCharged, ProfileIsCharged
<1>. QED
  BY <1>1 DEF CountsAreHonest, StatsInv, PanelIsCharged, ProfileIsCharged

\* A figure of the statistics is of what happened or says that it is not, for every number of
\* rows and days, every window, retention and cap: the panel's counts and its detail column,
\* the stop list, the profile's verdict and its baseline (stats/mod.rs, stats/profile.rs).
THEOREM CountsAreHonestHolds == StatsSpec => []CountsAreHonest
<1>1. StatsSpec => []StatsInv
  BY StatsStarts, StatsKeeps, PTL DEF StatsSpec
<1>. QED
  BY <1>1, StatsAreHonest, PTL

-----------------------------------------------------------------------------
(***************************************************************************)
(* The reports read from a file others write.                              *)
(***************************************************************************)
\* How often a thing occurs in a file.
LEMMA Counted ==
    ASSUME NEW X, NEW s \in Seq(X), NEW S
    PROVE  /\ CountIn(s, S) \in Nat
           /\ CountIn(s, S) = 0 => \A i \in DOMAIN s : s[i] \notin S
<1>. DEFINE at == {i \in DOMAIN s : s[i] \in S}
<1>1. IsFiniteSet(DOMAIN s)
  BY FS_Interval
<1>2. IsFiniteSet(at)
  BY <1>1, FS_Subset
<1>3. CountIn(s, S) = Cardinality(at)
  BY DEF CountIn
<1>4. Cardinality(at) = 0 => at = {}
  <2>. HIDE DEF at
  <2>. QED
    BY <1>2, FS_EmptySet
<1>5. Cardinality(at) \in Nat
  <2>. HIDE DEF at
  <2>. QED
    BY <1>2, FS_CardinalityType
<1>. QED
  BY <1>3, <1>4, <1>5

\* It does not occur less often once something is appended.
LEMMA CountedAfter ==
    ASSUME NEW X, NEW s \in Seq(X), NEW e \in X, NEW S
    PROVE  CountIn(Append(s, e), S) >= CountIn(s, S)
<1>. DEFINE t == Append(s, e)
            before == {i \in DOMAIN s : s[i] \in S}
            after == {i \in DOMAIN t : t[i] \in S}
<1>1. before \subseteq after
  OBVIOUS
<1>2. IsFiniteSet(after)
  <2>1. t \in Seq(X)
    OBVIOUS
  <2>. HIDE DEF t
  <2>2. IsFiniteSet(DOMAIN t)
    BY <2>1, FS_Interval
  <2>. QED
    BY <2>2, FS_Subset
<1>3. CountIn(s, S) = Cardinality(before) /\ CountIn(t, S) = Cardinality(after)
  BY DEF CountIn
<1>. HIDE DEF before, after
<1>4. /\ Cardinality(before) <= Cardinality(after)
      /\ Cardinality(before) \in Nat /\ Cardinality(after) \in Nat
  BY <1>1, <1>2, FS_Subset, FS_CardinalityType
<1>. QED
  BY <1>3, <1>4

\* Two kinds that exclude one another and are all there is make up the file.
LEMMA CountedApart ==
    ASSUME NEW X, NEW s \in Seq(X), NEW S, NEW T, S \cap T = {}, X \subseteq S \cup T
    PROVE  CountIn(s, S) + CountIn(s, T) = Len(s)
<1>. DEFINE these == {i \in DOMAIN s : s[i] \in S}
            those == {i \in DOMAIN s : s[i] \in T}
<1>1. these \cup those = 1..Len(s) /\ these \cap those = {}
  OBVIOUS
<1>2. IsFiniteSet(these) /\ IsFiniteSet(those)
  <2>1. IsFiniteSet(DOMAIN s)
    BY FS_Interval
  <2>. QED
    BY <2>1, FS_Subset
<1>3. Cardinality(1..Len(s)) = Len(s)
  <2>. DEFINE n == Len(s)
  <2>1. n \in Nat
    OBVIOUS
  <2>. HIDE DEF n
  <2>2. Cardinality(1..n) = n
    BY <2>1, FS_Interval
  <2>. QED
    BY <2>2 DEF n
<1>4. CountIn(s, S) = Cardinality(these) /\ CountIn(s, T) = Cardinality(those)
  BY DEF CountIn
<1>. HIDE DEF these, those
<1>5. Cardinality(these \cup those) = Cardinality(these) + Cardinality(those) - Cardinality(these \cap those)
  BY <1>2, FS_Union
<1>6. Cardinality(these \cap those) = 0
  BY <1>1, FS_EmptySet
<1>7. Cardinality(these) \in Nat /\ Cardinality(those) \in Nat
  BY <1>2, FS_CardinalityType
<1>8. Cardinality(these) + Cardinality(those) = Cardinality(these \cup those)
  BY <1>5, <1>6, <1>7
<1>9. Cardinality(these \cup those) = Len(s)
  BY <1>1, <1>3
<1>. QED
  BY <1>4, <1>8, <1>9

\* The last so many of some places, when they are fewer than that: all of them.
LEMMA LastIsWhole ==
    ASSUME NEW places \in SUBSET Nat, IsFiniteSet(places), NEW n \in Nat,
           Cardinality(LastOf(places, n)) < n
    PROVE  LastOf(places, n) = places
<1>. DEFINE Left == places \ LastOf(places, n)
            after(i) == {k \in places : k > i}
<1>1. LastOf(places, n) \subseteq places
  BY DEF LastOf
<1>2. SUFFICES ASSUME Left # {} PROVE FALSE
  BY <1>1
<1>3. PICK i \in Left : \A m \in Left : m <= i
  <2>1. IsFiniteSet(Left) /\ Left \subseteq Nat
    BY FS_Subset
  <2>. HIDE DEF Left
  <2>. QED
    BY <1>2, <2>1, LastOfNaturals
<1>4. after(i) \subseteq LastOf(places, n)
  <2>. SUFFICES ASSUME NEW k \in places, k > i, k \notin LastOf(places, n) PROVE FALSE
    OBVIOUS
  <2>1. k <= i /\ k \in Nat /\ i \in Nat
    BY <1>3
  <2>. QED
    BY <2>1
<1>5. IsFiniteSet(LastOf(places, n))
  BY <1>1, FS_Subset
<1>6. /\ Cardinality(after(i)) <= Cardinality(LastOf(places, n))
      /\ Cardinality(after(i)) \in Nat /\ Cardinality(LastOf(places, n)) \in Nat
  <2>. HIDE DEF after
  <2>. QED
    BY <1>4, <1>5, FS_Subset, FS_CardinalityType
<1>7. Cardinality(after(i)) < n
  BY <1>6
<1>8. i \in LastOf(places, n)
  BY <1>3, <1>7 DEF LastOf
<1>. QED
  BY <1>3, <1>8

\* What a behaviour of one panel is made of, and what a missing file holds.
StoreShape ==
    /\ kind \in Report /\ file \in Seq(Entry(kind))
    /\ health \in {"ok", "missing", "unreadable", "odd", "prose"}
    /\ ended \in BOOLEAN /\ answers \in BOOLEAN
    /\ held \in [supported : BOOLEAN, finished : BOOLEAN, cases : Nat, unanswered : Nat,
                 asked : Nat, byModel : Nat, tables : BOOLEAN]
    /\ health = "missing" /\ kind # "inventory" => file = <<>>

\* What the earlier reads of a run returned: one read as finished was counted afterwards.
RunIsRead ==
    /\ held.finished => ended
    /\ step \in {"unanswered", "summary"} /\ held.finished =>
          held.cases = CountIn(file, {"scored"})
    /\ step = "summary" /\ held.finished /\ held.supported =>
          held.unanswered = CountIn(file, {"unanswered"})

\* The models' calls are among those the agents' query will find.
ModelsAreRead ==
    kind = "cost" /\ step = "agent" /\ held.tables =>
      /\ held.asked <= Len(file)
      /\ held.byModel <= CountIn(file, {"call"})
      /\ held.byModel = 0 => \A i \in 1..held.asked : file[i] # "call"

\* What a panel reads itself is there, absent or beyond reading.
OfItsPanel ==
    kind \in {"egress", "quality", "history"} => health \in {"ok", "missing", "unreadable"}

\* The inductive invariant of the reports.
ReportsInv ==
    /\ StoreShape /\ RunIsRead /\ ModelsAreRead /\ OfItsPanel
    /\ step # "done" => shows = NotShown
    /\ ReportsAreHonest

\* A panel that shows nothing yet is honest.
LEMMA NotShownIsHonest == shows = NotShown => ReportsAreHonest
BY DEF NotShown, ReportsAreHonest, FinishedIsFinal, QuietIsQuiet, HistoryIsTheRoutines

LEMMA StoreStarts == StoreInit => ReportsInv
<1>. SUFFICES ASSUME StoreInit PROVE ReportsInv
  OBVIOUS
<1>1. StoreShape
  <2>1. file \in Seq(Entry(kind)) /\ kind \in Report /\ ended = FALSE /\ health = "ok"
        /\ answers \in BOOLEAN
    BY DEF StoreInit
  <2>2. held \in [supported : BOOLEAN, finished : BOOLEAN, cases : Nat, unanswered : Nat,
                  asked : Nat, byModel : Nat, tables : BOOLEAN]
    BY DEF StoreInit, NothingHeld
  <2>. QED
    BY <2>1, <2>2 DEF StoreShape
<1>2. RunIsRead /\ ModelsAreRead
  BY DEF StoreInit, RunIsRead, ModelsAreRead, NothingHeld
<1>3. OfItsPanel
  BY DEF StoreInit, OfItsPanel
<1>. QED
  BY <1>1, <1>2, <1>3, NotShownIsHonest DEF StoreInit, ReportsInv

\* The egress panel.
LEMMA EgressKeeps == ASSUME ReportsInv, EgressRecent PROVE ReportsAreHonest'
<1>1. /\ kind = "egress" /\ UNCHANGED <<kind, file, health, ended, answers, held>>
      /\ shows' = IF health # "ok" THEN EgressUnmeasured
                ELSE [is |-> "panel", measured |-> TRUE, rows |-> EgressRows,
                      scanned |-> Scanned,
                      fetched |-> Cardinality(EgressRows \cap Places({"web_fetch"})),
                      blocked |-> Cardinality(EgressRows \cap Places({"web_blocked"}))]
  BY DEF EgressRecent
<1>2. shows'.is = "panel" /\ (shows'.measured => health = "ok" /\ shows'.rows = EgressRows)
  BY <1>1 DEF EgressUnmeasured
<1>3. ASSUME EgressRows = {}
      PROVE  \A i \in DOMAIN file : i > Len(file) - Scan => file[i] = "other"
  <2>. DEFINE some == Scanned \cap Places({"web_fetch", "web_blocked"})
  <2>1. file \in Seq(Entry("egress")) /\ Limit \in Nat \ {0}
    BY <1>1, ReportsAssumption DEF ReportsInv, StoreShape
  <2>2. some \subseteq DOMAIN file /\ DOMAIN file \subseteq Nat /\ IsFiniteSet(DOMAIN file)
    BY <2>1, FS_Interval DEF Scanned
  <2>3. IsFiniteSet(some) /\ some \in SUBSET Nat
    BY <2>2, FS_Subset
  <2>4. some = {}
    <3>1. LastOf(some, Limit) = {}
      BY <1>3 DEF EgressRows
    <3>2. Cardinality(LastOf(some, Limit)) < Limit
      <4>1. Cardinality({}) = 0 /\ 0 < Limit
        BY <2>1, FS_EmptySet
      <4>. HIDE DEF some
      <4>. QED
        BY <3>1, <4>1
    <3>. HIDE DEF some
    <3>. QED
      BY <3>1, <3>2, <2>1, <2>3, LastIsWhole
  <2>. SUFFICES ASSUME NEW i \in DOMAIN file, i > Len(file) - Scan PROVE file[i] = "other"
    OBVIOUS
  <2>5. i \in Scanned
    BY DEF Scanned
  <2>6. file[i] \in {"web_fetch", "web_blocked", "other"}
    BY <2>1 DEF Entry
  <2>. QED
    BY <2>4, <2>5, <2>6 DEF Places
<1>. QED
  BY <1>1, <1>2, <1>3 DEF ReportsAreHonest, FinishedIsFinal, QuietIsQuiet, HistoryIsTheRoutines

\* A run read as finished is shown as it ended.
LEMMA SummaryKeeps == ASSUME ReportsInv, RunSummary PROVE ReportsAreHonest'
<1>1. /\ kind = "quality" /\ step = "summary" /\ UNCHANGED <<kind, file, health, ended, answers, held>>
      /\ shows' = [is |-> "summary", run |-> held]
  BY DEF RunSummary
<1>2. file \in Seq({"scored", "unanswered"})
  BY <1>1 DEF ReportsInv, StoreShape, Entry
<1>3. CountIn(file, {"scored"}) + CountIn(file, {"unanswered"}) = Len(file)
  <2>1. {"scored"} \cap {"unanswered"} = {} /\ {"scored", "unanswered"} \subseteq {"scored"} \cup {"unanswered"}
    OBVIOUS
  <2>. QED
    BY <1>2, <2>1, CountedApart
<1>4. held.finished =>
        /\ held.cases = CountIn(file, {"scored"})
        /\ held.supported => held.unanswered = CountIn(file, {"unanswered"})
  BY <1>1 DEF ReportsInv, RunIsRead
<1>5. shows'.is = "summary" /\ shows'.run = held
  BY <1>1
<1>. QED
  BY <1>1, <1>3, <1>4, <1>5 DEF ReportsAreHonest, FinishedIsFinal, QuietIsQuiet, HistoryIsTheRoutines

\* A routine's history.
LEMMA HistoryKeeps == ASSUME ReportsInv, RoutinesHistory PROVE ReportsAreHonest'
<1>1. /\ kind = "history" /\ UNCHANGED <<kind, file, health, ended, answers, held>>
      /\ shows' = [is |-> "history", exists |-> health # "missing",
                 records |-> IF health = "ok" THEN Assemble ELSE {},
                 skipped |-> IF health = "ok" THEN CountIn(file, {"torn"}) ELSE 0]
  BY DEF RoutinesHistory
<1>2. file \in Seq({"mine", "theirs", "torn"})
  BY <1>1 DEF ReportsInv, StoreShape, Entry
<1>3. CountIn(file, {"mine", "theirs"}) + CountIn(file, {"torn"}) = Len(file)
  <2>1. /\ {"mine", "theirs"} \cap {"torn"} = {}
        /\ {"mine", "theirs", "torn"} \subseteq {"mine", "theirs"} \cup {"torn"}
    OBVIOUS
  <2>. QED
    BY <1>2, <2>1, CountedApart
<1>4. ASSUME Cardinality(Assemble) < Limit, NEW i \in DOMAIN file, file[i] = "mine"
      PROVE  i \in Assemble
  <2>. DEFINE mine == Parsed \cap Places({"mine"})
  <2>1. mine \subseteq DOMAIN file /\ DOMAIN file \subseteq Nat /\ IsFiniteSet(DOMAIN file)
    BY <1>2, FS_Interval DEF Places
  <2>2. IsFiniteSet(mine) /\ mine \in SUBSET Nat /\ Limit \in Nat
    BY <2>1, FS_Subset, ReportsAssumption
  <2>3. i \in mine
    BY <1>4 DEF Parsed, Places
  <2>. HIDE DEF mine
  <2>4. Assemble = LastOf(mine, Limit)
    BY DEF Assemble, mine
  <2>. QED
    BY <2>2, <2>3, <2>4, <1>4, LastIsWhole
<1>5. \A i \in Assemble : file[i] = "mine"
  BY DEF Assemble, LastOf, Places
<1>6. /\ shows'.is = "history" /\ (shows'.exists <=> health # "missing")
      /\ health = "ok" => shows'.records = Assemble /\ shows'.skipped = CountIn(file, {"torn"})
      /\ health # "ok" => shows'.records = {} /\ shows'.skipped = 0
  <2>1. shows'.exists <=> health # "missing"
    BY <1>1, Zenon
  <2>. QED
    BY <1>1, <2>1
<1>7. health \in {"ok", "missing", "unreadable", "odd", "prose"}
  BY DEF ReportsInv, StoreShape
<1>8. health \in {"ok", "missing", "unreadable"}
  BY <1>1 DEF ReportsInv, OfItsPanel
<1>9. ASSUME health = "missing"
      PROVE  file = <<>> /\ CountIn(file, {"mine", "theirs"}) + 0 = Len(file)
  <2>1. file = <<>>
    BY <1>1, <1>9 DEF ReportsInv, StoreShape
  <2>2. CountIn(file, {"mine", "theirs"}) \in Nat /\ CountIn(file, {"torn"}) \in Nat /\ Len(file) = 0
    BY <1>2, <2>1, Counted
  <2>. QED
    BY <1>3, <2>1, <2>2
<1>10. HistoryIsTheRoutines'
  <2>1. CASE health = "ok"
    BY <1>1, <1>3, <1>4, <1>5, <1>6, <2>1 DEF HistoryIsTheRoutines
  <2>2. CASE health = "missing"
    BY <1>1, <1>6, <1>9, <2>2 DEF HistoryIsTheRoutines
  <2>3. CASE health = "unreadable"
    BY <1>1, <1>6, <2>3 DEF HistoryIsTheRoutines
  <2>. QED
    BY <1>8, <2>1, <2>2, <2>3
<1>. QED
  BY <1>6, <1>10 DEF ReportsAreHonest, FinishedIsFinal, QuietIsQuiet

\* The costs: what the second query finds includes what the first one found.
LEMMA CostsKeep == ASSUME ReportsInv, CostByAgent PROVE ReportsAreHonest'
<1>1. /\ kind = "cost" /\ step = "agent" /\ UNCHANGED <<kind, file, health, ended, answers, held>>
      /\ shows' = IF SqlFailed THEN [is |-> "error"]
                ELSE [is |-> "costs", byModel |-> held.byModel, byAgent |-> PerAgent,
                      tables |-> held.tables /\ IsTable]
  BY DEF CostByAgent
<1>2. CASE SqlFailed
  <2>1. shows'.is = "error"
    BY <1>1, <1>2
  <2>. QED
    BY <2>1 DEF ReportsAreHonest, FinishedIsFinal, QuietIsQuiet, HistoryIsTheRoutines
<1>3. CASE ~SqlFailed
  <2>1. /\ shows'.is = "costs" /\ shows'.byModel = held.byModel
        /\ IsTable => shows'.byAgent.agent = CountIn(file, {"call"})
    BY <1>1, <1>3 DEF PerAgent, PerModel, InTable
  <2>4. shows'.tables => held.tables /\ IsTable
    BY <1>1, <1>3, Zenon
  <2>2. ASSUME held.tables
        PROVE  /\ held.byModel <= CountIn(file, {"call"})
               /\ held.byModel = 0 => \A i \in 1..held.asked : file[i] # "call"
    BY <1>1, <2>2 DEF ReportsInv, ModelsAreRead
  <2>3. held.byModel \in Nat /\ CountIn(file, {"call"}) \in Nat
    BY Counted DEF ReportsInv, StoreShape
  <2>. QED
    BY <1>1, <2>1, <2>2, <2>3, <2>4 DEF ReportsAreHonest, FinishedIsFinal, QuietIsQuiet, HistoryIsTheRoutines
<1>. QED
  BY <1>2, <1>3

\* Savings of nothing are of a trace that was read, or of one that is not there.
LEMMA SavingsKeep == ASSUME ReportsInv, Savings PROVE ReportsAreHonest'
<1>1. kind = "savings" /\ UNCHANGED <<kind, file, health, ended, answers, held>> /\ shows' = SavingsText
  BY DEF Savings
<1>2. CASE health \in {"unreadable", "odd", "prose"}
  <2>1. shows'.is = "error"
    BY <1>1, <1>2 DEF SavingsText
  <2>. QED
    BY <2>1 DEF ReportsAreHonest, FinishedIsFinal, QuietIsQuiet, HistoryIsTheRoutines
<1>3. CASE health = "missing"
  <2>1. file = <<>>
    BY <1>1, <1>3 DEF ReportsInv, StoreShape
  <2>2. CountIn(file, {"refused"}) = 0
    <3>1. {i \in DOMAIN file : file[i] \in {"refused"}} = {}
      BY <2>1
    <3>. QED
      BY <3>1, FS_EmptySet DEF CountIn
  <2>3. shows'.is = "savings" /\ shows'.found = FALSE /\ shows'.blocked = 0
    BY <1>1, <1>3 DEF SavingsText
  <2>. QED
    BY <1>1, <1>3, <2>2, <2>3 DEF ReportsAreHonest, FinishedIsFinal, QuietIsQuiet, HistoryIsTheRoutines
<1>4. CASE health = "ok"
  <2>1. shows'.is = "savings" /\ shows'.found = TRUE /\ shows'.blocked = CountIn(file, {"refused"})
    BY <1>1, <1>4 DEF SavingsText
  <2>. QED
    BY <1>1, <1>4, <2>1 DEF ReportsAreHonest, FinishedIsFinal, QuietIsQuiet, HistoryIsTheRoutines
<1>. QED
  BY <1>2, <1>3, <1>4 DEF ReportsInv, StoreShape

\* An inventory has every machine of the answer, and a public address for each that has one.
LEMMA InventoryKeeps ==
    ASSUME ReportsInv, NEW p \in Provider, ListServers(p)
    PROVE  ReportsAreHonest'
<1>1. /\ kind = "inventory" /\ UNCHANGED <<kind, file, health, ended, answers, held>>
      /\ shows' = IF ~RunCli \/ health = "prose" THEN [is |-> "error"]
                ELSE [is |-> "inventory", of |-> p, rows |-> Listed(p)]
  BY DEF ListServers
<1>2. CASE ~RunCli \/ health = "prose"
  <2>1. shows'.is = "error"
    BY <1>1, <1>2
  <2>. QED
    BY <2>1 DEF ReportsAreHonest, FinishedIsFinal, QuietIsQuiet, HistoryIsTheRoutines
<1>3. CASE RunCli /\ health # "prose"
  <2>1. shows'.is = "inventory" /\ shows'.of = p /\ shows'.rows = Listed(p)
    BY <1>1, <1>3
  <2>2. health \in {"ok", "odd"}
    BY <1>3 DEF RunCli, ReportsInv, StoreShape
  <2>. DEFINE answer == IF p = "hetzner" THEN FirstPage(file) ELSE file
  <2>3. ASSUME health # "odd"
        PROVE  DOMAIN Listed(p) = DOMAIN answer /\ CountIn(Listed(p), {"public"}) = CountIn(answer, {"public"})
    <3>1. Listed(p) = [i \in DOMAIN answer |-> PublicIp(p, answer[i])]
      BY <2>3 DEF Listed
    <3>. HIDE DEF answer
    <3>2. {i \in DOMAIN Listed(p) : Listed(p)[i] \in {"public"}}
            = {i \in DOMAIN answer : answer[i] \in {"public"}}
      BY <3>1 DEF PublicIp
    <3>. QED
      BY <3>1, <3>2 DEF CountIn
  <2>. QED
    BY <1>1, <2>1, <2>2, <2>3 DEF ReportsAreHonest, FinishedIsFinal, QuietIsQuiet, HistoryIsTheRoutines, FirstPage
<1>. QED
  BY <1>2, <1>3

\* Statements of a run, in their order.
LEMMA RunSummaryKeeps ==
    ASSUME ReportsInv, RunSummaryStep
    PROVE  StoreShape' /\ RunIsRead'
<1>1. /\ kind = "quality" /\ step \in {"run", "scores", "unanswered"}
      /\ held' = Query(step) /\ step' = QueryAfter(step)
      /\ UNCHANGED <<kind, file, health, ended, answers, shows>>
  BY DEF RunSummaryStep
<1>2. StoreShape /\ RunIsRead
  BY DEF ReportsInv
<1>3. CountIn(file, {"scored"}) \in Nat /\ CountIn(file, {"unanswered"}) \in Nat
  BY <1>2, Counted DEF StoreShape
<1>4. CASE step = "run"
  <2>1. held' = [held EXCEPT !.finished = ended] /\ step' = "scores"
    BY <1>1, <1>4 DEF Query, QueryAfter, SelectRun
  <2>2. StoreShape' /\ held'.finished = ended
    BY <1>1, <1>2, <2>1 DEF StoreShape
  <2>. QED
    BY <1>1, <2>1, <2>2 DEF RunIsRead
<1>5. CASE step = "scores"
  <2>1. held' = [held EXCEPT !.cases = CountIn(file, {"scored"})] /\ step' = "unanswered"
    BY <1>1, <1>5 DEF Query, QueryAfter, SelectScores
  <2>2. /\ StoreShape' /\ held'.finished = held.finished /\ held'.cases = CountIn(file, {"scored"})
    BY <1>1, <1>2, <1>3, <2>1 DEF StoreShape
  <2>. QED
    BY <1>1, <1>2, <2>1, <2>2 DEF RunIsRead
<1>6. CASE step = "unanswered"
  <2>. DEFINE n == IF held.supported THEN CountIn(file, {"unanswered"}) ELSE 0
  <2>1. held' = [held EXCEPT !.unanswered = n] /\ step' = "summary"
    BY <1>1, <1>6 DEF Query, QueryAfter, SelectUnanswered
  <2>2. n \in Nat /\ (held.supported => n = CountIn(file, {"unanswered"}))
    BY <1>3
  <2>. HIDE DEF n
  <2>3. /\ StoreShape' /\ held'.finished = held.finished /\ held'.cases = held.cases
        /\ held'.supported = held.supported /\ held'.unanswered = n
    BY <1>1, <1>2, <2>1, <2>2 DEF StoreShape
  <2>. QED
    BY <1>1, <1>2, <1>6, <2>1, <2>2, <2>3 DEF RunIsRead
<1>. QED
  BY <1>1, <1>4, <1>5, <1>6

\* What another program appends takes nothing from what was read.
LEMMA OthersWriteKeeps ==
    ASSUME ReportsInv, OthersWrite
    PROVE  StoreShape' /\ RunIsRead' /\ ModelsAreRead'
<1>1. /\ step # "done" /\ ~ended /\ (health = "missing" => kind = "inventory")
      /\ UNCHANGED <<kind, health, ended, answers, step, held, shows>>
  BY DEF OthersWrite
<1>2. PICK e \in Entry(kind) : file' = Append(file, e)
  BY DEF OthersWrite
<1>3. StoreShape /\ RunIsRead /\ ModelsAreRead
  BY DEF ReportsInv
<1>4. file \in Seq(Entry(kind)) /\ file' \in Seq(Entry(kind))
  BY <1>2, <1>3 DEF StoreShape
<1>5. StoreShape'
  BY <1>1, <1>3, <1>4 DEF StoreShape
<1>6. RunIsRead'
  BY <1>1, <1>3 DEF RunIsRead
<1>7. ModelsAreRead'
  <2>1. SUFFICES ASSUME kind = "cost", step = "agent", held.tables
                 PROVE  /\ held.asked <= Len(file')
                        /\ held.byModel <= CountIn(file', {"call"})
                        /\ held.byModel = 0 => \A i \in 1..held.asked : file'[i] # "call"
    BY <1>1 DEF ModelsAreRead
  <2>2. /\ held.asked <= Len(file) /\ held.byModel <= CountIn(file, {"call"})
        /\ held.byModel = 0 => \A i \in 1..held.asked : file[i] # "call"
        /\ held.asked \in Nat /\ held.byModel \in Nat
    BY <1>3, <2>1 DEF ModelsAreRead, StoreShape
  <2>3. /\ CountIn(file', {"call"}) >= CountIn(file, {"call"})
        /\ CountIn(file', {"call"}) \in Nat /\ CountIn(file, {"call"}) \in Nat
    BY <1>2, <1>4, Counted, CountedAfter
  <2>4. Len(file') = Len(file) + 1 /\ Len(file) \in Nat /\ \A i \in 1..Len(file) : file'[i] = file[i]
    BY <1>2, <1>4
  <2>5. \A i \in 1..held.asked : i \in 1..Len(file)
    BY <2>2, <2>4
  <2>6. held.asked <= Len(file') /\ held.byModel <= CountIn(file', {"call"})
    BY <2>2, <2>3, <2>4
  <2>7. held.byModel = 0 => \A i \in 1..held.asked : file'[i] # "call"
    BY <2>2, <2>4, <2>5
  <2>. QED
    BY <2>6, <2>7
<1>. QED
  BY <1>5, <1>6, <1>7

\* The first of the two cost queries.
LEMMA CostByModelKeeps ==
    ASSUME ReportsInv, CostByModel
    PROVE  ReportsInv'
<1>1. kind = "cost" /\ step = "start" /\ UNCHANGED <<kind, file, health, ended, answers>>
  BY DEF CostByModel
<1>2. StoreShape /\ RunIsRead /\ shows = NotShown /\ OfItsPanel'
  BY <1>1 DEF ReportsInv, OfItsPanel
<1>3. CASE SqlFailed
  <2>1. shows'.is = "error" /\ step' = "done" /\ held' = held
    BY <1>3 DEF CostByModel
  <2>2. ReportsAreHonest'
    BY <2>1 DEF ReportsAreHonest, FinishedIsFinal, QuietIsQuiet, HistoryIsTheRoutines
  <2>3. StoreShape' /\ RunIsRead' /\ ModelsAreRead'
    BY <1>1, <1>2, <2>1 DEF StoreShape, RunIsRead, ModelsAreRead
  <2>. QED
    BY <1>2, <2>1, <2>2, <2>3 DEF ReportsInv
<1>4. CASE ~SqlFailed
  <2>. DEFINE now == IsTable
  <2>1. /\ held' = [held EXCEPT !.asked = Len(file), !.byModel = PerModel, !.tables = now]
        /\ step' = "agent" /\ shows' = NotShown
    BY <1>2, <1>4 DEF CostByModel
  <2>6. now \in BOOLEAN /\ (now => PerModel = CountIn(file, {"call"}))
    BY DEF IsTable, PerModel, InTable
  <2>2. /\ Len(file) \in Nat /\ CountIn(file, {"call"}) \in Nat
        /\ CountIn(file, {"call"}) = 0 => \A i \in 1..Len(file) : file[i] # "call"
    <3>1. file \in Seq(Entry(kind))
      BY <1>2 DEF StoreShape
    <3>2. /\ CountIn(file, {"call"}) \in Nat
          /\ CountIn(file, {"call"}) = 0 => \A i \in DOMAIN file : file[i] \notin {"call"}
      BY <3>1, Counted
    <3>. QED
      BY <3>1, <3>2
  <2>7. PerModel \in Nat
    BY <2>2 DEF PerModel, InTable
  <2>. HIDE DEF now
  <2>3. /\ StoreShape' /\ held'.asked = Len(file) /\ held'.byModel = PerModel
        /\ held'.finished = held.finished
        /\ held'.tables = now
    BY <1>1, <1>2, <2>1, <2>2, <2>6, <2>7 DEF StoreShape
  <2>8. held'.tables <=> now
    BY <2>3, Zenon
  <2>4. RunIsRead' /\ ModelsAreRead'
    <3>1. RunIsRead'
      BY <1>1, <1>2, <2>1, <2>3 DEF RunIsRead
    <3>. QED
      BY <1>1, <2>1, <2>2, <2>3, <2>6, <2>8, <3>1 DEF ModelsAreRead
  <2>5. ReportsAreHonest'
    <3>1. shows'.is = "nothing"
      BY <2>1 DEF NotShown
    <3>. QED
      BY <3>1 DEF ReportsAreHonest, FinishedIsFinal, QuietIsQuiet, HistoryIsTheRoutines
  <2>. QED
    BY <1>2, <2>1, <2>3, <2>4, <2>5 DEF ReportsInv
<1>. QED
  BY <1>3, <1>4

LEMMA StoreKeeps == ReportsInv /\ [StoreNext]_storeVars => ReportsInv'
<1>. SUFFICES ASSUME ReportsInv, [StoreNext]_storeVars PROVE ReportsInv'
  OBVIOUS
<1>1. StoreShape /\ RunIsRead /\ ModelsAreRead /\ (step # "done" => shows = NotShown)
  BY DEF ReportsInv
\* The panel is chosen once, and its file turns only into what that panel may read.
<1>17. OfItsPanel'
  <2>1. OfItsPanel
    BY DEF ReportsInv
  <2>2. CASE FileTurns
    BY <2>2 DEF FileTurns, OfItsPanel
  <2>3. CASE UNCHANGED <<kind, health>>
    BY <2>1, <2>3 DEF OfItsPanel
  <2>. QED
    BY <2>2, <2>3 DEF StoreNext, storeVars, EgressRecent, QualityOpen, RunSummaryStep, SelectFails,
          RunSummary, RoutinesHistory, CostByModel, CostByAgent, Savings, ListServers, OthersWrite,
          EvalEnds
\* A panel that is shown is the end of the behaviour's reads.
<1>2. ASSUME UNCHANGED <<kind, file, health, ended, answers, held>>, step' = "done", ReportsAreHonest'
      PROVE  ReportsInv'
  <2>1. StoreShape' /\ RunIsRead' /\ ModelsAreRead'
    BY <1>1, <1>2 DEF StoreShape, RunIsRead, ModelsAreRead
  <2>. QED
    BY <1>2, <1>17, <2>1 DEF ReportsInv
<1>3. ASSUME shows' = NotShown PROVE ReportsAreHonest'
  <2>1. shows'.is = "nothing"
    BY <1>3 DEF NotShown
  <2>. QED
    BY <2>1 DEF ReportsAreHonest, FinishedIsFinal, QuietIsQuiet, HistoryIsTheRoutines
<1>4. CASE EgressRecent
  BY <1>2, <1>4, EgressKeeps DEF EgressRecent
<1>5. CASE QualityOpen
  <2>1. kind = "quality" /\ step = "start" /\ shows = NotShown
        /\ UNCHANGED <<kind, file, health, ended, answers>>
    BY <1>1, <1>5 DEF QualityOpen
  <2>2. CASE health = "ok"
    <3>1. held' = [held EXCEPT !.supported = answers] /\ step' = "run" /\ shows' = NotShown
      BY <1>5, <2>1, <2>2 DEF QualityOpen
    <3>2. answers \in BOOLEAN
      BY <1>1 DEF StoreShape
    <3>3. StoreShape' /\ held'.finished = held.finished
      BY <1>1, <2>1, <3>1, <3>2 DEF StoreShape
    <3>4. RunIsRead' /\ ModelsAreRead'
      BY <1>1, <2>1, <3>1, <3>3 DEF RunIsRead, ModelsAreRead
    <3>. QED
      BY <1>3, <1>17, <3>1, <3>3, <3>4 DEF ReportsInv
  <2>3. CASE health # "ok"
    <3>1. shows'.is = "error" /\ step' = "done" /\ held' = held
      BY <1>5, <2>3 DEF QualityOpen
    <3>2. ReportsAreHonest'
      BY <3>1 DEF ReportsAreHonest, FinishedIsFinal, QuietIsQuiet, HistoryIsTheRoutines
    <3>. QED
      BY <1>2, <2>1, <3>1, <3>2
  <2>. QED
    BY <2>2, <2>3
<1>6. CASE RunSummaryStep
  <2>1. /\ kind = "quality" /\ step \in {"run", "scores", "unanswered"} /\ shows' = NotShown
        /\ kind' = kind
    BY <1>1, <1>6 DEF RunSummaryStep
  <2>2. StoreShape' /\ RunIsRead' /\ ModelsAreRead'
    BY <1>6, <2>1, RunSummaryKeeps DEF ModelsAreRead
  <2>. QED
    BY <1>3, <1>17, <2>1, <2>2 DEF ReportsInv
<1>18. CASE SelectFails
  <2>1. /\ shows'.is = "error" /\ step' = "done"
        /\ UNCHANGED <<kind, file, health, ended, answers, held>>
    BY <1>18 DEF SelectFails
  <2>2. ReportsAreHonest'
    BY <2>1 DEF ReportsAreHonest, FinishedIsFinal, QuietIsQuiet, HistoryIsTheRoutines
  <2>. QED
    BY <1>2, <2>1, <2>2
<1>7. CASE RunSummary
  BY <1>2, <1>7, SummaryKeeps DEF RunSummary
<1>8. CASE RoutinesHistory
  BY <1>2, <1>8, HistoryKeeps DEF RoutinesHistory
<1>9. CASE CostByModel
  BY <1>9, CostByModelKeeps
<1>10. CASE CostByAgent
  BY <1>2, <1>10, CostsKeep DEF CostByAgent
<1>11. CASE Savings
  BY <1>2, <1>11, SavingsKeep DEF Savings
<1>12. ASSUME NEW p \in Provider, ListServers(p) PROVE ReportsInv'
  BY <1>2, <1>12, InventoryKeeps DEF ListServers
<1>13. CASE OthersWrite
  <2>1. shows' = NotShown /\ step' = step /\ step # "done"
    BY <1>1, <1>13 DEF OthersWrite
  <2>. QED
    BY <1>3, <1>13, <1>17, <2>1, OthersWriteKeeps DEF ReportsInv
<1>14. CASE EvalEnds
  <2>1. /\ kind = "quality" /\ step # "done" /\ ended' = TRUE /\ ~ended
        /\ UNCHANGED <<kind, file, health, answers, step, held, shows>>
    BY <1>14 DEF EvalEnds
  <2>2. StoreShape' /\ RunIsRead' /\ ModelsAreRead'
    BY <1>1, <2>1 DEF StoreShape, RunIsRead, ModelsAreRead
  <2>. QED
    BY <1>1, <1>3, <1>17, <2>1, <2>2 DEF ReportsInv
<1>15. CASE FileTurns
  <2>1. /\ step # "done" /\ UNCHANGED <<kind, file, ended, answers, step, held, shows>>
        /\ health' \in {"ok", "missing", "unreadable", "odd", "prose"}
        /\ health' = "missing" /\ kind # "inventory" => file = <<>>
    BY <1>15 DEF FileTurns
  <2>2. StoreShape' /\ RunIsRead' /\ ModelsAreRead'
    BY <1>1, <2>1 DEF StoreShape, RunIsRead, ModelsAreRead
  <2>. QED
    BY <1>1, <1>3, <1>17, <2>1, <2>2 DEF ReportsInv
<1>16. CASE UNCHANGED storeVars
  <2>1. UNCHANGED <<kind, file, health, ended, answers, step, held, shows>>
    BY <1>16 DEF storeVars
  <2>2. StoreShape' /\ RunIsRead' /\ ModelsAreRead'
    BY <1>1, <2>1 DEF StoreShape, RunIsRead, ModelsAreRead
  <2>3. ReportsAreHonest'
    BY <2>1, Zenon DEF ReportsInv, ReportsAreHonest, FinishedIsFinal, QuietIsQuiet, HistoryIsTheRoutines, Places
  <2>. QED
    BY <1>17, <2>1, <2>2, <2>3 DEF ReportsInv
<1>. QED
  BY <1>4, <1>5, <1>6, <1>7, <1>8, <1>9, <1>10, <1>11, <1>12, <1>13, <1>14, <1>15, <1>16, <1>18 DEF StoreNext

\* A report is final when it says so and of the routine it names, and hides nothing of a
\* source it could read and understand but by a cap, for every length of a file, limit, scan,
\* page size and order of what others write between its reads (verdryx.rs, egress/mod.rs,
\* routines/commands.rs, tokenfuse.rs, hetzner.rs, cloud_cli.rs).
THEOREM ReportsAreHonestHolds == StoreSpec => []ReportsAreHonest
<1>1. StoreSpec => []ReportsInv
  BY StoreStarts, StoreKeeps, PTL DEF StoreSpec
<1>2. ReportsInv => ReportsAreHonest
  BY DEF ReportsInv
<1>. QED
  BY <1>1, <1>2, PTL

(***************************************************************************)
(* The Cloud's stream.                                                     *)
(***************************************************************************)
Endings == {"lf", "crlf", "cr"}

\* Where the three lines of a frame begin, and the position after the end of the one at r.
LineStarts == {0, 1 + Len(EndOfLine), 2 + 2 * Len(EndOfLine)}
NextLine(r) == IF r = 2 + 2 * Len(EndOfLine) THEN r + Len(EndOfLine) ELSE r + 1 + Len(EndOfLine)

\* Of n tokens read, those a line may be seen to end with.
Known(n) == IF ending = "cr" /\ n > 0 THEN n - 1 ELSE n

\* The tokens read and not consumed: what lies in the decoder's buffer.
Sent(from, c, n) == [i \in 1..(n - c) |-> TokenAt(from, c + i)]

LEMMA EndOfLineIs ==
    ASSUME ending \in Endings
    PROVE  /\ ending = "lf" => EndOfLine = <<Lf>>
           /\ ending = "cr" => EndOfLine = <<Cr>>
           /\ ending = "crlf" => EndOfLine = <<Cr, Lf>>
           /\ Len(EndOfLine) = IF ending = "crlf" THEN 2 ELSE 1
           /\ FrameLength = IF ending = "crlf" THEN 8 ELSE 5
BY DEF Endings, EndOfLine, FrameLength

LEMMA Chars ==
    /\ Cr # Lf
    /\ \A n : \A c \in {"id", "comment", "data"} : Tok(c, n) # Cr /\ Tok(c, n) # Lf
    /\ \A n, c : Tok(c, n).c = c /\ Tok(c, n).n = n
BY DEF Cr, Lf, Tok

\* The frame of an event, token by token.
FirstToken(n) == Tok(IF Numbered(n) THEN "id" ELSE "comment", n)
LEMMA FrameIs ==
    ASSUME ending \in Endings, NEW n
    PROVE  /\ Frame(n)[1] = FirstToken(n)
           /\ Frame(n)[2 + Len(EndOfLine)] = Tok("data", n)
           /\ ending # "crlf" => \A j \in {2, 4, 5} : Frame(n)[j] = IF ending = "lf" THEN Lf ELSE Cr
           /\ ending = "crlf" => Frame(n)[2] = Cr /\ Frame(n)[3] = Lf /\ Frame(n)[5] = Cr
                               /\ Frame(n)[6] = Lf /\ Frame(n)[7] = Cr /\ Frame(n)[8] = Lf
<1>. DEFINE a == FirstToken(n)
            d == Tok("data", n)
<1>1. Frame(n) = <<a>> \o EndOfLine \o <<d>> \o EndOfLine \o EndOfLine
  BY DEF Frame, FirstToken
<1>. HIDE DEF a, d
<1>2. ASSUME NEW x, EndOfLine = <<x>>
      PROVE  Frame(n)[1] = a /\ Frame(n)[2] = x /\ Frame(n)[3] = d /\ Frame(n)[4] = x /\ Frame(n)[5] = x
  BY <1>1, <1>2
<1>3. ASSUME NEW x, NEW y, EndOfLine = <<x, y>>
      PROVE  /\ Frame(n)[1] = a /\ Frame(n)[2] = x /\ Frame(n)[3] = y /\ Frame(n)[4] = d
             /\ Frame(n)[5] = x /\ Frame(n)[6] = y /\ Frame(n)[7] = x /\ Frame(n)[8] = y
  BY <1>1, <1>3
<1>4. CASE ending = "crlf"
  <2>1. EndOfLine = <<Cr, Lf>> /\ Len(EndOfLine) = 2
    BY <1>4, EndOfLineIs
  <2>2. /\ Frame(n)[1] = a /\ Frame(n)[2] = Cr /\ Frame(n)[3] = Lf /\ Frame(n)[4] = d
        /\ Frame(n)[5] = Cr /\ Frame(n)[6] = Lf /\ Frame(n)[7] = Cr /\ Frame(n)[8] = Lf
    BY <2>1, <1>3
  <2>. QED
    BY <1>4, <2>1, <2>2 DEF a, d
<1>5. CASE ending # "crlf"
  <2>. DEFINE x == IF ending = "lf" THEN Lf ELSE Cr
  <2>1. EndOfLine = <<x>> /\ Len(EndOfLine) = 1
    BY <1>5, EndOfLineIs DEF Endings
  <2>2. /\ Frame(n)[1] = a /\ Frame(n)[2] = x /\ Frame(n)[3] = d /\ Frame(n)[4] = x
        /\ Frame(n)[5] = x
    <3>. HIDE DEF x
    <3>. QED
      BY <2>1, <1>2
  <2>. QED
    BY <1>5, <2>1, <2>2 DEF a, d
<1>. QED
  BY <1>4, <1>5

\* The token at position q of the frame f of a connection.
LEMMA TokenIs ==
    ASSUME ending \in Endings, NEW from \in Nat, NEW f \in Nat, NEW q \in Nat, q < FrameLength
    PROVE  TokenAt(from, FrameLength * f + q + 1) = Frame(from + f)[q + 1]
<1>. DEFINE i == FrameLength * f + q + 1
<1>1. FrameLength \in {5, 8}
  BY EndOfLineIs
<1>2. (i - 1) \div FrameLength = f /\ (i - 1) % FrameLength = q
  <2>1. CASE FrameLength = 5
    BY <2>1
  <2>2. CASE FrameLength = 8
    BY <2>2
  <2>. QED
    BY <1>1, <2>1, <2>2
<1>. QED
  BY <1>2 DEF TokenAt

\* No line feed comes from a server that ends lines with CR.
LEMMA NoLineFeed ==
    ASSUME ending = "cr", NEW from \in Nat, NEW i \in Nat \ {0}
    PROVE  TokenAt(from, i) # Lf
<1>1. ending \in Endings /\ FrameLength = 5
  BY EndOfLineIs DEF Endings
<1>2. (i - 1) % 5 \in 0..4
  OBVIOUS
<1>3. PICK m, j : j \in 1..5 /\ TokenAt(from, i) = Frame(m)[j]
  <2>1. TokenAt(from, i) = Frame(from + (i - 1) \div 5)[((i - 1) % 5) + 1]
    BY <1>1 DEF TokenAt
  <2>. DEFINE m == from + (i - 1) \div 5
              j == ((i - 1) % 5) + 1
  <2>2. j \in 1..5
    BY <1>2
  <2>. HIDE DEF m, j
  <2>. QED
    BY <2>1, <2>2 DEF m, j
<1>4. FirstToken(m) # Lf /\ Tok("data", m) # Lf /\ Cr # Lf
  BY Chars DEF FirstToken
<1>5. /\ Frame(m)[1] = FirstToken(m) /\ Frame(m)[3] = Tok("data", m)
      /\ Frame(m)[2] = Cr /\ Frame(m)[4] = Cr /\ Frame(m)[5] = Cr
  <2>1. Len(EndOfLine) = 1
    BY <1>1, EndOfLineIs
  <2>2. /\ Frame(m)[1] = FirstToken(m) /\ Frame(m)[2 + Len(EndOfLine)] = Tok("data", m)
        /\ \A k \in {2, 4, 5} : Frame(m)[k] = Cr
    BY <1>1, FrameIs
  <2>. QED
    BY <2>1, <2>2
<1>. QED
  BY <1>3, <1>4, <1>5

\* The length of the line that begins at r, without its end.
Width(r) == IF r = 2 + 2 * Len(EndOfLine) THEN 0 ELSE 1

\* Where a connection stands: n tokens read, those of f frames and r of the next consumed.
Stands(from, f, r, n) ==
    /\ ending \in Endings
    /\ from \in Nat \ {0} /\ f \in Nat /\ n \in Nat
    /\ r \in LineStarts
    /\ FrameLength * f + r <= n

\* The sizes of a frame and of the line that begins at r of it.
Sized(f, r) ==
    /\ FrameLength \in {5, 8} /\ FrameLength * f \in Nat /\ r \in Nat /\ Width(r) \in {0, 1}
    /\ Len(EndOfLine) \in {1, 2}
    /\ ending = "crlf" => FrameLength = 8 /\ Len(EndOfLine) = 2 /\ r \in {0, 3, 6}
    /\ ending # "crlf" => FrameLength = 5 /\ Len(EndOfLine) = 1 /\ r \in {0, 2, 4}
    /\ NextLine(r) = r + Width(r) + Len(EndOfLine)
    /\ NextLine(r) <= FrameLength /\ NextLine(r) \in Nat
    /\ r = 2 + 2 * Len(EndOfLine) => NextLine(r) = FrameLength /\ Width(r) = 0
    /\ r # 2 + 2 * Len(EndOfLine) => NextLine(r) \in LineStarts \ {0} /\ Width(r) = 1
    /\ Width(r) = 1 => r \in {0, 1 + Len(EndOfLine)}

LEMMA SizesAre ==
    ASSUME NEW from, NEW f, NEW r, NEW n, Stands(from, f, r, n)
    PROVE  Sized(f, r)
<1>1. f \in Nat /\ r \in LineStarts /\ ending \in Endings
  BY DEF Stands
<1>2. CASE ending = "crlf"
  <2>1. FrameLength = 8 /\ Len(EndOfLine) = 2
    BY <1>1, <1>2, EndOfLineIs
  <2>. QED
    BY <1>1, <1>2, <2>1 DEF Sized, LineStarts, NextLine, Width
<1>3. CASE ending # "crlf"
  <2>1. FrameLength = 5 /\ Len(EndOfLine) = 1
    BY <1>1, <1>3, EndOfLineIs
  <2>. QED
    BY <1>1, <1>3, <2>1 DEF Sized, LineStarts, NextLine, Width
<1>. QED
  BY <1>2, <1>3

\* The buffer begins with the line that is next, as much of it as came.
Begins(b, k, from, f, r) ==
    /\ k \in Nat /\ Len(b) = k /\ DOMAIN b = 1..k
    /\ k >= 1 /\ r = 0 => b[1] = FirstToken(from + f)
    /\ k >= 1 /\ r = 1 + Len(EndOfLine) => b[1] = Tok("data", from + f)
    /\ k >= Width(r) + 1 => b[Width(r) + 1] = IF ending = "lf" THEN Lf ELSE Cr
    /\ ending = "crlf" /\ k >= Width(r) + 2 => b[Width(r) + 2] = Lf
    /\ ending = "cr" => \A i \in 1..k : b[i] # Lf

LEMMA SentBegins ==
    ASSUME NEW from, NEW f, NEW r, NEW n, Stands(from, f, r, n),
           NEW b, b = Sent(from, FrameLength * f + r, n),
           NEW k, k = n - (FrameLength * f + r)
    PROVE  Begins(b, k, from, f, r)
<1>1. /\ FrameLength * f \in Nat /\ r \in Nat /\ FrameLength \in Nat
      /\ from \in Nat /\ f \in Nat /\ n \in Nat /\ ending \in Endings /\ FrameLength * f + r <= n
  <2>1. FrameLength * f \in Nat /\ r \in Nat /\ FrameLength \in Nat
    <3>1. Sized(f, r)
      BY SizesAre, Zenon
    <3>. QED
      BY <3>1 DEF Sized
  <2>. QED
    BY <2>1 DEF Stands
<1>2. k \in Nat /\ Len(b) = k /\ DOMAIN b = 1..k
  BY <1>1 DEF Sent
<1>3. ASSUME NEW i \in 1..k
      PROVE  b[i] = TokenAt(from, FrameLength * f + r + i)
  BY <1>1, <1>2 DEF Sent
<1>4. ASSUME NEW i \in 1..k, r + i <= FrameLength
      PROVE  b[i] = Frame(from + f)[r + i]
  <2>. DEFINE q == (r + i) - 1
  <2>1. q \in Nat /\ q < FrameLength
    BY <1>1, <1>2, <1>4
  <2>2. FrameLength * f + q + 1 = FrameLength * f + r + i /\ q + 1 = r + i
    BY <1>1, <1>2, <1>4
  <2>3. from \in Nat /\ f \in Nat /\ ending \in Endings
    BY <1>1
  <2>. HIDE DEF q
  <2>4. TokenAt(from, FrameLength * f + q + 1) = Frame(from + f)[q + 1]
    BY <2>1, <2>3, TokenIs, Zenon
  <2>. QED
    BY <2>2, <2>4, <1>3
<1>5. ending = "cr" => \A i \in 1..k : b[i] # Lf
  <2>1. ASSUME ending = "cr", NEW i \in 1..k
        PROVE  b[i] # Lf
    <3>1. FrameLength * f + r + i \in Nat \ {0}
      BY <1>1, <1>2
    <3>. QED
      BY <1>1, <1>3, <2>1, <3>1, NoLineFeed
  <2>. QED
    BY <2>1
<1>. DEFINE F == Frame(from + f)
<1>6. CASE ending = "crlf"
  <2>1. FrameLength = 8 /\ Len(EndOfLine) = 2 /\ r \in {0, 3, 6} /\ Width(r) = IF r = 6 THEN 0 ELSE 1
    <3>1. Sized(f, r)
      BY SizesAre, Zenon
    <3>2. FrameLength = 8 /\ Len(EndOfLine) = 2 /\ r \in {0, 3, 6}
      BY <1>6, <3>1 DEF Sized
    <3>. QED
      BY <3>2 DEF Width
  <2>2. /\ F[1] = FirstToken(from + f) /\ F[2] = Cr /\ F[3] = Lf /\ F[2 + Len(EndOfLine)] = Tok("data", from + f)
        /\ F[5] = Cr /\ F[6] = Lf /\ F[7] = Cr /\ F[8] = Lf
    BY <1>1, <1>6, FrameIs
  <2>. HIDE DEF F
  <2>3. \A i \in 1..k : r + i <= 8 => b[i] = F[r + i]
    BY <1>4, <2>1 DEF F
  <2>. QED
    BY <1>2, <1>5, <1>6, <2>1, <2>2, <2>3 DEF Begins
<1>7. CASE ending # "crlf"
  <2>1. FrameLength = 5 /\ Len(EndOfLine) = 1 /\ r \in {0, 2, 4} /\ Width(r) = IF r = 4 THEN 0 ELSE 1
    <3>1. Sized(f, r)
      BY SizesAre, Zenon
    <3>2. FrameLength = 5 /\ Len(EndOfLine) = 1 /\ r \in {0, 2, 4}
      BY <1>7, <3>1 DEF Sized
    <3>. QED
      BY <3>2 DEF Width
  <2>2. /\ F[1] = FirstToken(from + f) /\ F[2 + Len(EndOfLine)] = Tok("data", from + f)
        /\ \A j \in {2, 4, 5} : F[j] = IF ending = "lf" THEN Lf ELSE Cr
    BY <1>1, <1>7, FrameIs
  <2>. HIDE DEF F
  <2>3. \A i \in 1..k : r + i <= 5 => b[i] = F[r + i]
    BY <1>4, <2>1 DEF F
  <2>. QED
    BY <1>2, <1>5, <1>7, <2>1, <2>2, <2>3 DEF Begins
<1>. QED
  BY <1>6, <1>7

LEMMA LeastIs ==
    ASSUME NEW S \in SUBSET Nat, NEW m \in S, \A j \in S : m <= j
    PROVE  Min(S) = m
<1>1. \E i \in S : \A j \in S : i <= j
  OBVIOUS
<1>. DEFINE least == CHOOSE i \in S : \A j \in S : i <= j
<1>2. least \in S /\ \A j \in S : least <= j
  BY <1>1
<1>. HIDE DEF least
<1>3. least = m
  BY <1>2
<1>. QED
  BY <1>3 DEF least, Min

\* A line is found when its end is known, and not before.
LEMMA LineEndIs ==
    ASSUME NEW from, NEW f, NEW r, NEW n, Stands(from, f, r, n),
           NEW b, b = Sent(from, FrameLength * f + r, n)
    PROVE  LineEnd(b) = IF FrameLength * f + NextLine(r) <= Known(n)
                        THEN Found(Width(r), NextLine(r) - r) ELSE NotFound
<1>. DEFINE w == Width(r)
            k == n - (FrameLength * f + r)
            ends == {i \in DOMAIN b : b[i] \in {Cr, Lf}}
<1>1. /\ FrameLength * f \in Nat /\ r \in Nat /\ n \in Nat /\ ending \in Endings
      /\ Len(EndOfLine) = (IF ending = "crlf" THEN 2 ELSE 1) /\ NextLine(r) = r + w + Len(EndOfLine)
      /\ w \in {0, 1} /\ (w = 1 => r \in {0, 1 + Len(EndOfLine)})
  <2>1. n \in Nat /\ ending \in Endings
    BY DEF Stands
  <2>2. Sized(f, r)
    BY SizesAre, Zenon
  <2>. QED
    BY <2>1, <2>2 DEF Sized
<1>2. /\ k \in Nat /\ Len(b) = k /\ DOMAIN b = 1..k
      /\ k >= 1 /\ r = 0 => b[1] = FirstToken(from + f)
      /\ k >= 1 /\ r = 1 + Len(EndOfLine) => b[1] = Tok("data", from + f)
      /\ k >= w + 1 => b[w + 1] = IF ending = "lf" THEN Lf ELSE Cr
      /\ ending = "crlf" /\ k >= w + 2 => b[w + 2] = Lf
      /\ ending = "cr" => \A i \in 1..k : b[i] # Lf
  <2>1. Begins(b, k, from, f, r)
    BY SentBegins, Zenon
  <2>. QED
    BY <2>1 DEF Begins
<1>3. w = 1 /\ k >= 1 => b[1] \notin {Cr, Lf}
  BY <1>1, <1>2, Chars DEF FirstToken
<1>. HIDE DEF w
<1>4. CASE k <= w
  <2>1. ends = {}
    BY <1>1, <1>2, <1>3, <1>4
  <2>2. LineEnd(b) = NotFound
    BY <2>1 DEF LineEnd
  <2>3. ~(FrameLength * f + NextLine(r) <= Known(n))
    BY <1>1, <1>2, <1>4 DEF Known
  <2>. QED
    BY <2>2, <2>3
<1>5. CASE k > w
  <2>1. w + 1 \in ends /\ \A i \in ends : w + 1 <= i
    BY <1>1, <1>2, <1>3, <1>5
  <2>2. Min(ends) = w + 1 /\ ends # {}
    <3>1. ends \subseteq Nat
      BY <1>2
    <3>. HIDE DEF ends
    <3>. QED
      BY <2>1, <3>1, <1>1, LeastIs
  <2>3. LineEnd(b) = IF b[w + 1] = Lf THEN Found(w, w + 1)
                     ELSE IF w + 1 = k THEN NotFound
                     ELSE IF b[w + 2] = Lf THEN Found(w, w + 2)
                     ELSE Found(w, w + 1)
    <3>1. LineEnd(b) = IF b[w + 1] = Lf THEN Found((w + 1) - 1, w + 1)
                     ELSE IF w + 1 = Len(b) THEN NotFound
                     ELSE IF b[(w + 1) + 1] = Lf THEN Found((w + 1) - 1, (w + 1) + 1)
                     ELSE Found((w + 1) - 1, w + 1)
      BY <2>2 DEF LineEnd
    <3>2. (w + 1) - 1 = w /\ (w + 1) + 1 = w + 2 /\ Len(b) = k
      BY <1>1, <1>2
    <3>. QED
      BY <3>1, <3>2
  <2>4. CASE ending = "lf"
    <3>1. LineEnd(b) = Found(w, w + 1)
      BY <2>3, <2>4, <1>2, <1>5, <1>1
    <3>2. FrameLength * f + NextLine(r) <= Known(n) /\ NextLine(r) - r = w + 1
      BY <2>4, <1>1, <1>5 DEF Known
    <3>. QED
      BY <3>1, <3>2 DEF w
  <2>5. CASE ending = "crlf"
    <3>1. LineEnd(b) = IF w + 1 = k THEN NotFound ELSE Found(w, w + 2)
      BY <2>3, <2>5, <1>2, <1>5, <1>1, Chars
    <3>2. (FrameLength * f + NextLine(r) <= Known(n)) = (w + 1 # k) /\ NextLine(r) - r = w + 2
      BY <2>5, <1>1, <1>5 DEF Known
    <3>. QED
      BY <3>1, <3>2 DEF w
  <2>6. CASE ending = "cr"
    <3>1. LineEnd(b) = IF w + 1 = k THEN NotFound ELSE Found(w, w + 1)
      BY <2>3, <2>6, <1>2, <1>5, <1>1, Chars
    <3>2. (FrameLength * f + NextLine(r) <= Known(n)) = (w + 1 # k) /\ NextLine(r) - r = w + 1
      BY <2>6, <1>1, <1>5 DEF Known
    <3>. QED
      BY <3>1, <3>2 DEF w
  <2>. QED
    BY <2>4, <2>5, <2>6, <1>1 DEF Endings
<1>. QED
  BY <1>4, <1>5, <1>2, <1>1

\* The last id seen once the id line of event m is in.
IdSoFar(id, m) == id \in Nat /\ id <= m /\ (Numbered(m) => id = m)

\* The decoder of a connection that stands there holds the rest, and what the frame it is in
\* has told it.
Reads(dec, from, f, r, n) ==
    /\ Stands(from, f, r, n)
    /\ FrameLength * f + r <= Known(n)
    /\ dec = [buffer |-> Sent(from, FrameLength * f + r, n),
              data |-> IF r = 2 + 2 * Len(EndOfLine) THEN from + f ELSE NoId,
              lastId |-> dec.lastId]
    /\ r = 0 => dec.lastId \in Nat /\ dec.lastId < from + f
    /\ r # 0 => IdSoFar(dec.lastId, from + f)

\* The events of the frames f0 to f - 1 of a connection, each with the last id so far.
Handed(events, from, f0, f) ==
    /\ events \in Seq([data : Nat, id : Nat])
    /\ Len(events) = f - f0
    /\ \A j \in 1..(f - f0) :
          events[j].data = (from + f0 + j) - 1 /\ IdSoFar(events[j].id, (from + f0 + j) - 1)

\* The end of the line that begins at r of frame f is known.
IsDue(f, r, n) == FrameLength * f + NextLine(r) <= Known(n)

\* feed, part of the way.
Turned(st, from, f0, f, r, n) ==
    /\ st = [dec |-> st.dec, events |-> st.events]
    /\ f0 \in Nat /\ f0 <= f
    /\ Reads(st.dec, from, f, r, n)
    /\ Handed(st.events, from, f0, f)

LEMMA AsSequence ==
    ASSUME NEW T, NEW k \in Nat, NEW s \in [1..k -> T]
    PROVE  s \in Seq(T) /\ Len(s) = k
OBVIOUS

\* One sequence behind another.
Joins(all, s, u, T) ==
    /\ all \in Seq(T) /\ Len(all) = Len(s) + Len(u)
    /\ \A i \in 1..Len(s) : all[i] = s[i]
    /\ \A i \in 1..Len(u) : all[Len(s) + i] = u[i]

LEMMA JoinIs ==
    ASSUME NEW T, NEW s \in Seq(T), NEW u \in Seq(T)
    PROVE  Joins(s \o u, s, u, T)
<1>1. s \o u \in Seq(T) /\ Len(s \o u) = Len(s) + Len(u) /\ \A i \in 1..Len(s) : (s \o u)[i] = s[i]
  OBVIOUS
<1>2. ASSUME NEW i \in 1..Len(u)
      PROVE  (s \o u)[Len(s) + i] = u[i]
  <2>. DEFINE j == Len(s) + i
  <2>1. j \in 1..(Len(s) + Len(u)) /\ ~(j <= Len(s)) /\ j - Len(s) = i
    OBVIOUS
  <2>. HIDE DEF j
  <2>2. (s \o u)[j] = u[j - Len(s)]
    BY <2>1
  <2>. QED
    BY <2>1, <2>2 DEF j
<1>. QED
  BY <1>1, <1>2 DEF Joins

LEMMA SentIsSequence ==
    ASSUME NEW from, NEW c \in Nat, NEW n \in Nat, c <= n
    PROVE  /\ Sent(from, c, n) \in Seq({TokenAt(from, i) : i \in 1..n})
           /\ Len(Sent(from, c, n)) = n - c
           /\ \A i \in 1..(n - c) : Sent(from, c, n)[i] = TokenAt(from, c + i)
<1>1. n - c \in Nat /\ \A i \in 1..(n - c) : c + i \in 1..n
  OBVIOUS
<1>2. Sent(from, c, n) \in [1..(n - c) -> {TokenAt(from, i) : i \in 1..n}]
  BY <1>1 DEF Sent
<1>3. \A i \in 1..(n - c) : Sent(from, c, n)[i] = TokenAt(from, c + i)
  BY DEF Sent
<1>. QED
  BY <1>1, <1>2, <1>3, AsSequence, Zenon

LEMMA RestIsSent ==
    ASSUME NEW from, NEW c \in Nat, NEW n \in Nat, NEW m \in Nat, c + m <= n
    PROVE  SubSeq(Sent(from, c, n), m + 1, Len(Sent(from, c, n))) = Sent(from, c + m, n)
<1>. DEFINE T == {TokenAt(from, i) : i \in 1..n}
<1>1. PICK b, sent : b = Sent(from, c, n) /\ sent = Sent(from, c + m, n)
  OBVIOUS
<1>2. b \in Seq(T) /\ Len(b) = n - c /\ \A i \in 1..(n - c) : b[i] = TokenAt(from, c + i)
  <2>1. c <= n
    OBVIOUS
  <2>. QED
    BY <1>1, <2>1, SentIsSequence
<1>3. sent \in Seq(T) /\ Len(sent) = n - (c + m) /\ \A i \in 1..(n - (c + m)) : sent[i] = TokenAt(from, c + m + i)
  <2>1. c + m \in Nat
    OBVIOUS
  <2>. QED
    BY <1>1, <2>1, SentIsSequence
<1>. HIDE DEF T
<1>. DEFINE rest == SubSeq(b, m + 1, Len(b))
<1>4. rest \in Seq(T) /\ Len(rest) = n - (c + m) /\ \A i \in 1..(n - (c + m)) : rest[i] = b[m + i]
  <2>1. Len(b) \in Nat /\ m <= Len(b) /\ Len(b) - m = n - (c + m)
    BY <1>2
  <2>2. rest \in Seq(T) /\ Len(rest) = Len(b) - m /\ \A i \in 1..(Len(b) - m) : rest[i] = b[m + i]
    <3>1. b \in Seq(T) /\ m + 1 \in Nat
      BY <1>2
    <3>. QED
      BY <2>1, <3>1
  <2>. HIDE DEF rest
  <2>. QED
    BY <2>1, <2>2
<1>. HIDE DEF rest
<1>5. \A i \in 1..(n - (c + m)) : rest[i] = sent[i]
  BY <1>2, <1>3, <1>4
<1>6. rest = sent
  BY <1>3, <1>4, <1>5
<1>. QED
  BY <1>1, <1>2, <1>6 DEF rest

LEMMA TakeLineWaits ==
    ASSUME NEW st, NEW from, NEW f0, NEW f, NEW r, NEW n, Turned(st, from, f0, f, r, n), ~IsDue(f, r, n)
    PROVE  TakeLine(st) = st
<1>1. Stands(from, f, r, n) /\ st.dec.buffer = Sent(from, FrameLength * f + r, n)
  BY DEF Turned, Reads
<1>2. LineEnd(st.dec.buffer) = NotFound
  BY <1>1, LineEndIs, Zenon DEF IsDue
<1>. QED
  BY <1>2 DEF TakeLine, NotFound

\* A line that is due is the next one of its frame, and the blank one completes the event.
LEMMA TakeLineTakes ==
    ASSUME NEW st, NEW from, NEW f0, NEW f, NEW r, NEW n, Turned(st, from, f0, f, r, n), IsDue(f, r, n)
    PROVE  IF r = 2 + 2 * Len(EndOfLine)
           THEN Turned(TakeLine(st), from, f0, f + 1, 0, n)
           ELSE NextLine(r) > r /\ Turned(TakeLine(st), from, f0, f, NextLine(r), n)
<1>1. PICK c, b, w, m, k, d, rest :
         /\ c = FrameLength * f + r /\ b = Sent(from, c, n) /\ w = Width(r) /\ m = NextLine(r) - r
         /\ k = n - c /\ d = st.dec /\ rest = Sent(from, c + m, n)
  OBVIOUS
<1>2. /\ from \in Nat \ {0} /\ f \in Nat /\ n \in Nat /\ ending \in Endings
      /\ r \in LineStarts /\ FrameLength * f + r <= n /\ f0 \in Nat /\ f0 <= f
  BY DEF Turned, Reads, Stands
<1>3. /\ Stands(from, f, r, n)
      /\ d = [buffer |-> b, data |-> IF r = 2 + 2 * Len(EndOfLine) THEN from + f ELSE NoId, lastId |-> d.lastId]
      /\ st = [dec |-> d, events |-> st.events] /\ Handed(st.events, from, f0, f)
  BY <1>1, Zenon DEF Turned, Reads
<1>4. Sized(f, r)
  BY <1>3, SizesAre, Zenon
<1>5. /\ r \in Nat /\ w \in {0, 1} /\ Len(EndOfLine) \in {1, 2} /\ NextLine(r) = r + w + Len(EndOfLine)
      /\ r = 2 + 2 * Len(EndOfLine) => NextLine(r) = FrameLength /\ w = 0
      /\ r # 2 + 2 * Len(EndOfLine) => NextLine(r) \in LineStarts \ {0} /\ w = 1
      /\ FrameLength \in {5, 8} /\ FrameLength * f \in Nat
  BY <1>1, <1>4 DEF Sized
<1>6. /\ c \in Nat /\ m \in Nat /\ k \in Nat /\ c + m = FrameLength * f + NextLine(r) /\ c + m <= n
      /\ k >= 1 /\ k >= w /\ c + m <= Known(n)
  <2>1. PICK base, due : base = FrameLength * f /\ due = NextLine(r)
    OBVIOUS
  <2>2. base + due <= Known(n) /\ Known(n) <= n /\ Known(n) \in Nat
    BY <1>2, <2>1 DEF IsDue, Known
  <2>3. /\ base \in Nat /\ due = r + w + Len(EndOfLine) /\ r \in Nat /\ w \in {0, 1} /\ Len(EndOfLine) \in {1, 2}
        /\ c = base + r /\ m = due - r /\ k = n - c /\ n \in Nat
    BY <1>1, <1>2, <1>5, <2>1
  <2>4. PICK e, known : e = Len(EndOfLine) /\ known = Known(n)
    OBVIOUS
  <2>5. m = w + e /\ m \in Nat /\ m >= 1 /\ m >= w /\ c \in Nat /\ due \in Nat
    BY <2>3, <2>4
  <2>6. c + m = base + due
    BY <2>3, <2>5
  <2>7. c + m <= known /\ c + m <= n
    BY <2>2, <2>3, <2>4, <2>5, <2>6
  <2>8. k \in Nat /\ k >= 1 /\ k >= w
    BY <2>3, <2>5, <2>7
  <2>. QED
    BY <2>1, <2>4, <2>5, <2>6, <2>7, <2>8
<1>7. Len(b) = k /\ (r = 0 => b[1] = FirstToken(from + f)) /\ (r = 1 + Len(EndOfLine) => b[1] = Tok("data", from + f))
  <2>1. Begins(b, k, from, f, r)
    BY <1>1, <1>3, SentBegins, Zenon
  <2>. QED
    BY <1>6, <2>1 DEF Begins
<1>. DEFINE line == SubSeq(b, 1, w)
            taken == [st EXCEPT !.dec.buffer = rest]
<1>8. TakeLine(st) = ProcessLine(taken, line)
  <2>1. LineEnd(b) = Found(w, m)
    BY <1>1, <1>3, LineEndIs, Zenon DEF IsDue
  <2>2. SubSeq(b, m + 1, Len(b)) = rest
    <3>1. n \in Nat /\ c \in Nat /\ m \in Nat /\ c + m <= n
      BY <1>2, <1>6
    <3>2. b = Sent(from, c, n) /\ rest = Sent(from, c + m, n)
      BY <1>1
    <3>. QED
      BY <3>1, <3>2, RestIsSent
  <2>3. st.dec.buffer = b
    BY <1>1, <1>3
  <2>4. LineEnd(b).found /\ LineEnd(b).line = w /\ LineEnd(b).consumed = m
    BY <2>1 DEF Found
  <2>. QED
    BY <2>2, <2>3, <2>4, Zenon DEF TakeLine
<1>9. taken = [dec |-> [buffer |-> rest, data |-> d.data, lastId |-> d.lastId], events |-> st.events]
  BY <1>3
<1>10. (w = 0 => line = <<>>) /\ (w = 1 => line # <<>> /\ line[1] = b[1])
  <2>1. b \in Seq({TokenAt(from, i) : i \in 1..n})
    <3>1. n \in Nat /\ c \in Nat /\ c <= n
      BY <1>2, <1>6
    <3>2. b = Sent(from, c, n)
      BY <1>1
    <3>. QED
      BY <3>1, <3>2, SentIsSequence
  <2>2. w = 0 => line = <<>>
    BY <2>1
  <2>3. w = 1 => Len(line) = 1 /\ line[1] = b[1]
    BY <2>1, <1>6, <1>7
  <2>. HIDE DEF line
  <2>. QED
    BY <2>2, <2>3
<1>. HIDE DEF line, taken
<1>11. CASE r = 2 + 2 * Len(EndOfLine)
  <2>1. line = <<>> /\ d.data = from + f /\ d.data # NoId /\ IdSoFar(d.lastId, from + f)
    <3>1. r # 0 /\ w = 0
      BY <1>5, <1>11
    <3>2. IdSoFar(d.lastId, from + f)
      BY <1>1, <3>1 DEF Turned, Reads
    <3>3. d.data = from + f
      BY <1>3, <1>11
    <3>4. from + f # NoId
      BY <1>2 DEF NoId
    <3>. QED
      BY <1>10, <3>1, <3>2, <3>3, <3>4
  <2>. DEFINE e == [data |-> from + f, id |-> d.lastId]
  <2>2. TakeLine(st) = [dec |-> [buffer |-> rest, data |-> NoId, lastId |-> d.lastId],
                        events |-> Append(st.events, e)]
    <3>1. /\ taken.dec = [buffer |-> rest, data |-> from + f, lastId |-> d.lastId]
          /\ taken.dec.data = from + f /\ taken.dec.lastId = d.lastId /\ taken.events = st.events
      BY <1>9, <2>1
    <3>2. [taken.dec EXCEPT !.data = NoId] = [buffer |-> rest, data |-> NoId, lastId |-> d.lastId]
      BY <3>1
    <3>3. TakeLine(st) = [dec |-> [taken.dec EXCEPT !.data = NoId],
                          events |-> IF taken.dec.data = NoId THEN taken.events
                                     ELSE Append(taken.events, [data |-> taken.dec.data, id |-> taken.dec.lastId])]
      BY <1>8, <2>1, Zenon DEF ProcessLine
    <3>. QED
      BY <2>1, <3>1, <3>2, <3>3
  <2>3. FrameLength * (f + 1) + 0 = c + m
    <3>1. FrameLength * (f + 1) + 0 = FrameLength * f + FrameLength
      <4>1. CASE FrameLength = 5
        BY <1>2, <4>1
      <4>2. CASE FrameLength = 8
        BY <1>2, <4>2
      <4>. QED
        BY <1>5, <4>1, <4>2
    <3>. QED
      BY <1>5, <1>6, <1>11, <3>1
  <2>4. Stands(from, f + 1, 0, n)
    BY <2>3, <1>2, <1>6 DEF Stands, LineStarts
  <2>5. d.lastId \in Nat /\ d.lastId < from + (f + 1)
    BY <2>1, <1>2 DEF IdSoFar
  <2>6. Reads(TakeLine(st).dec, from, f + 1, 0, n)
    <3>1. 0 # 2 + 2 * Len(EndOfLine)
      BY <1>5
    <3>2. rest = Sent(from, FrameLength * (f + 1) + 0, n) /\ FrameLength * (f + 1) + 0 <= Known(n)
      BY <1>1, <1>6, <2>3
    <3>3. TakeLine(st).dec = [buffer |-> rest, data |-> NoId, lastId |-> d.lastId]
      BY <2>2
    <3>4. TakeLine(st).dec.lastId = d.lastId
      BY <3>3
    <3>. QED
      BY <2>4, <2>5, <3>1, <3>2, <3>3, <3>4 DEF Reads
  <2>7. Handed(TakeLine(st).events, from, f0, f + 1)
    <3>1. e \in [data : Nat, id : Nat] /\ e.data = from + f /\ IdSoFar(e.id, from + f)
      BY <2>1, <1>2 DEF IdSoFar
    <3>2. TakeLine(st).events = Append(st.events, e)
      BY <2>2
    <3>. HIDE DEF e
    <3>3. PICK more : more = Append(st.events, e)
      OBVIOUS
    <3>4. /\ more \in Seq([data : Nat, id : Nat])
          /\ Len(more) = (f + 1) - f0
          /\ \A j \in 1..(f - f0) : more[j] = st.events[j]
          /\ more[(f + 1) - f0] = e
      BY <3>1, <3>3, <1>2, <1>3 DEF Handed
    <3>5. ASSUME NEW j \in 1..((f + 1) - f0)
          PROVE  more[j].data = (from + f0 + j) - 1 /\ IdSoFar(more[j].id, (from + f0 + j) - 1)
      <4>1. CASE j = (f + 1) - f0
        <5>1. (from + f0 + j) - 1 = from + f
          BY <4>1, <1>2
        <5>. QED
          BY <5>1, <4>1, <3>1, <3>4
      <4>2. CASE j # (f + 1) - f0
        <5>1. j \in 1..(f - f0)
          BY <4>2, <1>2
        <5>. QED
          BY <5>1, <1>3, <3>4 DEF Handed
      <4>. QED
        BY <4>1, <4>2
    <3>. QED
      BY <3>2, <3>3, <3>4, <3>5 DEF Handed
  <2>8. TakeLine(st) = [dec |-> TakeLine(st).dec, events |-> TakeLine(st).events]
    BY <2>2
  <2>9. f0 <= f + 1
    BY <1>2
  <2>. QED
    BY <1>2, <1>11, <2>6, <2>7, <2>8, <2>9 DEF Turned
<1>12. CASE r # 2 + 2 * Len(EndOfLine)
  <2>1. w = 1 /\ line # <<>> /\ line[1] = b[1] /\ d.data = NoId
    BY <1>3, <1>5, <1>10, <1>12
  <2>2. r \in {0, 1 + Len(EndOfLine)} /\ NextLine(r) > r /\ NextLine(r) \in LineStarts \ {0}
    BY <1>2, <1>5, <1>12 DEF LineStarts
  <2>3. /\ rest = Sent(from, FrameLength * f + NextLine(r), n) /\ FrameLength * f + NextLine(r) <= Known(n)
        /\ Stands(from, f, NextLine(r), n)
    BY <1>1, <1>2, <1>6, <2>2 DEF Stands
  <2>4. taken.dec = [buffer |-> rest, data |-> NoId, lastId |-> d.lastId] /\ taken.events = st.events
    BY <1>9, <2>1
  <2>5. CASE r = 0
    <3>1. NextLine(r) # 2 + 2 * Len(EndOfLine)
      BY <1>5, <2>1, <2>5
    <3>2. d.lastId \in Nat /\ d.lastId < from + f
      BY <1>1, <2>5 DEF Turned, Reads
    <3>3. PICK id : id = IF Numbered(from + f) THEN from + f ELSE d.lastId
      OBVIOUS
    <3>4. TakeLine(st) = [dec |-> [buffer |-> rest, data |-> NoId, lastId |-> id], events |-> st.events]
      <4>1. b[1] = FirstToken(from + f)
        BY <1>7, <2>5
      <4>2. CASE Numbered(from + f)
        <5>1. line[1].c = "id" /\ line[1].n = from + f
          BY <2>1, <4>1, <4>2, Chars DEF FirstToken
        <5>2. TakeLine(st) = [taken EXCEPT !.dec.lastId = from + f]
          BY <5>1, <1>8, <2>1 DEF ProcessLine
        <5>. QED
          BY <5>2, <3>3, <4>2, <1>9, <2>1
      <4>3. CASE ~Numbered(from + f)
        <5>1. line[1].c = "comment"
          BY <2>1, <4>1, <4>3, Chars DEF FirstToken
        <5>2. TakeLine(st) = taken
          BY <5>1, <1>8, <2>1 DEF ProcessLine
        <5>. QED
          BY <5>2, <3>3, <4>3, <1>9, <2>1
      <4>. QED
        BY <4>2, <4>3
    <3>5. IdSoFar(id, from + f)
      BY <1>2, <3>2, <3>3 DEF IdSoFar
    <3>6. TakeLine(st).dec = [buffer |-> rest, data |-> NoId, lastId |-> id] /\ TakeLine(st).dec.lastId = id
          /\ TakeLine(st).events = st.events
      BY <3>4
    <3>7. Reads(TakeLine(st).dec, from, f, NextLine(r), n)
      BY <2>2, <2>3, <3>1, <3>5, <3>6 DEF Reads
    <3>8. TakeLine(st) = [dec |-> TakeLine(st).dec, events |-> TakeLine(st).events]
      BY <3>4
    <3>. QED
      BY <1>2, <1>3, <3>6, <3>7, <3>8, <2>2, <1>12 DEF Turned
  <2>6. CASE r = 1 + Len(EndOfLine)
    <3>1. NextLine(r) = 2 + 2 * Len(EndOfLine) /\ r # 0
      BY <1>5, <2>1, <2>6
    <3>2. IdSoFar(d.lastId, from + f)
      BY <1>1, <3>1 DEF Turned, Reads
    <3>3. TakeLine(st) = [dec |-> [buffer |-> rest, data |-> from + f, lastId |-> d.lastId], events |-> st.events]
      <4>1. line[1].c = "data" /\ line[1].n = from + f
        BY <1>7, <2>1, <2>6, Chars
      <4>2. TakeLine(st) = [taken EXCEPT !.dec.data = from + f]
        BY <4>1, <1>8, <2>1 DEF ProcessLine
      <4>. QED
        BY <4>2, <1>9
    <3>4. TakeLine(st).dec = [buffer |-> rest, data |-> from + f, lastId |-> d.lastId]
          /\ TakeLine(st).dec.lastId = d.lastId /\ TakeLine(st).events = st.events
      BY <3>3
    <3>5. Reads(TakeLine(st).dec, from, f, NextLine(r), n)
      BY <2>2, <2>3, <3>1, <3>2, <3>4 DEF Reads
    <3>6. TakeLine(st) = [dec |-> TakeLine(st).dec, events |-> TakeLine(st).events]
      BY <3>3
    <3>. QED
      BY <1>2, <1>3, <3>4, <3>5, <3>6, <2>2, <1>12 DEF Turned
  <2>. QED
    BY <2>2, <2>5, <2>6
<1>. QED
  BY <1>11, <1>12

LEMMA TakeLineAdvances ==
    ASSUME NEW st, NEW from, NEW f0, NEW f, NEW r, NEW n, Turned(st, from, f0, f, r, n), IsDue(f, r, n)
    PROVE  \E f1, r1 :
             /\ Turned(TakeLine(st), from, f0, f1, r1, n)
             /\ FrameLength * f1 + r1 \in Nat /\ FrameLength * f1 + r1 > FrameLength * f + r
<1>1. Stands(from, f, r, n) /\ f \in Nat
  BY DEF Turned, Reads, Stands
<1>2. Sized(f, r)
  BY <1>1, SizesAre, Zenon
<1>3. /\ FrameLength \in {5, 8} /\ FrameLength * f \in Nat /\ r \in Nat /\ NextLine(r) \in Nat
      /\ ending = "crlf" => FrameLength = 8 /\ r \in {0, 3, 6}
      /\ ending # "crlf" => FrameLength = 5 /\ r \in {0, 2, 4}
  BY <1>2 DEF Sized
<1>4. FrameLength * (f + 1) + 0 = FrameLength * f + FrameLength
  <2>1. CASE FrameLength = 5
    BY <1>1, <2>1
  <2>2. CASE FrameLength = 8
    BY <1>1, <2>2
  <2>. QED
    BY <1>3, <2>1, <2>2
<1>5. CASE r = 2 + 2 * Len(EndOfLine)
  <2>1. Turned(TakeLine(st), from, f0, f + 1, 0, n)
    BY <1>5, TakeLineTakes, Zenon
  <2>2. FrameLength * (f + 1) + 0 \in Nat /\ FrameLength * (f + 1) + 0 > FrameLength * f + r
    BY <1>3, <1>4
  <2>. QED
    BY <2>1, <2>2
<1>6. CASE r # 2 + 2 * Len(EndOfLine)
  <2>1. NextLine(r) > r /\ Turned(TakeLine(st), from, f0, f, NextLine(r), n)
    BY <1>6, TakeLineTakes, Zenon
  <2>2. FrameLength * f + NextLine(r) \in Nat /\ FrameLength * f + NextLine(r) > FrameLength * f + r
    BY <1>3, <2>1
  <2>. QED
    BY <2>1, <2>2
<1>. QED
  BY <1>5, <1>6

\* The next k tokens of a connection that has read n.
Chunk(from, n, k) == [i \in 1..k |-> TokenAt(from, n + i)]

\* What feed begins with.
Buffered(chunk) == [dec |-> [decoder EXCEPT !.buffer = @ \o chunk], events |-> <<>>]

\* The bytes that follow are put behind those that wait.
LEMMA ChunkIsBuffered ==
    ASSUME NEW from, NEW f, NEW r, NEW n, Reads(decoder, from, f, r, n), NEW k \in Nat
    PROVE  /\ Turned(Buffered(Chunk(from, n, k)), from, f, f, r, n + k)
           /\ Len(decoder.buffer \o Chunk(from, n, k)) = (n + k) - (FrameLength * f + r)
           /\ FrameLength * f + r \in Nat
<1>1. /\ Stands(from, f, r, n) /\ from \in Nat \ {0} /\ f \in Nat /\ n \in Nat /\ ending \in Endings
      /\ r \in LineStarts /\ FrameLength * f + r <= n /\ FrameLength * f + r <= Known(n)
  BY DEF Reads, Stands
<1>2. PICK c : c = FrameLength * f + r
  OBVIOUS
<1>0. PICK chunk : chunk = Chunk(from, n, k)
  OBVIOUS
<1>3. c \in Nat /\ c <= n /\ c <= n + k /\ n + k \in Nat
  <2>1. Sized(f, r)
    BY <1>1, SizesAre, Zenon
  <2>. QED
    BY <1>1, <1>2, <2>1 DEF Sized
<1>4. decoder = [buffer |-> Sent(from, c, n), data |-> decoder.data, lastId |-> decoder.lastId]
      /\ decoder.data = IF r = 2 + 2 * Len(EndOfLine) THEN from + f ELSE NoId
  BY <1>2 DEF Reads
<1>5. Sent(from, c, n) \o chunk = Sent(from, c, n + k) /\ Len(Sent(from, c, n + k)) = (n + k) - c
  <2>. DEFINE T == {TokenAt(from, i) : i \in 1..(n + k)}
  <2>1. PICK b, all : b = Sent(from, c, n) /\ all = Sent(from, c, n + k)
    OBVIOUS
  <2>2. /\ Len(b) = n - c /\ \A i \in 1..(n - c) : b[i] = TokenAt(from, c + i)
        /\ Len(all) = (n + k) - c /\ \A i \in 1..((n + k) - c) : all[i] = TokenAt(from, c + i)
        /\ all \in Seq(T)
    <3>1. n \in Nat /\ n + k \in Nat /\ c \in Nat /\ c <= n /\ c <= n + k
      BY <1>1, <1>3
    <3>2. /\ Len(b) = n - c /\ \A i \in 1..(n - c) : b[i] = TokenAt(from, c + i)
      BY <2>1, <3>1, SentIsSequence
    <3>3. PICK nk : nk = n + k
      OBVIOUS
    <3>4. /\ Len(all) = nk - c /\ \A i \in 1..(nk - c) : all[i] = TokenAt(from, c + i)
          /\ all \in Seq({TokenAt(from, i) : i \in 1..nk})
      BY <2>1, <3>1, <3>3, SentIsSequence
    <3>. QED
      BY <3>2, <3>3, <3>4
  <2>3. b \in Seq(T)
    <3>1. \A i \in 1..(n - c) : c + i \in 1..(n + k)
      BY <1>1, <1>3
    <3>2. b \in [1..(n - c) -> T]
      BY <2>1, <3>1 DEF Sent
    <3>3. n - c \in Nat
      BY <1>1, <1>3
    <3>. HIDE DEF T
    <3>. QED
      BY <3>2, <3>3, AsSequence
  <2>4. chunk \in Seq(T) /\ Len(chunk) = k /\ \A i \in 1..k : chunk[i] = TokenAt(from, n + i)
    <3>1. chunk \in [1..k -> T]
      <4>1. \A i \in 1..k : n + i \in 1..(n + k)
        BY <1>1
      <4>. QED
        BY <4>1, <1>0 DEF Chunk
    <3>. HIDE DEF T
    <3>2. chunk \in Seq(T) /\ Len(chunk) = k
      BY <3>1, AsSequence
    <3>. QED
      BY <3>2, <1>0 DEF Chunk
  <2>. HIDE DEF T
  <2>5. PICK joined : joined = b \o chunk
    OBVIOUS
  <2>6. /\ joined \in Seq(T) /\ Len(joined) = (n - c) + k
        /\ \A i \in 1..(n - c) : joined[i] = b[i]
        /\ \A i \in 1..k : joined[(n - c) + i] = chunk[i]
    <3>1. PICK l : l = n - c
      OBVIOUS
    <3>2. l \in Nat /\ Len(b) = l
      BY <1>1, <1>3, <2>2, <3>1
    <3>3. /\ joined \in Seq(T) /\ Len(joined) = l + k
          /\ \A i \in 1..l : joined[i] = b[i]
          /\ \A i \in 1..k : joined[l + i] = chunk[i]
      <4>1. b \in Seq(T) /\ chunk \in Seq(T)
        BY <2>3, <2>4
      <4>2. Joins(b \o chunk, b, chunk, T)
        BY <4>1, JoinIs, Zenon
      <4>. QED
        BY <4>2, <2>4, <2>5, <3>2 DEF Joins
    <3>. QED
      BY <3>1, <3>3
  <2>7. Len(joined) = Len(all)
    BY <2>2, <2>6, <1>1, <1>3
  <2>8. ASSUME NEW i \in 1..((n + k) - c)
        PROVE  joined[i] = all[i]
    <3>1. CASE i <= n - c
      <4>1. i \in 1..(n - c)
        BY <3>1, <1>1, <1>3
      <4>. QED
        BY <4>1, <2>2, <2>6
    <3>2. CASE i > n - c
      <4>. DEFINE j == i - (n - c)
      <4>1. j \in 1..k /\ (n - c) + j = i /\ n + j = c + i
        BY <3>2, <1>1, <1>3
      <4>. HIDE DEF j
      <4>2. joined[i] = TokenAt(from, n + j)
        BY <4>1, <2>4, <2>6
      <4>. QED
        BY <4>1, <4>2, <2>2
    <3>. QED
      BY <3>1, <3>2, <1>1, <1>3
  <2>9. joined = all
    BY <2>2, <2>6, <2>7, <2>8
  <2>. QED
    BY <2>1, <2>2, <2>5, <2>9
<1>6. PICK d : d = [decoder EXCEPT !.buffer = @ \o chunk]
  OBVIOUS
<1>7. d = [buffer |-> Sent(from, c, n + k), data |-> decoder.data, lastId |-> decoder.lastId]
  <2>1. d = [buffer |-> Sent(from, c, n) \o chunk, data |-> decoder.data, lastId |-> decoder.lastId]
    <3>1. PICK b, all : b = Sent(from, c, n) /\ all = b \o chunk
      OBVIOUS
    <3>2. decoder = [buffer |-> b, data |-> decoder.data, lastId |-> decoder.lastId] /\ decoder.buffer = b
      BY <1>4, <3>1
    <3>3. d = [decoder EXCEPT !.buffer = all]
      BY <1>6, <3>1, <3>2
    <3>. HIDE <3>1
    <3>4. d = [buffer |-> all, data |-> decoder.data, lastId |-> decoder.lastId]
      BY <3>2, <3>3
    <3>. QED
      BY <3>1, <3>4
  <2>. QED
    BY <2>1, <1>5
<1>8. Reads(d, from, f, r, n + k)
  <2>1. Stands(from, f, r, n + k)
    BY <1>1, <1>2, <1>3 DEF Stands
  <2>2. FrameLength * f + r <= Known(n + k)
    <3>1. c <= Known(n)
      BY <1>1, <1>2
    <3>. QED
      BY <1>1, <1>2, <1>3, <3>1 DEF Known
  <2>3. d.lastId = decoder.lastId
    BY <1>7
  <2>4. (r = 0 => decoder.lastId \in Nat /\ decoder.lastId < from + f) /\ (r # 0 => IdSoFar(decoder.lastId, from + f))
    BY DEF Reads
  <2>. QED
    BY <1>2, <1>4, <1>7, <2>1, <2>2, <2>3, <2>4 DEF Reads
<1>9. Handed(<<>>, from, f, f)
  BY <1>1 DEF Handed
<1>10. Turned([dec |-> d, events |-> <<>>], from, f, f, r, n + k)
  BY <1>1, <1>8, <1>9 DEF Turned
<1>. QED
  BY <1>0, <1>2, <1>3, <1>4, <1>5, <1>6, <1>10 DEF Buffered

\* feed ends with nothing due, whatever it was given: every line whose end is known was taken.
LEMMA FeedIs ==
    ASSUME NEW from, NEW f0, NEW r0, NEW n0, Reads(decoder, from, f0, r0, n0), NEW k \in Nat
    PROVE  \E f, r : Turned(Feed(Chunk(from, n0, k)), from, f0, f, r, n0 + k) /\ ~IsDue(f, r, n0 + k)
<1>1. PICK n, c0, begin : /\ n = n0 + k /\ c0 = FrameLength * f0 + r0
                          /\ begin = Buffered(Chunk(from, n0, k))
  OBVIOUS
<1>2. n \in Nat /\ n0 \in Nat
  BY <1>1 DEF Reads, Stands
<1>3. c0 \in Nat /\ Turned(begin, from, f0, f0, r0, n) /\ Len(begin.dec.buffer) = n - c0
  <2>1. /\ Turned(begin, from, f0, f0, r0, n0 + k)
        /\ Len(decoder.buffer \o Chunk(from, n0, k)) = (n0 + k) - (FrameLength * f0 + r0)
        /\ FrameLength * f0 + r0 \in Nat
    <3>1. /\ Turned(Buffered(Chunk(from, n0, k)), from, f0, f0, r0, n0 + k)
          /\ Len(decoder.buffer \o Chunk(from, n0, k)) = (n0 + k) - (FrameLength * f0 + r0)
          /\ FrameLength * f0 + r0 \in Nat
      BY ChunkIsBuffered, Zenon
    <3>. QED
      BY <1>1, <3>1, Zenon
  <2>2. begin.dec.buffer = decoder.buffer \o Chunk(from, n0, k)
    <3>1. decoder = [buffer |-> decoder.buffer, data |-> decoder.data, lastId |-> decoder.lastId]
      BY DEF Reads
    <3>. QED
      BY <1>1, <3>1 DEF Buffered
  <2>. QED
    BY <1>1, <2>1, <2>2
<1>. DEFINE Progress(st, m) ==
                \E f, r :
                   /\ Turned(st, from, f0, f, r, n)
                   /\ FrameLength * f + r \in Nat
                   /\ IsDue(f, r, n) => FrameLength * f + r >= c0 + m
            Turns(after, m) ==
                /\ after = [j \in 0..m |-> IF j = 0 THEN begin ELSE TakeLine(after[j - 1])]
                /\ Progress(after[m], m)
            missed == {m \in Nat : ~\E after : Turns(after, m)}
<1>4. Progress(begin, 0)
  <2>1. FrameLength * f0 + r0 \in Nat /\ FrameLength * f0 + r0 >= c0 + 0
    BY <1>1, <1>3
  <2>. QED
    BY <1>3, <2>1, Zenon
<1>5. ASSUME NEW st, NEW m \in Nat \ {0}, Progress(st, m - 1)
      PROVE  Progress(TakeLine(st), m)
  <2>1. PICK f, r : /\ Turned(st, from, f0, f, r, n)
                    /\ FrameLength * f + r \in Nat
                    /\ IsDue(f, r, n) => FrameLength * f + r >= c0 + (m - 1)
    BY <1>5
  <2>2. CASE ~IsDue(f, r, n)
    <3>1. TakeLine(st) = st
      BY <2>1, <2>2, TakeLineWaits, Zenon
    <3>. QED
      BY <2>1, <2>2, <3>1
  <2>3. CASE IsDue(f, r, n)
    <3>1. PICK f1, r1 : /\ Turned(TakeLine(st), from, f0, f1, r1, n)
                        /\ FrameLength * f1 + r1 \in Nat /\ FrameLength * f1 + r1 > FrameLength * f + r
      BY <2>1, <2>3, TakeLineAdvances, Zenon
    <3>2. FrameLength * f1 + r1 >= c0 + m
      <4>1. PICK c, c1 : c = FrameLength * f + r /\ c1 = FrameLength * f1 + r1
        OBVIOUS
      <4>2. c \in Nat /\ c1 \in Nat /\ c1 > c /\ c >= c0 + (m - 1)
        BY <2>1, <2>3, <3>1, <4>1
      <4>3. c1 >= c0 + m
        BY <4>2, <1>3
      <4>. QED
        BY <4>1, <4>3
    <3>. QED
      BY <3>1, <3>2
  <2>. QED
    BY <2>2, <2>3
<1>. HIDE DEF Progress
<1>6. missed = {}
  <2>1. SUFFICES ASSUME missed # {} PROVE FALSE
    OBVIOUS
  <2>2. PICK m \in missed : \A j \in missed : j >= m
    <3>1. missed \subseteq Nat
      OBVIOUS
    <3>. HIDE DEF missed
    <3>. QED
      BY <2>1, <3>1, FirstOfNaturals
  <2>3. m \in Nat /\ ~\E after : Turns(after, m)
    BY <2>2
  <2>4. CASE m = 0
    <3>. DEFINE g == [j \in 0..0 |-> begin]
    <3>1. g = [j \in 0..0 |-> IF j = 0 THEN begin ELSE TakeLine(g[j - 1])]
      OBVIOUS
    <3>2. g[0] = begin
      OBVIOUS
    <3>3. Turns(g, 0)
      BY <3>1, <3>2, <1>4
    <3>. QED
      BY <3>3, <2>3, <2>4
  <2>5. CASE m # 0
    <3>1. m - 1 \in Nat /\ m - 1 \notin missed
      <4>. HIDE DEF Turns
      <4>. QED
        BY <2>2, <2>5
    <3>2. PICK h : Turns(h, m - 1)
      BY <3>1
    <3>3. \A j \in 0..(m - 1) : h[j] = IF j = 0 THEN begin ELSE TakeLine(h[j - 1])
      <4>1. h = [j \in 0..(m - 1) |-> IF j = 0 THEN begin ELSE TakeLine(h[j - 1])]
        BY <3>2
      <4>. QED
        BY <4>1
    <3>. DEFINE g == [j \in 0..m |-> IF j = m THEN TakeLine(h[m - 1]) ELSE h[j]]
    <3>4. ASSUME NEW j \in 0..m
          PROVE  g[j] = IF j = 0 THEN begin ELSE TakeLine(g[j - 1])
      <4>1. CASE j = m
        <5>1. g[j] = TakeLine(h[m - 1]) /\ g[j - 1] = h[m - 1]
          BY <4>1, <3>1, <2>3, <2>5
        <5>. QED
          BY <5>1, <4>1, <2>5
      <4>2. CASE j # m
        <5>1. j \in 0..(m - 1) /\ g[j] = h[j] /\ (j # 0 => j - 1 \in 0..m /\ j - 1 # m)
          BY <4>2, <3>1, <2>3
        <5>2. j # 0 => g[j - 1] = h[j - 1]
          BY <5>1
        <5>. QED
          BY <5>1, <5>2, <3>3
      <4>. QED
        BY <4>1, <4>2
    <3>5. g = [j \in 0..m |-> IF j = 0 THEN begin ELSE TakeLine(g[j - 1])]
      <4>1. g = [j \in 0..m |-> g[j]]
        OBVIOUS
      <4>. HIDE DEF g
      <4>. QED
        BY <4>1, <3>4
    <3>6. g[m] = TakeLine(h[m - 1])
      BY <2>3
    <3>7. Progress(g[m], m)
      <4>1. Progress(h[m - 1], m - 1)
        BY <3>2
      <4>. QED
        BY <4>1, <3>6, <1>5, <2>3, <2>5
    <3>8. Turns(g, m)
      <4>. HIDE DEF g
      <4>. QED
        BY <3>5, <3>7
    <3>. QED
      BY <3>8, <2>3
  <2>. QED
    BY <2>4, <2>5
<1>7. PICK st : st = Feed(Chunk(from, n0, k)) /\ Progress(st, n - c0)
  <2>. DEFINE Steps == n - c0
              after == CHOOSE g : g = [j \in 0..Steps |-> IF j = 0 THEN begin ELSE TakeLine(g[j - 1])]
  <2>1. Steps \in Nat
    <3>1. c0 <= n
      BY <1>1, <1>3 DEF Turned, Reads, Stands
    <3>. QED
      BY <1>2, <1>3, <3>1
  <2>2. Feed(Chunk(from, n0, k)) = after[Steps]
    BY <1>1, <1>3 DEF Feed, Buffered
  <2>3. \E h : Turns(h, Steps)
    <3>. HIDE DEF Turns, Steps
    <3>. QED
      BY <1>6, <2>1
  <2>4. \E h : h = [j \in 0..Steps |-> IF j = 0 THEN begin ELSE TakeLine(h[j - 1])]
    BY <2>3
  <2>5. after = [j \in 0..Steps |-> IF j = 0 THEN begin ELSE TakeLine(after[j - 1])]
    <3>. HIDE DEF Steps
    <3>. QED
      BY <2>4
  <2>6. PICK h : Turns(h, Steps)
    BY <2>3
  <2>. HIDE DEF after, Steps
  <2>7. h = after
    <3>1. h = [j \in 0..Steps |-> IF j = 0 THEN begin ELSE TakeLine(h[j - 1])]
      BY <2>6
    <3>2. \A j \in 0..Steps : h[j] = IF j = 0 THEN begin ELSE TakeLine(h[j - 1])
      BY <3>1
    <3>3. \A j \in 0..Steps : after[j] = IF j = 0 THEN begin ELSE TakeLine(after[j - 1])
      BY <2>5
    <3>. DEFINE differ == {j \in 0..Steps : h[j] # after[j]}
    <3>4. differ = {}
      <4>1. SUFFICES ASSUME differ # {} PROVE FALSE
        OBVIOUS
      <4>2. PICK j \in differ : \A i \in differ : i >= j
        <5>1. differ \subseteq Nat
          OBVIOUS
        <5>. HIDE DEF differ
        <5>. QED
          BY <4>1, <5>1, FirstOfNaturals
      <4>3. j \in 0..Steps /\ h[j] # after[j]
        OBVIOUS
      <4>4. j # 0
        BY <4>3, <3>2, <3>3
      <4>5. j - 1 \in 0..Steps /\ j - 1 \notin differ
        <5>1. j \in Nat /\ j - 1 \in 0..Steps /\ ~(j - 1 >= j)
          BY <4>3, <4>4, <2>1
        <5>. HIDE DEF differ
        <5>. QED
          BY <5>1, <4>2
      <4>6. h[j - 1] = after[j - 1]
        BY <4>5
      <4>. QED
        BY <4>3, <4>4, <4>6, <3>2, <3>3
    <3>5. \A j \in 0..Steps : h[j] = after[j]
      BY <3>4
    <3>. QED
      BY <3>1, <3>5, <2>5
  <2>8. Progress(after[Steps], Steps)
    BY <2>6, <2>7
  <2>. QED
    BY <2>2, <2>8 DEF Steps
<1>8. PICK f, r : /\ Turned(st, from, f0, f, r, n)
                  /\ FrameLength * f + r \in Nat
                  /\ IsDue(f, r, n) => FrameLength * f + r >= c0 + (n - c0)
  BY <1>7 DEF Progress
<1>9. ~IsDue(f, r, n)
  <2>1. SUFFICES ASSUME IsDue(f, r, n) PROVE FALSE
    OBVIOUS
  <2>2. PICK base, due : base = FrameLength * f /\ due = NextLine(r)
    OBVIOUS
  <2>3. Sized(f, r)
    <3>1. Stands(from, f, r, n)
      BY <1>8 DEF Turned, Reads
    <3>. QED
      BY <3>1, SizesAre, Zenon
  <2>4. base \in Nat /\ r \in Nat /\ due \in Nat /\ due > r
    BY <2>2, <2>3 DEF Sized
  <2>5. base + r >= n
    BY <1>8, <2>1, <2>2, <1>2, <1>3
  <2>6. base + due <= n
    <3>1. base + due <= Known(n)
      BY <2>1, <2>2 DEF IsDue
    <3>. QED
      BY <3>1, <1>2, <2>4 DEF Known
  <2>. QED
    BY <2>4, <2>5, <2>6, <1>2
<1>. QED
  BY <1>1, <1>7, <1>8, <1>9

\* Where a connection is against what was received before it and through it: its f last events
\* are its own, and the event it waits for leaves no gap behind an event with an id.
HeardIn(all) == \E j \in DOMAIN all : Numbered(all[j])
Follows(all, from, f, id) ==
    /\ f <= Len(all) /\ \A i \in 1..f : all[(Len(all) - f) + i] = (from + i) - 1
    /\ id \in Nat /\ id < from + f
    /\ HeardIn(all) => id # NoId /\ from + f <= all[Len(all)] + 1
    /\ numbering = "each" /\ all # <<>> => from + f = all[Len(all)] + 1 /\ id = all[Len(all)]

GapFree(all) ==
    \A i \in 1..(Len(all) - 1) :
      /\ (\E j \in 1..i : Numbered(all[j])) => all[i + 1] <= all[i] + 1
      /\ numbering = "each" => all[i + 1] = all[i] + 1

\* What the id to resume with becomes.
NewestAfter(id, from, f0, f) ==
    /\ id \in Nat
    /\ id = newestId \/ id < from + f
    /\ (\E j \in 1..(f - f0) : Numbered((from + f0 + j) - 1)) => id # NoId
    /\ newestId # NoId => id # NoId
    /\ f > f0 /\ Numbered((from + f) - 1) => id = (from + f) - 1
    /\ f = f0 => id = newestId

LEMMA GreatestIs ==
    ASSUME NEW n \in Nat, NEW S \in SUBSET (1..n), S # {}
    PROVE  Max(S) \in S /\ \A j \in S : Max(S) >= j
<1>. DEFINE back == {n - j : j \in S}
<1>1. back \in SUBSET Nat /\ back # {}
  <2>1. \A j \in S : n - j \in Nat
    OBVIOUS
  <2>2. PICK i \in S : TRUE
    OBVIOUS
  <2>3. n - i \in back
    OBVIOUS
  <2>. QED
    BY <2>1, <2>3
<1>2. PICK b \in back : \A c \in back : c >= b
  <2>. HIDE DEF back
  <2>. QED
    BY <1>1, FirstOfNaturals
<1>3. PICK m \in S : b = n - m
  OBVIOUS
<1>4. \A j \in S : m >= j
  <2>1. ASSUME NEW j \in S
        PROVE  m >= j
    <3>1. n - j >= n - m /\ j \in 1..n /\ m \in 1..n
      BY <1>2, <1>3
    <3>. QED
      BY <3>1
  <2>. QED
    BY <2>1
<1>. DEFINE most == CHOOSE x \in S : \A y \in S : x >= y
<1>5. most \in S /\ \A y \in S : most >= y
  BY <1>4
<1>. QED
  BY <1>5 DEF Max

LEMMA NewestIs ==
    ASSUME NEW taken, NEW from \in Nat \ {0}, NEW f0 \in Nat, NEW f \in Nat, f0 <= f,
           Handed(taken.events, from, f0, f), newestId \in Nat
    PROVE  NewestAfter(NewestIdOf(taken), from, f0, f)
<1>. DEFINE ids == {i \in DOMAIN taken.events : taken.events[i].id # NoId}
<1>1. PICK events, k : events = taken.events /\ k = f - f0
  OBVIOUS
<1>2. /\ k \in Nat /\ DOMAIN events = 1..k /\ ids = {i \in 1..k : events[i].id # NoId}
      /\ \A j \in 1..k : IdSoFar(events[j].id, (from + f0 + j) - 1)
  <2>1. k \in Nat
    BY <1>1
  <2>2. events \in Seq([data : Nat, id : Nat]) /\ Len(events) = k
    BY <1>1 DEF Handed
  <2>3. \A j \in 1..k : IdSoFar(events[j].id, (from + f0 + j) - 1)
    BY <1>1 DEF Handed
  <2>4. DOMAIN events = 1..k
    BY <2>2
  <2>. QED
    BY <1>1, <2>1, <2>3, <2>4
<1>3. ASSUME NEW j \in 1..k, Numbered((from + f0 + j) - 1)
      PROVE  j \in ids /\ events[j].id = (from + f0 + j) - 1
  <2>1. events[j].id = (from + f0 + j) - 1
    BY <1>2, <1>3 DEF IdSoFar
  <2>2. (from + f0 + j) - 1 # NoId
    BY <1>2 DEF NoId
  <2>. QED
    BY <1>2, <2>1, <2>2
<1>4. f = f0 => k = 0
  BY <1>1
<1>5. (from + f0 + k) - 1 = (from + f) - 1 /\ (f > f0 => k \in 1..k)
  BY <1>1, <1>2
<1>6. CASE ids = {}
  <2>1. NewestIdOf(taken) = newestId
    BY <1>6 DEF NewestIdOf
  <2>2. \A j \in 1..k : ~Numbered((from + f0 + j) - 1)
    <3>. HIDE DEF ids
    <3>. QED
      BY <1>3, <1>6
  <2>3. f > f0 => ~Numbered((from + f) - 1)
    BY <2>2, <1>5
  <2>. QED
    BY <1>1, <2>1, <2>2, <2>3 DEF NewestAfter
<1>7. CASE ids # {}
  <2>1. Max(ids) \in ids /\ \A j \in ids : Max(ids) >= j
    <3>1. ids \in SUBSET (1..k)
      BY <1>2
    <3>. HIDE DEF ids
    <3>. QED
      BY <1>2, <1>7, <3>1, GreatestIs
  <2>2. PICK m : m = Max(ids)
    OBVIOUS
  <2>3. NewestIdOf(taken) = events[m].id
    BY <1>1, <1>7, <2>2 DEF NewestIdOf
  <2>4. m \in 1..k /\ events[m].id # NoId /\ IdSoFar(events[m].id, (from + f0 + m) - 1)
    BY <1>2, <2>1, <2>2
  <2>5. events[m].id \in Nat /\ events[m].id < from + f
    BY <2>4, <1>1 DEF IdSoFar
  <2>6. ASSUME f > f0, Numbered((from + f) - 1)
        PROVE  events[m].id = (from + f) - 1
    <3>1. k \in 1..k /\ Numbered((from + f0 + k) - 1)
      BY <1>5, <2>6
    <3>2. k \in ids /\ events[k].id = (from + f0 + k) - 1
      BY <3>1, <1>3
    <3>3. m = k
      <4>1. m >= k
        BY <2>1, <2>2, <3>2
      <4>. QED
        BY <4>1, <2>4, <1>2
    <3>. QED
      BY <3>2, <3>3, <1>5
  <2>7. f # f0
    BY <1>4, <2>4
  <2>. QED
    BY <2>3, <2>4, <2>5, <2>6, <2>7 DEF NewestAfter
<1>. QED
  BY <1>6, <1>7

\* The events of a chunk go behind those received, without a gap.
LEMMA ChunkFollows ==
    ASSUME numbering \in {"each", "odd", "none"},
           NEW from \in Nat \ {0}, NEW f0 \in Nat, NEW f \in Nat, f0 <= f,
           NEW all \in Seq(Nat), NEW run \in Seq(Nat), NEW more, Joins(more, all, run, Nat),
           Len(run) = f - f0, \A j \in 1..(f - f0) : run[j] = (from + f0 + j) - 1,
           Follows(all, from, f0, newestId), GapFree(all), newestId \in Nat,
           NEW id, NewestAfter(id, from, f0, f)
    PROVE  Follows(more, from, f, id) /\ GapFree(more)
<1>1. PICK n, k : n = Len(all) /\ k = f - f0
  OBVIOUS
<1>2. /\ n \in Nat /\ k \in Nat /\ f = f0 + k /\ f0 <= n
      /\ more \in Seq(Nat) /\ Len(more) = n + k /\ DOMAIN more = 1..(n + k) /\ DOMAIN all = 1..n
      /\ \A i \in 1..n : more[i] = all[i] /\ all[i] \in Nat
      /\ \A j \in 1..k : more[n + j] = (from + f0 + j) - 1
  <2>1. n \in Nat /\ k \in Nat /\ f = f0 + k
    BY <1>1
  <2>2. Len(run) = k /\ \A j \in 1..k : run[j] = (from + f0 + j) - 1
    BY <1>1
  <2>3. more \in Seq(Nat) /\ Len(more) = n + k
    BY <1>1, <2>2 DEF Joins
  <2>4. \A i \in 1..n : more[i] = all[i] /\ all[i] \in Nat
    BY <1>1 DEF Joins
  <2>5. \A j \in 1..k : more[n + j] = (from + f0 + j) - 1
    BY <1>1, <2>2 DEF Joins
  <2>6. f0 <= n
    BY <1>1 DEF Follows
  <2>. QED
    BY <1>1, <2>1, <2>3, <2>4, <2>5, <2>6
<1>3. CASE k = 0
  <2>1. more = all
    BY <1>1, <1>2, <1>3
  <2>2. f = f0 /\ id = newestId
    BY <1>2, <1>3 DEF NewestAfter
  <2>. QED
    BY <2>1, <2>2
<1>4. CASE k # 0
  <2>1. more[Len(more)] = (from + f) - 1 /\ n + k \in 1..(n + k) /\ more # <<>>
    <3>1. k \in 1..k /\ (from + f0 + k) - 1 = (from + f) - 1
      BY <1>2, <1>4
    <3>2. more[n + k] = (from + f0 + k) - 1
      BY <3>1, <1>2
    <3>3. Len(more) = n + k /\ n + k \in 1..(n + k) /\ more # <<>>
      BY <3>1, <1>2
    <3>. QED
      BY <3>1, <3>2, <3>3
  <2>2. ASSUME NEW i \in 1..f
        PROVE  more[(Len(more) - f) + i] = (from + i) - 1
    <3>1. (Len(more) - f) + i = (n - f0) + i
      BY <1>2
    <3>2. CASE i <= f0
      <4>1. i \in 1..f0 /\ (n - f0) + i \in 1..n
        BY <3>2, <1>2
      <4>2. all[(n - f0) + i] = (from + i) - 1
        BY <4>1, <1>1 DEF Follows
      <4>. QED
        BY <3>1, <4>1, <4>2, <1>2
    <3>3. CASE i > f0
      <4>. DEFINE j == i - f0
      <4>1. j \in 1..k /\ (n - f0) + i = n + j /\ (from + f0 + j) - 1 = (from + i) - 1
        BY <3>3, <1>2
      <4>. HIDE DEF j
      <4>2. more[n + j] = (from + f0 + j) - 1
        BY <4>1, <1>2
      <4>. QED
        BY <3>1, <4>1, <4>2
    <3>. QED
      BY <3>2, <3>3
  <2>3. id \in Nat /\ id < from + f
    BY <1>2 DEF NewestAfter, Follows
  <2>4. HeardIn(more) => id # NoId
    <3>1. SUFFICES ASSUME NEW j \in 1..(n + k), Numbered(more[j]) PROVE id # NoId
      BY <1>2 DEF HeardIn
    <3>2. CASE j <= n
      <4>1. j \in 1..n /\ more[j] = all[j]
        BY <3>2, <1>2
      <4>2. HeardIn(all)
        BY <3>1, <4>1, <1>2 DEF HeardIn
      <4>. QED
        BY <4>2 DEF Follows, NewestAfter
    <3>3. CASE j > n
      <4>. DEFINE i == j - n
      <4>1. i \in 1..k /\ n + i = j
        BY <3>3, <1>2
      <4>. HIDE DEF i
      <4>2. Numbered((from + f0 + i) - 1)
        BY <3>1, <4>1, <1>2
      <4>3. i \in 1..(f - f0)
        BY <4>1, <1>1
      <4>. QED
        BY <4>2, <4>3 DEF NewestAfter
    <3>. QED
      BY <3>2, <3>3, <1>2
  <2>5. numbering = "each" => id = (from + f) - 1
    <3>1. f > f0
      BY <1>2, <1>4
    <3>. QED
      BY <3>1 DEF NewestAfter, Numbered
  <2>6. Follows(more, from, f, id)
    <3>1. f <= Len(more) /\ from + f = more[Len(more)] + 1
      BY <1>2, <2>1
    <3>2. from + f <= more[Len(more)] + 1
      BY <2>1
    <3>3. numbering = "each" => id = more[Len(more)]
      BY <2>1, <2>5
    <3>. QED
      BY <2>2, <2>3, <2>4, <3>1, <3>2, <3>3 DEF Follows
  <2>7. ASSUME NEW i \in 1..((n + k) - 1)
        PROVE  /\ (\E j \in 1..i : Numbered(more[j])) => more[i + 1] <= more[i] + 1
               /\ numbering = "each" => more[i + 1] = more[i] + 1
    <3>1. CASE i < n
      <4>1. i \in 1..(n - 1) /\ i \in 1..n /\ i + 1 \in 1..n
        BY <3>1, <1>2
      <4>2. more[i] = all[i] /\ more[i + 1] = all[i + 1] /\ \A j \in 1..i : more[j] = all[j]
        BY <4>1, <1>2
      <4>3. /\ (\E j \in 1..i : Numbered(all[j])) => all[i + 1] <= all[i] + 1
            /\ numbering = "each" => all[i + 1] = all[i] + 1
        BY <4>1, <1>1 DEF GapFree
      <4>. QED
        BY <4>2, <4>3
    <3>2. CASE i = n
      <4>1. more[i + 1] = from + f0
        <5>1. 1 \in 1..k /\ (from + f0 + 1) - 1 = from + f0
          BY <1>2, <1>4
        <5>. QED
          BY <5>1, <3>2, <1>2
      <4>2. i \in 1..n /\ more[i] = all[n] /\ all # <<>>
        BY <3>2, <1>2
      <4>3. (\E j \in 1..i : Numbered(more[j])) => HeardIn(all)
        BY <3>2, <1>2 DEF HeardIn
      <4>. QED
        BY <4>1, <4>2, <4>3, <1>1 DEF Follows
    <3>3. CASE i > n
      <4>. DEFINE j == i - n
      <4>1. j \in 1..k /\ j + 1 \in 1..k /\ n + j = i /\ n + (j + 1) = i + 1
        BY <3>3, <1>2
      <4>. HIDE DEF j
      <4>2. more[i] = (from + f0 + j) - 1 /\ more[i + 1] = (from + f0 + (j + 1)) - 1
        BY <4>1, <1>2
      <4>3. more[i + 1] = more[i] + 1
        BY <4>1, <4>2
      <4>4. more[i] \in Nat
        BY <4>1, <4>2
      <4>. QED
        BY <4>3, <4>4
    <3>. QED
      BY <3>1, <3>2, <3>3, <1>2
  <2>. QED
    BY <2>6, <2>7, <1>2 DEF GapFree
<1>. QED
  BY <1>3, <1>4

CloudShape ==
    /\ ending \in Endings /\ numbering \in {"each", "odd", "none"}
    /\ head \in Nat /\ attempt \in Nat /\ barren \in Nat
    /\ lastEventId \in Nat /\ newestId \in Nat
    /\ link \in [from : Nat \ {0}, read : Nat]
    /\ worker \in {"dialling", "streaming", "ended"}
    /\ gotEvent \in BOOLEAN
    /\ channel \in Seq(Nat) /\ polled \in Seq(Nat)

\* The open connection has decoded f events, stands at the line that begins at r of the next,
\* and has taken every line whose end is known.
StreamsAt(f, r) ==
    /\ Reads(decoder, link.from, f, r, link.read)
    /\ ~IsDue(f, r, link.read)
    /\ gotEvent = (f > 0)
    /\ Follows(Received, link.from, f, newestId)

\* Between connections, the id to resume with is of an event received, and once one had an id,
\* no earlier than what may be asked for without a gap.
Resumes(all, id) ==
    /\ HeardIn(all) => id # NoId /\ id <= all[Len(all)]
    /\ numbering = "each" /\ all # <<>> => id = all[Len(all)]

CloudInv ==
    /\ CloudShape
    /\ worker = "streaming" => (\E f, r : StreamsAt(f, r)) /\ (gotEvent \/ attempt <= barren)
    /\ worker = "dialling" => Resumes(Received, lastEventId) /\ attempt <= barren
    /\ surfaced => worker = "ended" /\ channel = <<>>
    /\ GapFree(Received)

\* One server keeps to its end of line and to its numbering.
LEMMA SameServer ==
    ASSUME ending' = ending, numbering' = numbering,
           NEW dec, NEW from, NEW f, NEW r, NEW n
    PROVE  Reads(dec, from, f, r, n)' = Reads(dec, from, f, r, n) /\ IsDue(f, r, n)' = IsDue(f, r, n)
<1>1. EndOfLine' = EndOfLine
  BY DEF EndOfLine
<1>2. FrameLength' = FrameLength
  BY <1>1 DEF FrameLength
<1>3. \A m : Numbered(m)' = Numbered(m)
  BY DEF Numbered
<1>4. \A m : Frame(m)' = Frame(m)
  BY <1>1, <1>3 DEF Frame
<1>5. \A i : TokenAt(from, i)' = TokenAt(from, i)
  BY <1>2, <1>4 DEF TokenAt
<1>6. \A c : Sent(from, c, n)' = Sent(from, c, n)
  BY <1>5 DEF Sent
<1>7. LineStarts' = LineStarts /\ NextLine(r)' = NextLine(r) /\ Known(n)' = Known(n)
  BY <1>1 DEF LineStarts, NextLine, Known
<1>8. Stands(from, f, r, n)' = Stands(from, f, r, n)
  BY <1>2, <1>7 DEF Stands
<1>9. IdSoFar(dec.lastId, from + f)' = IdSoFar(dec.lastId, from + f)
  BY <1>3 DEF IdSoFar
<1>10. Reads(dec, from, f, r, n)' = Reads(dec, from, f, r, n)
  BY <1>1, <1>2, <1>6, <1>7, <1>8, <1>9 DEF Reads
<1>11. IsDue(f, r, n)' = IsDue(f, r, n)
  BY <1>2, <1>7 DEF IsDue
<1>. QED
  BY <1>10, <1>11

LEMMA SameNumbering ==
    ASSUME numbering' = numbering, NEW all, NEW from, NEW f, NEW id
    PROVE  /\ Follows(all, from, f, id)' = Follows(all, from, f, id)
           /\ Resumes(all, id)' = Resumes(all, id)
           /\ GapFree(all)' = GapFree(all)
<1>1. \A m : Numbered(m)' = Numbered(m)
  BY DEF Numbered
<1>2. HeardIn(all)' = HeardIn(all)
  BY <1>1 DEF HeardIn
<1>. QED
  BY <1>1, <1>2 DEF Follows, Resumes, GapFree

\* What does not touch the connection or what was received keeps where it stands.
LEMMA ConnectionStands ==
    ASSUME NEW f, NEW r, StreamsAt(f, r), Received' = Received,
           UNCHANGED <<ending, numbering, link, decoder, newestId, gotEvent>>
    PROVE  StreamsAt(f, r)'
<1>1. Reads(decoder, link.from, f, r, link.read)' /\ ~IsDue(f, r, link.read)'
  BY SameServer DEF StreamsAt
<1>2. Follows(Received, link.from, f, newestId)'
  BY SameNumbering DEF StreamsAt
<1>. QED
  BY <1>1, <1>2 DEF StreamsAt

LEMMA CloudStarts == CloudInit => CloudInv
<1>1. SUFFICES ASSUME CloudInit PROVE CloudInv
  OBVIOUS
<1>2. Received = <<>>
  BY <1>1 DEF CloudInit, Received
<1>3. CloudShape
  <2>1. link \in [from : Nat \ {0}, read : Nat]
    BY <1>1 DEF CloudInit
  <2>2. channel \in Seq(Nat) /\ polled \in Seq(Nat)
    BY <1>1 DEF CloudInit
  <2>3. /\ head \in Nat /\ attempt \in Nat /\ barren \in Nat
        /\ lastEventId \in Nat /\ newestId \in Nat
        /\ gotEvent \in BOOLEAN /\ worker \in {"dialling", "streaming", "ended"}
    BY <1>1 DEF CloudInit, NoId
  <2>4. ending \in Endings /\ numbering \in {"each", "odd", "none"}
    BY <1>1 DEF CloudInit, Endings
  <2>. QED
    BY <2>1, <2>2, <2>3, <2>4 DEF CloudShape
<1>4. GapFree(Received)
  BY <1>2 DEF GapFree
<1>5. Resumes(Received, lastEventId)
  BY <1>2 DEF Resumes, HeardIn
<1>. QED
  BY <1>1, <1>3, <1>4, <1>5 DEF CloudInit, CloudInv

LEMMA ConnectKeeps == ASSUME CloudInv, Connect PROVE CloudInv'
<1>1. /\ worker = "dialling" /\ worker' = "streaming"
      /\ attempt' = attempt + 1 /\ barren' = barren + 1
      /\ link' = [from |-> ResumeAt(lastEventId), read |-> 0]
      /\ decoder' = NewDecoder /\ newestId' = lastEventId /\ gotEvent' = FALSE
      /\ UNCHANGED <<ending, numbering, head, lastEventId, channel, polled, surfaced, cuts>>
  BY DEF Connect
<1>2. CloudShape /\ Resumes(Received, lastEventId) /\ attempt <= barren /\ ~surfaced /\ GapFree(Received)
  BY <1>1 DEF CloudInv
<1>3. Received' = Received /\ Received \in Seq(Nat)
  BY <1>1, <1>2 DEF Received, CloudShape
<1>4. PICK from : from = ResumeAt(lastEventId)
  OBVIOUS
<1>5. from \in Nat \ {0} /\ lastEventId < from /\ (lastEventId # NoId => from = lastEventId + 1)
  BY <1>2, <1>4 DEF CloudShape, ResumeAt, NoId
<1>6. CloudShape'
  <2>1. link' = [from |-> from, read |-> 0]
    BY <1>1, <1>4
  <2>2. link' \in [from : Nat \ {0}, read : Nat]
    BY <1>5, <2>1
  <2>3. /\ attempt' \in Nat /\ barren' \in Nat /\ newestId' \in Nat
        /\ gotEvent' \in BOOLEAN /\ worker' \in {"dialling", "streaming", "ended"}
    <3>1. attempt \in Nat /\ barren \in Nat /\ lastEventId \in Nat
      BY <1>2, Zenon DEF CloudShape
    <3>2. attempt + 1 \in Nat /\ barren + 1 \in Nat
      BY <3>1
    <3>. QED
      BY <1>1, <3>1, <3>2, Zenon
  <2>4. /\ ending' \in Endings /\ numbering' \in {"each", "odd", "none"}
        /\ head' \in Nat /\ lastEventId' \in Nat /\ channel' \in Seq(Nat) /\ polled' \in Seq(Nat)
    BY <1>1, <1>2 DEF CloudShape
  <2>5. Endings' = Endings
    BY DEF Endings
  <2>. QED
    BY <2>2, <2>3, <2>4, <2>5, Zenon DEF CloudShape
<1>7. Reads(NewDecoder, from, 0, 0, 0)
  <2>1. Stands(from, 0, 0, 0) /\ FrameLength * 0 + 0 = 0 /\ 0 # 2 + 2 * Len(EndOfLine) /\ Known(0) = 0
    <3>1. FrameLength \in {5, 8} /\ Len(EndOfLine) \in {1, 2}
      BY <1>2, EndOfLineIs DEF CloudShape
    <3>. QED
      BY <1>2, <1>5, <3>1 DEF Stands, LineStarts, CloudShape, Known
  <2>2. Sent(from, 0, 0) = <<>>
    BY DEF Sent
  <2>. QED
    BY <2>1, <2>2, <1>5 DEF Reads, NewDecoder, NoId
<1>8. ~IsDue(0, 0, 0)
  <2>1. Sized(0, 0)
    <3>1. Stands(from, 0, 0, 0)
      BY <1>7 DEF Reads
    <3>. QED
      BY <3>1, SizesAre, Zenon
  <2>. QED
    BY <2>1 DEF Sized, IsDue, Known
<1>9. Follows(Received, from, 0, lastEventId)
  <2>1. PICK all, n : all = Received /\ n = Len(all)
    OBVIOUS
  <2>2. all \in Seq(Nat) /\ n \in Nat /\ (all # <<>> => all[n] \in Nat /\ 1 \in DOMAIN all)
    BY <1>3, <2>1
  <2>3. HeardIn(all) => lastEventId # NoId /\ lastEventId <= all[n] /\ all # <<>>
    BY <1>2, <2>1, <2>2 DEF Resumes, HeardIn
  <2>4. numbering = "each" /\ all # <<>> => lastEventId = all[n] /\ HeardIn(all)
    BY <1>2, <2>1, <2>2 DEF Resumes, HeardIn, Numbered
  <2>5. HeardIn(all) => from + 0 <= all[n] + 1
    BY <2>2, <2>3, <1>2, <1>5 DEF CloudShape
  <2>6. numbering = "each" /\ all # <<>> => from + 0 = all[n] + 1
    BY <2>2, <2>3, <2>4, <1>2, <1>5 DEF CloudShape
  <2>. QED
    BY <2>1, <2>2, <2>3, <2>4, <2>5, <2>6, <1>2, <1>5 DEF Follows, CloudShape
<1>10. StreamsAt(0, 0)'
  <2>1. Reads(NewDecoder, from, 0, 0, 0)' /\ ~IsDue(0, 0, 0)'
    BY <1>1, <1>7, <1>8, SameServer
  <2>2. Follows(Received, from, 0, lastEventId)'
    BY <1>1, <1>3, <1>9, SameNumbering
  <2>3. link'.from = from /\ link'.read = 0
    BY <1>1, <1>4
  <2>4. gotEvent' = (0 > 0)
    <3>1. (0 > 0) = FALSE
      OBVIOUS
    <3>. QED
      BY <1>1, <3>1, Zenon
  <2>5. decoder' = NewDecoder /\ newestId' = lastEventId
    BY <1>1
  <2>6. Reads(decoder, link.from, 0, 0, link.read)' /\ ~IsDue(0, 0, link.read)'
    BY <2>1, <2>3, <2>5
  <2>7. Follows(Received, link.from, 0, newestId)'
    BY <1>1, <2>2, <2>3, <2>5
  <2>. QED
    BY <2>4, <2>6, <2>7 DEF StreamsAt
<1>11. GapFree(Received)'
  BY <1>1, <1>2, <1>3, SameNumbering
<1>12. attempt' <= barren'
  BY <1>1, <1>2 DEF CloudShape
<1>. QED
  BY <1>1, <1>2, <1>6, <1>10, <1>11, <1>12 DEF CloudInv

LEMMA JoinThree ==
    ASSUME NEW T, NEW s \in Seq(T), NEW u \in Seq(T), NEW v \in Seq(T)
    PROVE  Joins(s \o (u \o v), s \o u, v, T)
<1>1. PICK uv, su, all : uv = u \o v /\ su = s \o u /\ all = s \o uv
  OBVIOUS
<1>2. Joins(uv, u, v, T) /\ Joins(su, s, u, T)
  BY <1>1, JoinIs
<1>3. uv \in Seq(T)
  BY <1>2 DEF Joins
<1>4. Joins(all, s, uv, T)
  BY <1>1, <1>3, JoinIs
<1>5. PICK a, b, c : a = Len(s) /\ b = Len(u) /\ c = Len(v)
  OBVIOUS
<1>6. a \in Nat /\ b \in Nat /\ c \in Nat
  BY <1>5
<1>7. all \in Seq(T) /\ Len(all) = a + (b + c) /\ Len(su) = a + b
  BY <1>2, <1>4, <1>5 DEF Joins
<1>8. \A i \in 1..a : all[i] = s[i] /\ su[i] = s[i]
  BY <1>2, <1>4, <1>5 DEF Joins
<1>9. \A i \in 1..(b + c) : all[a + i] = uv[i]
  BY <1>2, <1>4, <1>5 DEF Joins
<1>10. \A i \in 1..b : uv[i] = u[i] /\ su[a + i] = u[i]
  BY <1>2, <1>5 DEF Joins
<1>11. \A i \in 1..c : uv[b + i] = v[i]
  BY <1>2, <1>5 DEF Joins
<1>12. ASSUME NEW i \in 1..(a + b)
       PROVE  all[i] = su[i]
  <2>1. CASE i <= a
    BY <2>1, <1>6, <1>8
  <2>2. CASE i > a
    <3>. DEFINE j == i - a
    <3>1. j \in 1..b /\ j \in 1..(b + c) /\ a + j = i
      BY <2>2, <1>6
    <3>. HIDE DEF j
    <3>. QED
      BY <3>1, <1>9, <1>10
  <2>. QED
    BY <2>1, <2>2, <1>6
<1>13. ASSUME NEW i \in 1..c
       PROVE  all[(a + b) + i] = v[i]
  <2>1. b + i \in 1..(b + c) /\ a + (b + i) = (a + b) + i
    BY <1>6
  <2>. QED
    BY <2>1, <1>9, <1>11
<1>. QED
  BY SMTT(20), <1>1, <1>5, <1>6, <1>7, <1>12, <1>13 DEF Joins

LEMMA DeliverKeeps == ASSUME CloudInv, NEW k \in 1..MaxChunk, Deliver(k) PROVE CloudInv'
<1>1. PICK taken : taken = Feed([i \in 1..k |-> TokenAt(link.from, link.read + i)])
  OBVIOUS
<1>2. /\ worker = "streaming"
      /\ decoder' = taken.dec /\ newestId' = NewestIdOf(taken)
      /\ gotEvent' = (gotEvent \/ taken.events # <<>>)
      /\ channel' = channel \o [i \in DOMAIN taken.events |-> taken.events[i].data]
      /\ barren' = IF taken.events # <<>> THEN 0 ELSE barren
      /\ link' = [link EXCEPT !.read = @ + k]
      /\ UNCHANGED <<ending, numbering, head, worker, attempt, lastEventId, polled, surfaced, cuts>>
  BY <1>1 DEF Deliver
<1>3. CloudShape /\ GapFree(Received) /\ ~surfaced /\ k \in Nat /\ (gotEvent \/ attempt <= barren)
  BY <1>2, CloudAssumption DEF CloudInv
<1>4. PICK f0, r0 : StreamsAt(f0, r0)
  BY <1>2 DEF CloudInv
<1>5. PICK from, n0 : from = link.from /\ n0 = link.read
  OBVIOUS
<1>6. /\ Reads(decoder, from, f0, r0, n0) /\ gotEvent = (f0 > 0) /\ Follows(Received, from, f0, newestId)
      /\ from \in Nat \ {0} /\ f0 \in Nat /\ n0 \in Nat
  BY <1>4, <1>5 DEF StreamsAt, Reads, Stands
<1>7. PICK f, r : Turned(taken, from, f0, f, r, n0 + k) /\ ~IsDue(f, r, n0 + k)
  <2>1. taken = Feed(Chunk(from, n0, k))
    BY <1>1, <1>5 DEF Chunk
  <2>2. \E f, r : Turned(Feed(Chunk(from, n0, k)), from, f0, f, r, n0 + k) /\ ~IsDue(f, r, n0 + k)
    BY <1>3, <1>6, FeedIs, Zenon
  <2>. QED
    BY <2>1, <2>2
<1>8. Reads(taken.dec, from, f, r, n0 + k) /\ Handed(taken.events, from, f0, f) /\ f \in Nat /\ f0 <= f
  BY <1>7 DEF Turned, Reads, Stands
<1>9. link' = [from |-> from, read |-> n0 + k] /\ link'.from = from /\ link'.read = n0 + k
  BY <1>2, <1>3, <1>5 DEF CloudShape
<1>10. PICK run : run = [i \in DOMAIN taken.events |-> taken.events[i].data]
  OBVIOUS
<1>11. /\ run \in Seq(Nat) /\ Len(run) = f - f0
       /\ \A j \in 1..(f - f0) : run[j] = (from + f0 + j) - 1
       /\ (taken.events # <<>>) = (f > f0)
  <2>1. PICK events, m : events = taken.events /\ m = f - f0
    OBVIOUS
  <2>2. m \in Nat /\ (f > f0) = (m > 0)
    BY <1>6, <1>8, <2>1
  <2>3. events \in Seq([data : Nat, id : Nat]) /\ Len(events) = m /\ \A j \in 1..m : events[j].data = (from + f0 + j) - 1
    BY <1>8, <2>1 DEF Handed
  <2>4. DOMAIN events = 1..m /\ \A j \in 1..m : events[j].data \in Nat
    <3>1. PICK Event : Event = [data : Nat, id : Nat]
      OBVIOUS
    <3>2. events \in Seq(Event) /\ Len(events) = m
      BY <2>3, <3>1
    <3>3. DOMAIN events = 1..m /\ \A j \in 1..m : events[j] \in Event
      BY <2>2, <3>2
    <3>. QED
      BY <3>1, <3>3
  <2>5. run \in [1..m -> Nat] /\ \A j \in 1..m : run[j] = events[j].data
    BY <1>10, <2>1, <2>4
  <2>6. run \in Seq(Nat) /\ Len(run) = m
    BY <2>2, <2>5, AsSequence
  <2>7. (events # <<>>) = (m > 0)
    BY <2>2, <2>3
  <2>. QED
    BY <2>1, <2>2, <2>3, <2>5, <2>6, <2>7
<1>12. PICK all, more : all = Received /\ more = Received'
  OBVIOUS
<1>13. all \in Seq(Nat) /\ Joins(more, all, run, Nat)
  <2>1. all = polled \o channel /\ more = polled \o (channel \o run)
    BY <1>2, <1>10, <1>12 DEF Received
  <2>2. polled \in Seq(Nat) /\ channel \in Seq(Nat)
    BY <1>3 DEF CloudShape
  <2>3. all \in Seq(Nat)
    BY <2>1, <2>2
  <2>4. Joins(polled \o (channel \o run), polled \o channel, run, Nat)
    BY <2>2, <1>11, JoinThree
  <2>. QED
    BY <2>1, <2>3, <2>4
<1>14. PICK id : id = NewestIdOf(taken)
  OBVIOUS
<1>15. NewestAfter(id, from, f0, f)
  <2>1. newestId \in Nat
    BY <1>3 DEF CloudShape
  <2>. QED
    BY <2>1, <1>6, <1>8, <1>14, NewestIs
<1>16. Follows(more, from, f, id) /\ GapFree(more)
  <2>1. Follows(all, from, f0, newestId) /\ GapFree(all) /\ newestId \in Nat /\ numbering \in {"each", "odd", "none"}
    BY <1>3, <1>6, <1>12 DEF CloudShape
  <2>. QED
    BY <2>1, <1>6, <1>8, <1>11, <1>13, <1>15, ChunkFollows, Zenon
<1>17. StreamsAt(f, r)'
  <2>1. Reads(taken.dec, from, f, r, n0 + k)' /\ ~IsDue(f, r, n0 + k)'
    BY <1>2, <1>7, <1>8, SameServer
  <2>2. Follows(more, from, f, id)'
    BY <1>2, <1>16, SameNumbering
  <2>3. gotEvent' = (f > 0)
    <3>1. (gotEvent <=> f0 > 0) /\ (taken.events # <<>> <=> f > f0)
      BY <1>6, <1>11
    <3>2. (f0 > 0 \/ f > f0) <=> f > 0
      BY <1>6, <1>8
    <3>3. (gotEvent \/ taken.events # <<>>) <=> f > 0
      BY <3>1, <3>2, Zenon
    <3>. QED
      BY <1>2, <3>3
  <2>4. decoder' = taken.dec /\ newestId' = id /\ Received' = more
    BY <1>2, <1>12, <1>14
  <2>. QED
    BY <1>9, <2>1, <2>2, <2>3, <2>4 DEF StreamsAt
<1>18. GapFree(Received)'
  BY <1>2, <1>12, <1>16, SameNumbering
<1>19. CloudShape'
  <2>1. newestId' \in Nat
    BY <1>2, <1>14, <1>15 DEF NewestAfter
  <2>2. channel' \in Seq(Nat)
    BY <1>2, <1>3, <1>10, <1>11 DEF CloudShape
  <2>3. barren' \in Nat /\ gotEvent' \in BOOLEAN
    BY <1>2, <1>3 DEF CloudShape
  <2>4. link' \in [from : Nat \ {0}, read : Nat]
    BY <1>3, <1>6, <1>9
  <2>. QED
    BY <1>2, <1>3, <2>1, <2>2, <2>3, <2>4 DEF CloudShape
<1>20. gotEvent' \/ attempt' <= barren'
  BY <1>2, <1>3
<1>. QED
  BY <1>2, <1>3, <1>17, <1>18, <1>19, <1>20 DEF CloudInv

LEMMA CutKeeps == ASSUME CloudInv, Cut PROVE CloudInv'
<1>1. /\ worker = "streaming" /\ worker' = "dialling" /\ attempt' = (IF gotEvent THEN 0 ELSE attempt)
      /\ lastEventId' = (IF newestId # NoId THEN newestId ELSE lastEventId)
      /\ UNCHANGED <<ending, numbering, head, link, decoder, newestId, gotEvent, channel, polled, surfaced, barren>>
  BY DEF Cut, AttemptAfter
<1>2. CloudShape /\ GapFree(Received) /\ ~surfaced /\ (gotEvent \/ attempt <= barren)
  BY <1>1 DEF CloudInv
<1>3. PICK f, r : StreamsAt(f, r)
  BY <1>1 DEF CloudInv
<1>4. PICK all, n, id, from : all = Received /\ n = Len(all) /\ id = lastEventId' /\ from = link.from
  OBVIOUS
<1>5. Received' = all /\ all \in Seq(Nat) /\ n \in Nat /\ (all # <<>> => 1 \in DOMAIN all /\ all[n] \in Nat)
  BY SMTT(20), <1>1, <1>2, <1>4 DEF Received, CloudShape
<1>6. Follows(all, from, f, newestId) /\ from \in Nat /\ f \in Nat
  BY <1>3, <1>4 DEF StreamsAt, Reads, Stands
<1>7. Resumes(all, id)
  <2>1. HeardIn(all) => all # <<>>
    BY <1>5 DEF HeardIn
  <2>2. numbering = "each" /\ all # <<>> => HeardIn(all)
    BY <1>5 DEF HeardIn, Numbered
  <2>3. HeardIn(all) => id = newestId /\ newestId # NoId
    BY <1>1, <1>4, <1>6 DEF Follows
  <2>4. HeardIn(all) => newestId <= all[n]
    BY <1>4, <1>5, <1>6, <2>1 DEF Follows
  <2>. QED
    BY <1>4, <1>6, <2>2, <2>3, <2>4 DEF Resumes, Follows
<1>8. Resumes(Received, lastEventId)' /\ GapFree(Received)'
  BY <1>1, <1>2, <1>4, <1>5, <1>7, SameNumbering
<1>9. CloudShape'
  BY <1>1, <1>2 DEF CloudShape
<1>10. attempt' <= barren'
  BY <1>1, <1>2 DEF CloudShape
<1>. QED
  BY <1>1, <1>2, <1>8, <1>9, <1>10 DEF CloudInv

\* What leaves the connection and the events as they are.
LEMMA OthersKeep ==
    ASSUME CloudInv, Publish \/ GiveUp \/ Refused \/ Shutdown \/ PollStream \/ UNCHANGED cloudVars
    PROVE  CloudInv'
<1>1. /\ UNCHANGED <<ending, numbering, link, decoder, lastEventId, newestId, gotEvent>>
      /\ worker' \in {worker, "ended"}
  BY DEF Publish, GiveUp, Refused, Shutdown, PollStream, cloudVars
<1>2. Received' = Received /\ channel' \in Seq(Nat) /\ polled' \in Seq(Nat)
  <2>1. channel \in Seq(Nat) /\ polled \in Seq(Nat)
    BY DEF CloudInv, CloudShape
  <2>2. CASE PollStream
    <3>1. CASE PollFails
      BY <2>1, <2>2, <3>1 DEF PollStream, Received
    <3>2. CASE ~PollFails
      <4>1. PICK all : all = polled \o channel
        OBVIOUS
      <4>2. all \in Seq(Nat)
        BY <2>1, <4>1
      <4>3. all \o <<>> = all
        BY <4>2
      <4>4. polled' = all /\ channel' = <<>>
        BY <2>2, <3>2, <4>1 DEF PollStream
      <4>. QED
        BY <4>1, <4>2, <4>3, <4>4 DEF Received
    <3>. QED
      BY <3>1, <3>2
  <2>3. CASE ~PollStream
    BY <2>1, <2>3 DEF Publish, GiveUp, Refused, Shutdown, cloudVars, Received
  <2>. QED
    BY <2>2, <2>3
<1>3. CloudShape'
  BY <1>1, <1>2 DEF CloudInv, CloudShape, Publish, GiveUp, Refused, Shutdown, PollStream, cloudVars
<1>4. GapFree(Received)' /\ (Resumes(Received, lastEventId) => Resumes(Received, lastEventId)')
  BY <1>1, <1>2, SameNumbering DEF CloudInv
<1>5. (\E f, r : StreamsAt(f, r)) => (\E f, r : StreamsAt(f, r)')
  BY <1>1, <1>2, ConnectionStands
<1>6. attempt <= barren => attempt' <= barren'
  BY DEF CloudInv, CloudShape, Publish, GiveUp, Refused, Shutdown, PollStream, cloudVars
<1>7. surfaced' => worker' = "ended" /\ channel' = <<>>
  BY DEF CloudInv, Publish, GiveUp, Refused, Shutdown, PollStream, PollFails, cloudVars
<1>. QED
  BY <1>1, <1>3, <1>4, <1>5, <1>6, <1>7 DEF CloudInv

LEMMA CloudKeeps == CloudInv /\ [CloudNext]_cloudVars => CloudInv'
<1>1. SUFFICES ASSUME CloudInv, [CloudNext]_cloudVars PROVE CloudInv'
  OBVIOUS
<1>2. CASE Publish \/ GiveUp \/ Refused \/ Shutdown \/ PollStream \/ UNCHANGED cloudVars
  BY <1>1, <1>2, OthersKeep
<1>3. CASE Connect
  BY <1>1, <1>3, ConnectKeeps
<1>4. CASE Cut
  BY <1>1, <1>4, CutKeeps
<1>5. ASSUME NEW k \in 1..MaxChunk, Deliver(k)
      PROVE  CloudInv'
  BY <1>1, <1>5, DeliverKeeps
<1>. QED
  BY <1>1, <1>2, <1>3, <1>4, <1>5 DEF CloudNext

LEMMA CloudIsFaithful == CloudInv => StreamIsFaithful
<1>1. SUFFICES ASSUME CloudInv PROVE StreamIsFaithful
  OBVIOUS
<1>2. NoGap
  BY <1>1 DEF CloudInv, GapFree, NoGap
<1>3. ErrorComesLast
  BY <1>1 DEF CloudInv, ErrorComesLast
<1>4. OnlyBarrenGivesUp
  BY <1>1, CloudAssumption DEF CloudInv, CloudShape, OnlyBarrenGivesUp
<1>5. ChunkingIsInvisible
  <2>1. SUFFICES ASSUME worker = "streaming" PROVE ChunkingIsInvisible
    BY DEF ChunkingIsInvisible
  <2>2. PICK f, r : StreamsAt(f, r)
    BY <1>1, <2>1 DEF CloudInv
  <2>3. PICK all, from, n, known : all = Received /\ from = link.from /\ n = link.read /\ known = Known(n)
    OBVIOUS
  <2>4. /\ Stands(from, f, r, n) /\ f \in Nat /\ n \in Nat /\ from \in Nat
        /\ FrameLength * f + r <= known /\ ~(FrameLength * f + NextLine(r) <= known)
        /\ gotEvent = (f > 0) /\ Follows(all, from, f, newestId)
    BY <2>2, <2>3 DEF StreamsAt, Reads, Stands, IsDue
  <2>5. known \in Nat /\ known = IF ending = "cr" /\ link.read > 0 THEN link.read - 1 ELSE link.read
    BY <2>3, <2>4 DEF Known
  <2>6. known \div FrameLength = f
    <3>1. Sized(f, r)
      BY <2>4, SizesAre, Zenon
    <3>2. FrameLength \in {5, 8} /\ r \in Nat /\ NextLine(r) \in Nat /\ NextLine(r) <= FrameLength
      BY <3>1 DEF Sized
    <3>3. PICK due : due = NextLine(r)
      OBVIOUS
    <3>4. CASE FrameLength = 5
      <4>1. 5 * f + r <= known /\ ~(5 * f + due <= known) /\ due <= 5 /\ due \in Nat
        BY <2>4, <3>2, <3>3, <3>4
      <4>. QED
        BY <4>1, <2>4, <2>5, <3>2, <3>4
    <3>5. CASE FrameLength = 8
      <4>1. 8 * f + r <= known /\ ~(8 * f + due <= known) /\ due <= 8 /\ due \in Nat
        BY <2>4, <3>2, <3>3, <3>5
      <4>. QED
        BY <4>1, <2>4, <2>5, <3>2, <3>5
    <3>. QED
      BY <3>2, <3>4, <3>5
  <2>7. all \in Seq(Nat) /\ f <= Len(all) /\ \A i \in 1..f : all[(Len(all) - f) + i] = (from + i) - 1
    <3>1. polled \in Seq(Nat) /\ channel \in Seq(Nat)
      BY <1>1 DEF CloudInv, CloudShape
    <3>2. all \in Seq(Nat)
      BY <2>3, <3>1 DEF Received
    <3>. QED
      BY <2>4, <3>2 DEF Follows
  <2>8. SubSeq(all, Len(all) - f + 1, Len(all)) = [i \in 1..f |-> from + i - 1]
    <3>1. PICK m, tail : m = Len(all) - f /\ tail = SubSeq(all, m + 1, Len(all))
      OBVIOUS
    <3>2. m \in Nat /\ Len(all) = m + f /\ m + 1 \in Nat /\ Len(all) \in Nat
      BY <2>4, <2>7, <3>1
    <3>3. Len(tail) = f /\ \A i \in 1..f : tail[i] = all[m + i]
      <4>1. tail = SubSeq(all, m + 1, m + f)
        BY <3>1, <3>2
      <4>2. all \in Seq(Nat) /\ f \in Nat /\ m + 1 \in Nat /\ m + f <= Len(all)
        BY <2>4, <2>7, <3>2
      <4>3. tail = [i \in 1..f |-> all[m + i]]
        BY <4>1, <4>2, <3>2
      <4>. QED
        BY <4>2, <4>3
    <3>4. tail = [i \in 1..f |-> tail[i]]
      <4>1. tail = SubSeq(all, m + 1, m + f)
        BY <3>1, <3>2
      <4>2. all \in Seq(Nat) /\ f \in Nat /\ m + 1 \in Nat /\ m + f <= Len(all)
        BY <2>4, <2>7, <3>2
      <4>3. tail = [i \in 1..f |-> all[m + i]]
        BY <4>1, <4>2, <3>2
      <4>. QED
        BY <4>3
    <3>5. \A i \in 1..f : tail[i] = (from + i) - 1
      BY <3>1, <3>3, <2>7
    <3>6. tail = [i \in 1..f |-> from + i - 1]
      <4>1. \A i \in 1..f : from + i - 1 = (from + i) - 1
        BY <2>4
      <4>. QED
        BY <3>4, <3>5, <4>1
    <3>7. SubSeq(all, (Len(all) - f) + 1, Len(all)) = tail
      BY <3>1
    <3>. QED
      BY <3>6, <3>7
  <2>. QED
    BY <2>3, <2>4, <2>5, <2>6, <2>7, <2>8 DEF ChunkingIsInvisible
<1>. QED
  BY <1>2, <1>3, <1>4, <1>5 DEF StreamIsFaithful

\* Whatever the chunks, the drops and the reconnections, the Cloud's stream is handed over as it
\* was sent: the frames that came and no others, no gap from the first event with an id on, the
\* error after everything decoded, and no giving up while the connections bring events.
THEOREM StreamIsFaithfulHolds == CloudSpec => []StreamIsFaithful
<1>1. CloudInit => CloudInv
  BY CloudStarts
<1>2. CloudInv /\ [CloudNext]_cloudVars => CloudInv'
  BY CloudKeeps
<1>3. CloudInv => StreamIsFaithful
  BY CloudIsFaithful
<1>. QED
  BY <1>1, <1>2, <1>3, PTL DEF CloudSpec
=============================================================================
