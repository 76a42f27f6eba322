------------------------------ MODULE AgentStop ------------------------------
(***************************************************************************)
(* Stopping an agent, letting it back and revoking what it holds:           *)
(* agent_stop and agent_lift (crates/api/src/delegation/stop.rs),           *)
(* delegation_revoke (crates/api/src/delegation/commands.rs).               *)
(*                                                                          *)
(* Actors: the operators' calls, interleaved at every request; vouchryx,    *)
(* which issues tokens and keeps bans, may keep no store, may be older than *)
(* bans and may be restarted; the Cloud, which lists and kills runs; the    *)
(* doors that poll the revocation list; the agents, which open runs while a *)
(* door lets them in.  A request may fail before or after it took effect.   *)
(* Each step is also a line of the console's chain (ConsoleChain).          *)
(* vouchryx, the Cloud and the doors are outside the repository and are     *)
(* modelled from how stop.rs reads their answers.                           *)
(*                                                                          *)
(* A definition marked Mutant is a wrong form of the one after it; no       *)
(* action uses it.                                                          *)
(***************************************************************************)
EXTENDS Integers, FiniteSets

CONSTANTS
    Stoppable,   \* the agents that may be stopped
    Run, RunOf,  \* bound: the runs that may be opened, and whose they are
    Stopper,     \* bound: the calls that may be made
    Limit,       \* MAX_RUNS_PER_STOP
    MaxOutages,  \* bound: requests that fail
    MaxVouchryx  \* bound: restarts of vouchryx

\* There is somebody to stop, and the Cloud lists finitely many runs.
ASSUME StopsAssumption == Stoppable # {} /\ IsFiniteSet(Run)

VARIABLES
    issuer,    \* what vouchryx is: "stored", "storeless" or "old" (never changes)
    banned,    \* vouchryx: "no", "memory" or "durable" for each agent
    revoked,   \* vouchryx: the agents whose tokens are on the revocation list
    door,      \* the agents a door lets in
    runs,      \* the Cloud: "none", "open" or "killed" for each run
    stop,      \* what each call has found out so far
    at,        \* where it is
    early,     \* history: the runs open when the call's ban was confirmed
    lifts,     \* history: the agents a lift was begun for, per stop since its ban
    outages, reboots   \* counters for the bounds

services == <<issuer, banned, revoked, door, runs>>
work     == <<stop, at, early, lifts>>
limits   == <<outages, reboots>>
stopVars == <<services, work, limits>>

Kind   == {"stop", "lift", "revoke"}
Unused == [kind |-> "stop", agent |-> CHOOSE a \in Stoppable : TRUE, ban |-> "none",
           open |-> {}, listed |-> FALSE, left |-> {}, killed |-> {}, clean |-> TRUE]
StopState == [kind : Kind, agent : Stoppable, ban : {"none", "failed", "memory", "durable"},
              open : SUBSET Run, listed : BOOLEAN, left : SUBSET Run, killed : SUBSET Run,
              clean : BOOLEAN]

StopsInit ==
    /\ issuer \in {"stored", "storeless", "old"}
    /\ banned = [a \in Stoppable |-> "no"] /\ revoked = {} /\ door = Stoppable
    /\ runs = [r \in Run |-> "none"]
    /\ stop = [c \in Stopper |-> Unused] /\ at = [c \in Stopper |-> "idle"]
    /\ early = [c \in Stopper |-> {}] /\ lifts = [c \in Stopper |-> FALSE]
    /\ outages = 0 /\ reboots = 0

OpenRuns(a) == {r \in Run : RunOf[r] = a /\ runs[r] = "open"}

-----------------------------------------------------------------------------
(***************************************************************************)
(* Outside the console.                                                     *)
(***************************************************************************)
RunOpens(r) ==
    /\ runs[r] = "none" /\ RunOf[r] \in door
    /\ runs' = [runs EXCEPT ![r] = "open"]
    /\ UNCHANGED <<issuer, banned, revoked, door, work, limits>>

\* A door fetches the list: a ban is on it like a revocation.
DoorPolls(a) ==
    /\ a \in door /\ (a \in revoked \/ banned[a] # "no")
    /\ door' = door \ {a}
    /\ UNCHANGED <<issuer, banned, revoked, runs, work, limits>>

\* An agent that is not banned is issued a new token.
Reissue(a) ==
    /\ banned[a] = "no" /\ a \in revoked
    /\ revoked' = revoked \ {a} /\ door' = door \cup {a}
    /\ UNCHANGED <<issuer, banned, runs, work, limits>>

\* vouchryx restarts and keeps what its store holds.
VouchryxRestarts ==
    /\ reboots < MaxVouchryx /\ reboots' = reboots + 1
    /\ \E a \in Stoppable : banned[a] = "memory"
    /\ banned' = [a \in Stoppable |-> IF banned[a] = "memory" THEN "no" ELSE banned[a]]
    /\ UNCHANGED <<issuer, revoked, door, runs, work, outages>>

-----------------------------------------------------------------------------
(***************************************************************************)
(* The calls.                                                               *)
(***************************************************************************)
\* Steps.record: a step that failed marks the call.
Note(c, ok) == [stop EXCEPT ![c].clean = @ /\ ok]

Goto(c, from, to) == at[c] = from /\ at' = [at EXCEPT ![c] = to]
Fault == outages < MaxOutages /\ outages' = outages + 1

\* validate has passed; the ceremony the router ran is the first line.
Begin(c, kind, a) ==
    /\ Goto(c, "idle", kind)
    /\ stop' = [stop EXCEPT ![c].kind = kind, ![c].agent = a]
    /\ lifts' = IF kind # "lift" THEN lifts
                ELSE [d \in Stopper |-> lifts[d] \/ (stop[d].kind = "stop" /\ stop[d].agent = a)]
    /\ UNCHANGED <<services, early, limits>>

\* What vouchryx does with a ban and says about it: a pair of the state it
\* leaves the agent's ban in and the answer.
BanAnswers(a) ==
    CASE issuer = "stored"    -> {<<"durable", "durable">>}
      [] issuer = "storeless" -> {<<IF banned[a] = "durable" THEN "durable" ELSE "memory", "memory">>}
      [] issuer = "old"       -> {<<banned[a], "revoked_not_banned">>}
\* A 503 (kept in memory, or list full), a refusal, or no answer to a request
\* that may have been carried out.
BanFailures(a) ==
    {<<banned[a], "failed">>}
    \cup {<<IF banned[a] = "no" THEN "memory" ELSE banned[a], "failed">> : s \in {issuer} \ {"old"}}
    \cup {<<s[1], "failed">> : s \in BanAnswers(a)}

\* Mutant: any 200 that says revoked counts as a ban.
ConfirmedRevoke(answer) == IF answer = "revoked_not_banned" THEN "memory" ELSE answer

\* Mutant: a confirmed ban is taken to be durable.
ConfirmedDurable(answer) == IF answer \in {"memory", "durable"} THEN "durable" ELSE "failed"

\* ban_at_vouchryx: only revoked and banned together are a ban.
Confirmed(answer) == IF answer \in {"memory", "durable"} THEN answer ELSE "failed"

Ban(c) ==
    LET a == stop[c].agent
    IN  /\ Goto(c, "stop", "list")
        /\ \E s \in BanAnswers(a) \cup BanFailures(a) :
              /\ IF s \in BanAnswers(a) THEN UNCHANGED outages ELSE Fault
              /\ banned' = [banned EXCEPT ![a] = s[1]]
              /\ revoked' \in IF s[2] = "failed" THEN {revoked, revoked \cup {a}}
                              ELSE {revoked \cup {a}}
              /\ stop' = [Note(c, Confirmed(s[2]) # "failed") EXCEPT ![c].ban = Confirmed(s[2])]
              /\ early' = [early EXCEPT ![c] = OpenRuns(a)]
        /\ lifts' = [lifts EXCEPT ![c] = \E d \in Stopper :
                        stop[d].kind = "lift" /\ stop[d].agent = a /\ at[d] = "lift"]
        /\ UNCHANGED <<issuer, door, runs, reboots>>

\* The Cloud's runs, filtered to the agent's open ones; at most Limit of them,
\* the newest first, are to be killed.
ListRuns(c) ==
    LET open == OpenRuns(stop[c].agent)
    IN  /\ at[c] = "list"
        /\ \E left \in SUBSET open :
              /\ Cardinality(left) = IF Cardinality(open) > Limit THEN Limit ELSE Cardinality(open)
              /\ stop' = [stop EXCEPT ![c].open = open, ![c].listed = TRUE, ![c].left = left]
              /\ at' = [at EXCEPT ![c] = IF left = {} THEN "verdict" ELSE "kill"]
        /\ UNCHANGED <<services, early, lifts, limits>>

\* No Cloud client, or the list is refused.
ListRunsFails(c) ==
    /\ Goto(c, "list", "verdict") /\ Fault
    /\ stop' = Note(c, FALSE)
    /\ UNCHANGED <<services, early, lifts, reboots>>

\* One kill: confirmed with the run's own id, or not.
KillRun(c, r) ==
    /\ at[c] = "kill" /\ r \in stop[c].left
    /\ \E ok \in BOOLEAN :
          /\ IF ok THEN UNCHANGED outages ELSE Fault
          /\ runs' \in {[runs EXCEPT ![r] = "killed"]} \cup (IF ok THEN {} ELSE {runs})
          /\ stop' = [Note(c, ok) EXCEPT ![c].left = @ \ {r},
                                         ![c].killed = IF ok THEN @ \cup {r} ELSE @]
    /\ at' = [at EXCEPT ![c] = IF stop'[c].left = {} THEN "verdict" ELSE "kill"]
    /\ UNCHANGED <<issuer, banned, revoked, door, early, lifts, reboots>>

\* Mutant: the verdict looks for a failed kill instead of counting the ones done.
StoppedNoFailure(s) == s.ban \in {"memory", "durable"} /\ s.listed /\ s.left = {}

\* ban.ok and open_runs = Some(runs_killed).
Stopped(s) ==
    /\ s.ban \in {"memory", "durable"}
    /\ s.listed /\ Cardinality(s.killed) = Cardinality(s.open)

Verdict(c) ==
    /\ Goto(c, "verdict", IF Stopped(stop[c]) THEN "stopped" ELSE "refused")
    /\ UNCHANGED <<services, stop, early, lifts, limits>>

\* agent_lift reports what vouchryx confirmed.
LiftVerdict(ok) == IF ok THEN "lifted" ELSE "refused"

\* lift_at_vouchryx: a confirmed lift, a 503 that may have lifted in memory, a
\* refusal or no answer.  A vouchryx older than bans has no such route.
Lift(c) ==
    LET a == stop[c].agent
    IN  /\ \E ok \in BOOLEAN :
              /\ Goto(c, "lift", LiftVerdict(ok))
              /\ IF ok THEN issuer # "old" /\ UNCHANGED outages ELSE Fault
              /\ banned' \in {[banned EXCEPT ![a] = "no"]} \cup (IF ok THEN {} ELSE {banned})
              /\ stop' = Note(c, ok)
        /\ UNCHANGED <<issuer, revoked, door, runs, early, lifts, reboots>>

\* delegation_revoke by subject: a 200 that confirms, or anything else.
Revoke(c) ==
    LET a == stop[c].agent
    IN  /\ \E ok \in BOOLEAN :
              /\ Goto(c, "revoke", IF ok THEN "revoked" ELSE "refused")
              /\ IF ok THEN UNCHANGED outages ELSE Fault
              /\ revoked' \in {revoked \cup {a}} \cup (IF ok THEN {} ELSE {revoked})
              /\ stop' = Note(c, ok)
        /\ UNCHANGED <<issuer, banned, door, runs, early, lifts, reboots>>

StopCallStep(c) ==
    \/ Ban(c) \/ ListRuns(c) \/ ListRunsFails(c) \/ Verdict(c)
    \/ \E r \in Run : KillRun(c, r)
    \/ Lift(c) \/ Revoke(c)

StopsNext ==
    \/ \E r \in Run : RunOpens(r)
    \/ \E a \in Stoppable : DoorPolls(a) \/ Reissue(a)
    \/ VouchryxRestarts
    \/ \E c \in Stopper, k \in Kind, a \in Stoppable : Begin(c, k, a)
    \/ \E c \in Stopper : StopCallStep(c)

StopsSpec == StopsInit /\ [][StopsNext]_stopVars

\* A handler whose request was answered goes on; doors keep polling.
StopsProgress ==
    \/ \E c \in Stopper : StopCallStep(c)
    \/ \E a \in Stoppable : DoorPolls(a)

FairStopsSpec == StopsSpec /\ WF_stopVars(StopsProgress)

-----------------------------------------------------------------------------
(***************************************************************************)
(* Properties.                                                              *)
(***************************************************************************)
\* Types of the services' state and of the calls.
StopTypeOK ==
    /\ banned \in [Stoppable -> {"no", "memory", "durable"}]
    /\ revoked \subseteq Stoppable /\ door \subseteq Stoppable
    /\ runs \in [Run -> {"none", "open", "killed"}]
    /\ stop \in [Stopper -> StopState]
    /\ at \in [Stopper -> {"idle", "stop", "list", "kill", "verdict", "lift", "revoke",
                           "stopped", "lifted", "revoked", "refused"}]

\* An agent reported as stopped has no run left from before its ban, and no
\* step of the call failed: whatever was open when the ban was confirmed is
\* killed, over the limit or not (stop.rs:11, "an action with a failed step is
\* never reported as a stop").
StoppedLeavesNoOldRun ==
    \A c \in Stopper : at[c] = "stopped" =>
        stop[c].clean /\ \A r \in early[c] : runs[r] = "killed"

\* A stop reported with a durable ban outlives restarts of vouchryx until a lift
\* of that agent is begun; one that was only revoked, or kept in memory, is
\* never reported as durable.
DurableStopHolds ==
    \A c \in Stopper :
        at[c] = "stopped" /\ stop[c].ban = "durable" /\ ~lifts[c] =>
            banned[stop[c].agent] = "durable"

\* An agent reported as stopped is stopped: nothing of it runs on from before, and a ban
\* reported as durable is.
StoppedIsStopped == StoppedLeavesNoOldRun /\ DurableStopHolds

\* A stopped agent runs out of doors: again and again every agent reported as
\* stopped is refused at every door, unless a lift was begun or vouchryx forgot
\* a ban it had only in memory.
StopTakesHold ==
    []<>(\A c \in Stopper : at[c] = "stopped" =>
            \/ lifts[c] \/ stop[c].agent \notin door
            \/ stop[c].ban = "memory" /\ reboots > 0)
=============================================================================
