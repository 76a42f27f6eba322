-------------------------- MODULE OperatorCommands --------------------------
(***************************************************************************)
(* The commands that change another product, from the browser's call to the *)
(* row in the journal: the chokepoint (crates/web/src/main.rs: command;     *)
(* roles.rs), the money, retained, policy, evidence and copilot commands    *)
(* (crates/api/src), and how their clients read an answer                   *)
(* (crates/connectors/src).                                                 *)
(*                                                                          *)
(* Actors: attempts, each one call of one command; the network, which loses *)
(* requests and answers, delivers a request after the console gave up on    *)
(* it, and lets something else answer in the server's place; the servers    *)
(* (external); the death of the console.  Whether the ceremony before a     *)
(* command holds is PasskeyGate's subject, and the bytes of the journal are *)
(* ConsoleChain's; here an attempt was confirmed or not, and a row is       *)
(* written or not.                                                          *)
(*                                                                          *)
(* A definition marked Mutant is a wrong form of the one after it; no       *)
(* action uses it.                                                          *)
(***************************************************************************)
EXTENDS Integers, FiniteSets

CONSTANTS
    Attempt,         \* bound: the calls made
    Offered,         \* bound: the commands they may be of
    Person,          \* the people signed in
    ServiceAccount,  \* the account the console runs as
    Target,          \* runs, units, incidents, reservations, approvals
    TokenTtl,        \* TOKEN_TTL_MILLIS and STATEMENT_LIFETIME_SECS, in ticks
    LastMoment,      \* bound: the clock
    MaxUnwritten,    \* bound: journal writes that fail
    MaxEnds,         \* bound: deaths of the console
    MaxHangUps,      \* bound: browsers that close the connection under a call
    Nil

BreakGlass == {"money_kill_run", "money_set_budget", "money_set_unit_budget"}
Cloud      == BreakGlass \cup {"money_ack_incident"}
Once       == {"money_close_retained", "policy_decide_approval"}
\* These act on the console alone; they are journaled through the Money client.
Local      == {"evidence_build", "copilot_log_proposal_approved"}
Command    == Cloud \cup Once \cup Local

Plane == [c \in Command |-> CASE c = "money_close_retained" -> "gateway"
                              [] c = "policy_decide_approval" -> "wardryx"
                              [] OTHER -> "cloud"]

\* roles.rs: the floor of each command, and the rank of the caller's own role.
RequiredRole == [c \in Command |-> IF c = "policy_decide_approval" THEN 1 ELSE 2]
Role == 0..2

\* What an operator may be told.
Answers == {"done", "refused", "refused_here", "error", "unreachable", "unconfirmed"}

\* No answer is "nothing", and time is counted.
ASSUME CommandsAssumption == Nil \notin Answers /\ TokenTtl \in Nat /\ LastMoment \in Nat

VARIABLES
    moment,     \* the clock
    ready,      \* the planes whose client is up; a plane that is not may come up
    secret,     \* is the closure secret configured
    approver,   \* the approver key: "none", "ready" or "failed"
    call,       \* what each attempt asks for, and who asks
    stage,      \* "new", "flight", "journal" or "over"
    wire,       \* the requests the network still holds
    asked,      \* when each attempt was sent
    expires,    \* when its token or statement stops being valid
    answer,     \* what came back: Nil, "done", "refused", "unconfirmed", ...
    rows,       \* the journal's rows
    taken,      \* servers: which attempt closed or decided a target
    effects,    \* history: the attempts a server acted on, and when
    proxied,    \* history: the attempts a proxy's 5xx answered
    unwritten, ends, cut,  \* failed writes, deaths, and the attempts cut short
    hungUp                 \* history: the calls whose browser went away

config   == <<ready, secret, approver>>
attemptVars == <<call, stage, asked, expires, answer>>
servers  == <<taken, effects>>
history  == <<proxied, unwritten, ends, cut, hungUp>>
commandVars == <<moment, config, attemptVars, wire, rows, servers, history>>

Forever == LastMoment + TokenTtl + 1
\* The arguments of a command, with the fields it does not read fixed.
Call ==
    {r \in [cmd : Command \cap Offered, who : Person, target : Target, justified : BOOLEAN,
            valid : BOOLEAN, confirmed : BOOLEAN] :
        /\ r.cmd \notin BreakGlass => r.justified
        /\ r.cmd \notin {"money_set_unit_budget", "money_close_retained"} => r.valid
        /\ r.confirmed => r.cmd = "policy_decide_approval"}

CommandsInit ==
    /\ moment = 0 /\ ready \in {{}, {"cloud", "gateway", "wardryx"}}
    /\ secret \in BOOLEAN /\ approver \in {"none", "ready", "failed"}
    /\ call = [a \in Attempt |-> Nil] /\ stage = [a \in Attempt |-> "new"]
    /\ asked = [a \in Attempt |-> 0] /\ expires = [a \in Attempt |-> Forever] /\ answer = [a \in Attempt |-> Nil]
    /\ wire = {} /\ rows = {}
    /\ taken = [t \in Target |-> Nil] /\ effects = {}
    /\ proxied = {} /\ unwritten = {} /\ ends = 0 /\ cut = {} /\ hungUp = {}

-----------------------------------------------------------------------------
\* Why a handler stops before it sends anything, or Nil: its checks in its order.
Down(r) == Plane[r.cmd] \notin ready

\* money_kill_run, money_set_budget, money_ack_incident: the reason, then the client.
CloudRefusal(r) ==
    IF r.cmd \in BreakGlass /\ ~r.justified THEN "break_glass_missing_reason"
    ELSE IF r.cmd = "money_set_unit_budget" /\ ~r.valid THEN "invalid_argument"
    ELSE IF Down(r) THEN "not_ready" ELSE Nil

\* validate: the gateway's own rules on the evidence, applied here first.
EvidenceFits(r) == r.valid

\* money_close_retained: the evidence, the secret, the gateway.
ClosureRefusal(r) ==
    IF ~EvidenceFits(r) THEN "invalid_args"
    ELSE IF ~secret THEN "not_configured"
    ELSE IF Down(r) THEN "not_ready" ELSE Nil

\* statement_for: a key that cannot be used refuses, and a usable one signs only
\* what a passkey confirmed.
StatementRefusal(r) ==
    CASE approver = "failed" -> "key_unusable"
      [] approver = "ready" /\ ~r.confirmed -> "no_passkey"
      [] OTHER -> Nil

\* policy_decide_approval: the client, then the statement.
DecisionRefusal(r) == IF Down(r) THEN "not_ready" ELSE StatementRefusal(r)

Refusal(r) ==
    CASE r.cmd \in Cloud -> CloudRefusal(r)
      [] r.cmd = "money_close_retained" -> ClosureRefusal(r)
      [] r.cmd = "policy_decide_approval" -> DecisionRefusal(r)
      [] r.cmd \in Local -> Nil

\* Which of those refusals leave a row: closing journals every attempt, a
\* decision the ones its statement refused.
JournalsRefusal(r) ==
    \/ r.cmd = "money_close_retained"
    \/ r.cmd = "policy_decide_approval" /\ Plane[r.cmd] \in ready

\* Mutant: the token is minted for the longest lifetime a server accepts.
ExpiryLongest(r) == moment + TokenTtl + 1

\* expiry_for and statement_for: only these two carry a time limit, and a
\* decision only when a statement was made.
Expiry(r) ==
    IF r.cmd = "money_close_retained" \/ (r.cmd = "policy_decide_approval" /\ approver = "ready")
    THEN moment + TokenTtl ELSE Forever

\* The role gate refuses; nothing is dispatched and nothing journaled.
RoleRefused(a, c, role) ==
    /\ stage[a] = "new" /\ role < RequiredRole[c]
    /\ stage' = [stage EXCEPT ![a] = "over"]
    /\ answer' = [answer EXCEPT ![a] = "refused_here"]
    /\ UNCHANGED <<moment, config, call, asked, expires, wire, rows, servers, history>>

\* The command runs up to its request, or to the refusal it journals or not.
Dispatch(a, r, role) ==
    /\ stage[a] = "new" /\ role >= RequiredRole[r.cmd]
    /\ call' = [call EXCEPT ![a] = r]
    /\ LET refused == Refusal(r) # Nil
           local   == r.cmd \in Local
           unpaired == local /\ Plane[r.cmd] \notin ready
       IN  /\ stage' = [stage EXCEPT ![a] =
                  IF unpaired \/ (refused /\ ~JournalsRefusal(r)) THEN "over"
                  ELSE IF refused \/ local THEN "journal" ELSE "flight"]
           /\ answer' = [answer EXCEPT ![a] =
                  IF refused THEN "refused_here" ELSE IF local THEN "done" ELSE Nil]
           /\ wire' = IF refused \/ local THEN wire ELSE wire \cup {a}
           /\ expires' = IF refused \/ local THEN expires ELSE [expires EXCEPT ![a] = Expiry(r)]
           /\ asked' = [asked EXCEPT ![a] = moment]
           /\ effects' = IF local THEN effects \cup {[by |-> a, at |-> moment]} ELSE effects
           /\ unwritten' = IF unpaired THEN unwritten \cup {a} ELSE unwritten
    /\ UNCHANGED <<moment, config, rows, taken, proxied, ends, cut, hungUp>>

-----------------------------------------------------------------------------
(***************************************************************************)
(* The network and the servers (external).                                  *)
(***************************************************************************)
\* A server acts on a request once: the gateway and wardryx check the token or
\* statement and settle a target once; the Cloud may refuse for its own reasons.
Acceptable(a) ==
    /\ moment <= expires[a]
    /\ call[a].cmd \in Once => taken[call[a].target] = Nil

\* Mutant: any 2xx is a success.
ReadsTrusting(r, what) ==
    CASE what \in {"accepted", "page"} -> "done"
      [] what = "refused" -> "refused"
      [] what = "proxy"   -> "error"
      [] what = "silence" -> "unreachable"

\* Mutant: no answer is taken for a refusal.
ReadsSilence(r, what) ==
    CASE what = "accepted" -> "done"
      [] what \in {"refused", "silence"} -> "refused"
      [] what \in {"page", "proxy"} -> "error"

\* What the clients make of what comes back: the server's own answer
\* ("accepted", "refused"), a 200 page from something else, a proxy's 5xx, or
\* nothing.  CloudClient: a body that is not the typed answer is an error, and
\* so is any status but the ones classify_error names.
CloudReads(what) ==
    CASE what = "accepted" -> "done" [] what = "refused" -> "refused"
      [] what \in {"page", "proxy"} -> "error" [] what = "silence" -> "unreachable"

\* close_retained reads a 2xx it cannot parse as an empty answer and looks for
\* closed:true in it; every other status is a refusal.
ClosureReads(what) ==
    CASE what = "accepted" -> "done" [] what = "page" -> "unconfirmed"
      [] what \in {"refused", "proxy"} -> "refused" [] what = "silence" -> "unreachable"

\* WardryxClient: 403, 404 and 409 are named refusals, anything else is an error
\* with its status; describe_decision_result takes the typed answer as the verdict.
DecisionReads(what) ==
    CASE what = "accepted" -> "done" [] what = "refused" -> "refused"
      [] what \in {"page", "proxy"} -> "error" [] what = "silence" -> "unreachable"

Reads(r, what) ==
    CASE r.cmd \in Cloud -> CloudReads(what)
      [] r.cmd = "money_close_retained" -> ClosureReads(what)
      [] r.cmd = "policy_decide_approval" -> DecisionReads(what)

Read(a, what) ==
    /\ stage[a] = "flight"
    /\ stage' = [stage EXCEPT ![a] = "journal"]
    /\ answer' = [answer EXCEPT ![a] = Reads(call[a], what)]

\* The request arrives; the answer reaches the console if it still waits.
Arrives(a, ok) ==
    /\ a \in wire /\ (ok => Acceptable(a)) /\ (~ok /\ Acceptable(a) => call[a].cmd \in Cloud)
    /\ wire' = wire \ {a}
    /\ effects' = IF ok THEN effects \cup {[by |-> a, at |-> moment]} ELSE effects
    /\ taken' = IF ok /\ call[a].cmd \in Once THEN [taken EXCEPT ![call[a].target] = a] ELSE taken
    /\ UNCHANGED <<stage, answer>> \/ Read(a, IF ok THEN "accepted" ELSE "refused")
    /\ UNCHANGED <<moment, config, call, asked, expires, rows, history>>

\* Something else answers in the server's place.
Stray(a, what) ==
    /\ Read(a, what)
    /\ proxied' = IF what = "proxy" THEN proxied \cup {a} ELSE proxied
    /\ UNCHANGED <<moment, config, call, asked, expires, wire, rows, servers, unwritten, ends, cut, hungUp>>

\* The connection fails or times out; the request may arrive all the same, later.
Unreachable(a) ==
    /\ Read(a, "silence")
    /\ UNCHANGED <<moment, config, call, asked, expires, wire, rows, servers, history>>

-----------------------------------------------------------------------------
\* operator_or: the signed-in person; the evidence and copilot journals name the
\* Money client's own default instead.
Operator(r) == IF r.cmd \in Local THEN ServiceAccount ELSE r.who

\* Mutant: only a success is journaled.
FinishOnSuccess(a) ==
    /\ stage[a] = "journal"
    /\ stage' = [stage EXCEPT ![a] = "over"]
    /\ rows' = IF answer[a] = "done"
               THEN rows \cup {[by |-> a, operator |-> Operator(call[a]), verdict |-> answer[a]]}
               ELSE rows
    /\ UNCHANGED <<moment, config, call, asked, expires, answer, wire, servers, history>>

\* finish_mutation, Attempt::journal, journal_refusal, journal_build and
\* journal_proposal_approved: one row, whatever the verdict; then the answer.
Finish(a) ==
    /\ stage[a] = "journal"
    /\ stage' = [stage EXCEPT ![a] = "over"]
    /\ rows' = rows \cup {[by |-> a, operator |-> Operator(call[a]), verdict |-> answer[a]]}
    /\ UNCHANGED <<moment, config, call, asked, expires, answer, wire, servers, history>>

\* The row cannot be written: logged, reported where the outcome has a place for
\* it, and never a different outcome.
FinishUnwritten(a) ==
    /\ stage[a] = "journal" /\ Cardinality(unwritten) < MaxUnwritten
    /\ unwritten' = unwritten \cup {a}
    /\ stage' = [stage EXCEPT ![a] = "over"]
    /\ UNCHANGED <<moment, config, call, asked, expires, answer, wire, rows, servers, proxied, ends, cut, hungUp>>

\* The browser closes the connection: the server drops the handler's future at
\* the one place it waits, the answer of the plane.  A request already sent may
\* still arrive; what follows the wait runs without one and cannot be dropped.
HangUp(a) ==
    /\ stage[a] = "flight" /\ Cardinality(hungUp) < MaxHangUps
    /\ hungUp' = hungUp \cup {a}
    /\ stage' = [stage EXCEPT ![a] = "over"]
    /\ UNCHANGED <<moment, config, call, asked, expires, answer, wire, rows, servers, proxied, unwritten, ends, cut>>

\* The console dies and is started again: attempts under way are gone.
Ends ==
    /\ ends < MaxEnds /\ ends' = ends + 1
    /\ cut' = cut \cup {a \in Attempt : stage[a] \in {"flight", "journal"}}
    /\ stage' = [a \in Attempt |-> IF stage[a] \in {"flight", "journal"} THEN "over" ELSE stage[a]]
    /\ UNCHANGED <<moment, config, call, asked, expires, answer, wire, rows, servers, proxied, unwritten, hungUp>>

\* A plane finishes its bootstrap.
ComesUp ==
    /\ ready = {} /\ ready' = {"cloud", "gateway", "wardryx"}
    /\ UNCHANGED <<moment, secret, approver, attemptVars, wire, rows, servers, history>>

Elapse ==
    /\ moment < LastMoment /\ moment' = moment + 1
    /\ UNCHANGED <<config, attemptVars, wire, rows, servers, history>>

CommandsNext ==
    \/ \E a \in Attempt, r \in Call, role \in Role : Dispatch(a, r, role)
    \/ \E a \in Attempt, c \in Offered, role \in Role : RoleRefused(a, c, role)
    \/ \E a \in Attempt : \/ Arrives(a, TRUE) \/ Arrives(a, FALSE) \/ Stray(a, "page") \/ Stray(a, "proxy")
                          \/ Unreachable(a) \/ HangUp(a) \/ Finish(a) \/ FinishUnwritten(a)
    \/ Ends \/ ComesUp \/ Elapse

CommandsSpec == CommandsInit /\ [][CommandsNext]_commandVars

-----------------------------------------------------------------------------
(***************************************************************************)
(* Properties.                                                              *)
(***************************************************************************)
Effected(a) == \E e \in effects : e.by = a

\* The journal has a row for an attempt, or may still get it, or its write
\* failed, or the console itself died over it.
Accounted(a) ==
    \/ stage[a] \in {"flight", "journal"}
    \/ \E r \in rows : r.by = a
    \/ a \in unwritten \cup cut

\* An attempt that changed anything is in the journal, under whatever verdict,
\* however late the change came and whatever answered, unless the browser that
\* asked went away while the plane was answering.
EffectsAreJournaled == \A a \in Attempt : Effected(a) => Accounted(a) \/ a \in hungUp

\* What retained.rs:15 and money/commands.rs:14-16 say: "every attempt is
\* journaled, whatever happens to it".  It does not hold: the command's future
\* is awaited inside the request handler, so a browser that closes the
\* connection takes the journaling with it, and the plane acts all the same.
EveryAttemptIsJournaled == \A a \in Attempt : Effected(a) => Accounted(a)

\* The operator is told "done" only of what was done: a page that answers 200 in
\* the server's place is never taken for it.
DoneMeansDone == \A a \in Attempt : answer[a] = "done" => Effected(a)

\* And told "refused" only of what will never happen, even by a request that
\* arrives later: a timeout is not a refusal, and a decision or a closure
\* refused here was never sent.  The one exception is a closure that a proxy's
\* 5xx answered, which retained.rs reports as "the gateway answered and
\* declined" (retained.rs:97).
RefusedMeansNever ==
    \A a \in Attempt \ proxied :
        answer[a] \in {"refused", "refused_here"} => ~Effected(a) /\ a \notin wire

\* A closure or a stated decision that no one answered for can still take hold,
\* but only within TokenTtl of being sent.
LateIsBounded ==
    \A e \in effects : expires[e.by] # Forever => e.at <= asked[e.by] + TokenTtl

\* What the operator is told of an attempt is true of the plane, now and after every
\* request that still arrives: "done" was done, "refused" never will be, and what nobody
\* answered for can only take hold while its token is valid (retained.rs, cloud_rest.rs,
\* wardryx.rs).
AnswersAreTrue ==
    /\ DoneMeansDone
    /\ RefusedMeansNever
    /\ LateIsBounded
=============================================================================
