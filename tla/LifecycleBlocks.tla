--------------------------- MODULE LifecycleBlocks ---------------------------
(***************************************************************************)
(* Operator blocks: freeze an agent, stop a unit, stop a user               *)
(* (crates/web/src/lifecycle.rs, apply_block and the three toggles of       *)
(* crates/web/src/dispatch.rs, the rebuild at startup in                    *)
(* crates/web/src/ctx.rs).                                                  *)
(*                                                                          *)
(* Enforcement is one deny-all policy per agent in wardryx, written and     *)
(* deleted one call at a time; reflection is LifecycleStore, in memory,     *)
(* written once wardryx has accepted everything.  Actors: the calls of      *)
(* operators, interleaved at every await; the task that rebuilds the store  *)
(* after a start; a death of the console.  Any request to another service   *)
(* may fail, a write after it took effect.                                  *)
(*                                                                          *)
(* Strings are abstracted to what the code compares: Prefix and MemberId    *)
(* are the ids the sanitized keys spell (two may be the same), StartsWith   *)
(* says which id begins with which prefix (that of another entity too),     *)
(* SameTail which two owner strings end alike.                              *)
(*                                                                          *)
(* A definition marked Mutant is a wrong form of the one after it; no       *)
(* action uses it.                                                          *)
(***************************************************************************)
EXTENDS Integers

CONSTANTS
    Agent, Unit, Handle,   \* agent ids, unit names, owner strings
    Team,                  \* team_of an agent id
    Owner,                 \* the owner idryx records, or None
    SameTail,              \* pairs of owner strings with the same last segment
    Identities, Running,   \* at first, the agents idryx lists and the Cloud has runs of
    Prefix,                \* block_prefix of an entity
    MemberId,              \* the id below it for a member
    StartsWith,            \* pairs of an id and a prefix it starts with
    Toggled,               \* bound: the entities operators act on
    Movers,                \* bound: the agents that come to a list or leave one
    Call,                  \* bound: the calls in flight at a time
    None,
    Tries,                 \* the rebuild's attempts (5 in the code)
    MaxCalls, MaxCrashes, MaxFaults, MaxMoves   \* bounds

Entity ==
    [kind : {"agent"}, key : Agent] \cup [kind : {"unit"}, key : Unit]
    \cup [kind : {"user"}, key : Handle]

\* The id of the policy that blocks agent a as part of entity e: block_prefix
\* for an agent block, block_prefix and the member for the others.
PolicyId(e, a) == IF e.kind = "agent" THEN Prefix[e] ELSE MemberId[e][a]

ASSUME ConstantsAssumption ==
    /\ Team \in [Agent -> Unit] /\ Owner \in [Agent -> Handle \cup {None}]
    /\ None \notin Handle
    /\ Identities \subseteq Agent /\ Running \subseteq Agent
    /\ Toggled \subseteq Entity /\ Movers \subseteq Agent
    /\ \A e \in Entity, a \in Agent : <<PolicyId(e, a), Prefix[e]>> \in StartsWith
    /\ Tries \in Nat \ {0}
    /\ MaxCalls \in Nat /\ MaxCrashes \in Nat /\ MaxFaults \in Nat /\ MaxMoves \in Nat

\* What is stored under an id: the name carries the entity, the target the agent.
Policy(e, a) == [id |-> PolicyId(e, a), of |-> e, target |-> a]
Policies == {Policy(e, a) : e \in Entity, a \in Agent}

VARIABLES
    policy,    \* wardryx: the policies the console wrote (outlives the console)
    shown,     \* LifecycleStore: frozen_agents, stopped_units, stopped_users
    owners,    \* LifecycleStore.agent_owners: the agents whose owner is cached
    identities, running,   \* the agents idryx lists, those the Cloud has runs of
    process,   \* "up" or "down"
    call,      \* what each call in flight is for
    pc,        \* where it is
    todo,      \* the agents it still has to block
    listed,    \* the policies it still has to delete
    rebuild,   \* the startup task: "due", "read", "done" or "exhausted"
    tries,     \* its attempts so far
    snapshot,  \* the store it has built and not yet put in place
    promised,  \* history: the agents a confirmed block of an entity denied
    blurred,   \* history: entities the store may be wrong about
    torn,      \* history: entities whose last calls failed, overlapped or were cut short
    moved,     \* history: the agents that came to a list or left one
    calls, crashes, faults, moves   \* counters for the bounds

remote   == <<policy>>
fleet    == <<identities, running, moved>>
store    == <<shown, owners>>
handlers == <<call, pc, todo, listed>>
task     == <<rebuild, tries, snapshot>>
history  == <<promised, blurred, torn>>
bounds   == <<calls, crashes, faults, moves>>
vars     == <<remote, store, process, handlers, task, history, bounds, fleet>>

\* alone: no other call that may change its policies has been in flight with it.
Idle == [ent |-> None, on |-> FALSE, members |-> {}, alone |-> FALSE]
Ask  == [ent : Entity, on : BOOLEAN, members : SUBSET Agent, alone : BOOLEAN]

\* since: history, the entities with a call in flight after the policies were listed.
Nothing == [shown |-> {}, owners |-> {}, since |-> {}]

Init ==
    /\ policy = {} /\ shown = {} /\ owners = {} /\ process = "up"
    /\ call = [c \in Call |-> Idle] /\ pc = [c \in Call |-> "idle"]
    /\ todo = [c \in Call |-> {}] /\ listed = [c \in Call |-> {}]
    /\ rebuild = "due" /\ tries = 0 /\ snapshot = Nothing
    /\ promised = [e \in Entity |-> {}] /\ blurred = {} /\ torn = {}
    /\ identities = Identities /\ running = Running /\ moved = {}
    /\ calls = 0 /\ crashes = 0 /\ faults = 0 /\ moves = 0

-----------------------------------------------------------------------------
(***************************************************************************)
(* What is resolved before a call.                                          *)
(***************************************************************************)
\* idryx or the Cloud answers, or does not and a fault is spent.
Answers(ok) == IF ok THEN faults' = faults ELSE faults < MaxFaults /\ faults' = faults + 1

\* agents_in_unit: what idryx knows and what the Cloud has seen, either may be missing.
AgentsInUnit(u, idryx, cloud) ==
    {a \in (IF idryx THEN identities ELSE {}) \cup (IF cloud THEN running ELSE {}) : Team[a] = u}

\* owner_matches.
OwnerMatches(o, h) == o = h \/ <<o, h>> \in SameTail \/ <<h, o>> \in SameTail

\* The agents whose owner idryx records.
Owned == {a \in identities : Owner[a] # None}

\* agents_of_user: idryx is the only source.
AgentsOfUser(h, idryx) == {a \in Owned : idryx /\ OwnerMatches(Owner[a], h)}

\* The members a toggle resolves, and the owners it caches on the way.
Members(e, idryx, cloud) ==
    CASE e.kind = "agent" -> {e.key}
      [] e.kind = "unit"  -> AgentsInUnit(e.key, idryx, cloud)
      [] e.kind = "user"  -> AgentsOfUser(e.key, idryx)
CacheOwners(e, idryx) == IF e.kind = "user" /\ idryx THEN owners \cup Owned ELSE owners

\* An agent is listed for the first time, by idryx or among the Cloud's runs, or
\* is listed no more.
Move(a) ==
    /\ moves < MaxMoves /\ moves' = moves + 1
    /\ \/ /\ UNCHANGED running
          /\ identities' = IF a \in identities THEN identities \ {a} ELSE identities \cup {a}
       \/ /\ UNCHANGED identities
          /\ running' = IF a \in running THEN running \ {a} ELSE running \cup {a}
    /\ moved' = moved \cup {a}
    /\ UNCHANGED <<remote, store, process, handlers, task, history, calls, crashes, faults>>

-----------------------------------------------------------------------------
(***************************************************************************)
(* The calls.                                                               *)
(***************************************************************************)
\* Mutant: the family is taken to be everything of the kind.
UnderKind(id, e) == \E f \in Entity : f.kind = e.kind /\ <<id, Prefix[f]>> \in StartsWith

\* record.id.starts_with(prefix).
Under(id, e) == <<id, Prefix[e]>> \in StartsWith

\* The other entities whose ids a block of f writes itself, and those some of whose
\* ids start with the prefix an unblock of f deletes by.
Overwritten ==
    [f \in Entity |-> {e \in Entity \ {f} : \E a, b \in Agent : PolicyId(f, a) = PolicyId(e, b)}]
Swept ==
    [f \in Entity |-> {e \in Entity : \E a \in Agent : <<PolicyId(e, a), Prefix[f]>> \in StartsWith}]

\* A call for f takes policies of e along.
Takes(f, on, e) == e \in IF on THEN Overwritten[f] ELSE Swept[f]

\* What a call for f may change: its own policies, and what it takes along.
Disturbs(f, on, e) == f = e \/ Takes(f, on, e)
Disturbed(c) == {e \in Entity : Disturbs(call[c].ent, call[c].on, e)}

Busy(e) == {c \in Call : pc[c] # "idle" /\ Disturbs(call[c].ent, call[c].on, e)}

\* The agents whose policy of e has an id that no other agent's is written under.
Single ==
    [e \in Entity |->
        {a \in Agent : e.kind = "agent" \/ \A b \in Agent : PolicyId(e, b) = PolicyId(e, a) => b = a}]
Sole(e, a) == a \in Single[e]

Finish(c) ==
    /\ pc' = [pc EXCEPT ![c] = "idle"] /\ call' = [call EXCEPT ![c] = Idle]
    /\ todo' = [todo EXCEPT ![c] = {}] /\ listed' = [listed EXCEPT ![c] = {}]

\* agent_block, unit_block or user_block comes in.  A block of nobody is an
\* error; an unblock goes on whatever was resolved.
Toggle(c, e, on, idryx, cloud) ==
    LET members == Members(e, idryx, cloud)
    IN  /\ process = "up" /\ pc[c] = "idle" /\ e \in Toggled /\ calls < MaxCalls
        /\ e.kind = "agent" => idryx
        /\ e.kind # "unit" => cloud
        /\ idryx \/ cloud
        /\ Answers(idryx /\ cloud)
        /\ calls' = calls + 1
        /\ owners' = CacheOwners(e, idryx)
        /\ IF on /\ members = {}
           THEN UNCHANGED <<handlers, promised, snapshot>>
           ELSE /\ call' = [d \in Call |->
                    IF d = c THEN [ent |-> e, on |-> on, members |-> members,
                                   alone |-> Busy(e) = {}]
                    ELSE IF pc[d] # "idle" /\ Disturbs(e, on, call[d].ent)
                    THEN [call[d] EXCEPT !.alone = FALSE]
                    ELSE call[d]]
                /\ pc' = [pc EXCEPT ![c] = IF on THEN "put" ELSE "list"]
                /\ todo' = [todo EXCEPT ![c] = IF on THEN members ELSE {}]
                /\ promised' = [f \in Entity |-> IF Takes(e, on, f) THEN {} ELSE promised[f]]
                /\ snapshot' = [snapshot EXCEPT !.since = @ \cup {f \in Entity : Disturbs(e, on, f)}]
                /\ UNCHANGED listed
        /\ UNCHANGED <<policy, shown, process, rebuild, tries, blurred, torn, crashes, moves, fleet>>

\* A failed request ends the call; the store is not touched.
Abort(c) ==
    /\ faults < MaxFaults /\ faults' = faults + 1
    /\ Finish(c)
    /\ blurred' = blurred \cup Disturbed(c) /\ torn' = torn \cup Disturbed(c)
    /\ UNCHANGED <<store, process, task, promised, calls, crashes, moves, fleet>>

\* PUT /v1/policies/{id} replaces what is under the id.
Written(p) == {q \in policy : q.id # p.id} \cup {p}

\* block: one policy per member, one after the other.
Put(c, a) ==
    /\ pc[c] = "put" /\ a \in todo[c]
    /\ policy' = Written(Policy(call[c].ent, a))
    /\ todo' = [todo EXCEPT ![c] = @ \ {a}]
    /\ pc' = [pc EXCEPT ![c] = IF todo'[c] = {} THEN "record" ELSE "put"]
    /\ UNCHANGED <<store, process, call, listed, task, history, bounds, fleet>>

PutFails(c, a) ==
    /\ pc[c] = "put" /\ a \in todo[c]
    /\ policy' \in {policy, Written(Policy(call[c].ent, a))}
    /\ Abort(c)

\* unblock: list everything, keep what is under the entity's prefix.
List(c) ==
    /\ pc[c] = "list"
    /\ listed' = [listed EXCEPT ![c] = {p \in policy : Under(p.id, call[c].ent)}]
    /\ pc' = [pc EXCEPT ![c] = IF listed'[c] = {} THEN "record" ELSE "delete"]
    /\ UNCHANGED <<remote, store, process, call, todo, task, history, bounds, fleet>>

ListFails(c) == pc[c] = "list" /\ Abort(c) /\ UNCHANGED policy

\* DELETE by id; one that is already gone (404) counts as done.
Deleted(p) == {q \in policy : q.id # p.id}

Delete(c, p) ==
    /\ pc[c] = "delete" /\ p \in listed[c]
    /\ policy' = Deleted(p)
    /\ listed' = [listed EXCEPT ![c] = @ \ {p}]
    /\ pc' = [pc EXCEPT ![c] = IF listed'[c] = {} THEN "record" ELSE "delete"]
    /\ UNCHANGED <<store, process, call, todo, task, history, bounds, fleet>>

DeleteFails(c, p) ==
    /\ pc[c] = "delete" /\ p \in listed[c]
    /\ policy' \in {policy, Deleted(p)}
    /\ Abort(c)

\* The members of a call whose denial nothing else can be written over.
Denied(c) == {a \in call[c].members : Sole(call[c].ent, a)}

\* A call that was alone clears its entity up; what it took along stays in doubt.
Cleared(c, doubts) ==
    (Disturbed(c) \cup doubts) \ (IF call[c].alone THEN {call[c].ent} ELSE {})

\* Mutant: the console records what it set out to do before wardryx has it.
RecordEarly(c) ==
    LET e == call[c].ent
    IN  /\ pc[c] \in {"put", "list", "record"}
        /\ shown' = IF call[c].on THEN shown \cup {e} ELSE shown \ {e}
        /\ promised' = IF call[c].on THEN [promised EXCEPT ![e] = Denied(c)] ELSE promised
        /\ blurred' = Cleared(c, blurred) /\ torn' = Cleared(c, torn)
        /\ Finish(c)
        /\ UNCHANGED <<remote, owners, process, task, bounds, fleet>>

\* apply_block once wardryx has accepted everything: the store, the journal
\* line (ConsoleChain), the answer.
Record(c) ==
    LET e == call[c].ent
    IN  /\ pc[c] = "record"
        /\ shown' = IF call[c].on THEN shown \cup {e} ELSE shown \ {e}
        /\ promised' = IF call[c].on /\ call[c].alone
                       THEN [promised EXCEPT ![e] = Denied(c)] ELSE promised
        /\ blurred' = Cleared(c, blurred) /\ torn' = Cleared(c, torn)
        /\ Finish(c)
        /\ UNCHANGED <<remote, owners, process, task, bounds, fleet>>

-----------------------------------------------------------------------------
(***************************************************************************)
(* The rebuild after a start, and a death.                                  *)
(***************************************************************************)
\* Mutant: only the policies of agent blocks are read back.
RehydrateAgents == {p.of : p \in {q \in policy : q.of.kind = "agent"}}

\* rehydrate: the entities named by the policies under ID_PREFIX.
Rehydrate == {p.of : p \in policy}

\* One attempt, two seconds after the last: the policies, then idryx.
RebuildRead(idryx) ==
    /\ process = "up" /\ rebuild = "due"
    /\ Answers(idryx)
    /\ snapshot' = [shown |-> Rehydrate, owners |-> IF idryx THEN Owned ELSE {},
                    since |-> {e \in Entity : Busy(e) # {}}]
    /\ rebuild' = "read"
    /\ UNCHANGED <<remote, store, process, handlers, tries, history, calls, crashes, moves, fleet>>

RebuildFails ==
    /\ process = "up" /\ rebuild = "due"
    /\ faults < MaxFaults /\ faults' = faults + 1
    /\ tries' = tries + 1
    /\ rebuild' = IF tries' = Tries THEN "exhausted" ELSE "due"
    /\ UNCHANGED <<remote, store, process, handlers, snapshot, history, calls, crashes, moves, fleet>>

\* The store is replaced as a whole, owners included.
RebuildApply ==
    /\ process = "up" /\ rebuild = "read"
    /\ shown' = snapshot.shown /\ owners' = snapshot.owners
    /\ blurred' = snapshot.since
    /\ rebuild' = "done" /\ snapshot' = Nothing
    /\ UNCHANGED <<remote, process, handlers, tries, promised, torn, bounds, fleet>>

\* The process dies; the calls in flight are gone, what they wrote is not.
Crash ==
    /\ process = "up" /\ crashes < MaxCrashes
    /\ process' = "down" /\ crashes' = crashes + 1
    /\ shown' = {} /\ owners' = {}
    /\ call' = [c \in Call |-> Idle] /\ pc' = [c \in Call |-> "idle"]
    /\ todo' = [c \in Call |-> {}] /\ listed' = [c \in Call |-> {}]
    /\ rebuild' = "due" /\ tries' = 0 /\ snapshot' = Nothing
    /\ torn' = torn \cup {e \in Entity : Busy(e) # {}}
    /\ UNCHANGED <<remote, promised, blurred, calls, faults, moves, fleet>>

Restart ==
    /\ process = "down" /\ process' = "up"
    /\ UNCHANGED <<remote, store, handlers, task, history, bounds, fleet>>

CallStep(c) ==
    \/ \E a \in Agent : Put(c, a) \/ PutFails(c, a)
    \/ List(c) \/ ListFails(c)
    \/ \E p \in listed[c] : Delete(c, p) \/ DeleteFails(c, p)
    \/ Record(c)

Next ==
    \/ \E c \in Call, e \in Toggled, on, idryx, cloud \in BOOLEAN : Toggle(c, e, on, idryx, cloud)
    \/ \E c \in Call : CallStep(c)
    \/ \E idryx \in BOOLEAN : RebuildRead(idryx)
    \/ RebuildFails \/ RebuildApply
    \/ \E a \in Movers : Move(a)
    \/ Crash \/ Restart

Spec == Init /\ [][Next]_vars

\* tokio runs a handler whose request was answered, and the startup task; a
\* service manager restarts the console.
Progress ==
    \/ \E c \in Call : CallStep(c)
    \/ RebuildRead(TRUE) \/ RebuildApply \/ Restart

FairSpec == Spec /\ WF_vars(Progress)

-----------------------------------------------------------------------------
(***************************************************************************)
(* What the console shows.                                                  *)
(***************************************************************************)
\* Mutant: a unit's agents are looked up under the agent's own id only.
StateForAgentOnly(a) ==
    IF [kind |-> "agent", key |-> a] \in shown THEN "frozen" ELSE "none"

\* state_for: frozen outranks stopped; the owner string is compared whole.
StateFor(a) ==
    CASE [kind |-> "agent", key |-> a] \in shown -> "frozen"
      [] [kind |-> "agent", key |-> a] \notin shown
         /\ (\/ [kind |-> "unit", key |-> Team[a]] \in shown
             \/ a \in owners /\ [kind |-> "user", key |-> Owner[a]] \in shown) -> "stopped"
      [] OTHER -> "none"

-----------------------------------------------------------------------------
(***************************************************************************)
(* Properties.                                                              *)
(***************************************************************************)
\* Types of the state: the policies, the store, the calls and the rebuild.
TypeOK ==
    /\ policy \subseteq Policies
    /\ shown \subseteq Entity /\ owners \subseteq Agent /\ process \in {"up", "down"}
    /\ call \in [Call -> Ask \cup {Idle}]
    /\ pc \in [Call -> {"idle", "put", "list", "delete", "record"}]
    /\ todo \in [Call -> SUBSET Agent] /\ listed \in [Call -> SUBSET Policies]
    /\ rebuild \in {"due", "read", "done", "exhausted"} /\ tries \in 0..Tries
    /\ snapshot \in [shown : SUBSET Entity, owners : SUBSET Agent, since : SUBSET Entity]
    /\ promised \in [Entity -> SUBSET Agent] /\ blurred \subseteq Entity /\ torn \subseteq Entity
    /\ identities \subseteq Agent /\ running \subseteq Agent /\ moved \subseteq Agent
    /\ calls \in 0..MaxCalls /\ crashes \in 0..MaxCrashes /\ faults \in 0..MaxFaults
    /\ moves \in 0..MaxMoves

\* A block that was confirmed stays in force for every member it resolved, whatever
\* is refused, dies or is rebuilt, and whoever joins the unit or leaves it, until
\* somebody unblocks that entity or calls for one whose id prefix its own ids start
\* with: unblock deletes by prefix (lifecycle.rs:213), and a block puts over an id
\* that sanitize spells the same (lifecycle.rs:105).  A member that shares its id
\* with another agent has none of its own to lose.
BlockHolds ==
    \A e \in Toggled : \A a \in promised[e] :
        \E p \in policy : p.of = e /\ p.target = a

\* What lifecycle.rs:20 says ("unblock stays exact"): no policy goes but in a call
\* for the entity it is of.  The code does not keep it: unblocking "pay" deletes
\* the policies of "payments".
UnblockStaysExact ==
    [][\A p \in policy \ policy' : \E c \in Call : pc[c] # "idle" /\ call[c].ent = p.of]_vars

Settled(e) ==
    /\ process = "up" /\ rebuild = "done"
    /\ Busy(e) = {} /\ e \notin blurred

\* An entity operators act on that the console has the right picture of.
Shows(kind, key) ==
    LET e == [kind |-> kind, key |-> key] IN e \in Toggled /\ Settled(e)

DeniedFor(kind, key, a) ==
    \E p \in policy : p.of = [kind |-> kind, key |-> key] /\ p.target = a

\* The store and wardryx agree on an entity whenever no call that may change its
\* policies is in flight, none has failed half way, met another one or taken them
\* along since the entity's last clean call, and the rebuild did not pass over it:
\* across deaths and rebuilds the console neither shows a blocked entity as running
\* nor the reverse.
Reflection ==
    \A e \in Toggled : Settled(e) => (e \in shown <=> \E p \in policy : p.of = e)

\* The badge of an agent itself says what wardryx does with it, and an agent denied
\* for its unit carries one, even one that left the unit after the block.
OwnBadge ==
    \A a \in Agent :
        /\ Shows("agent", a) => (StateFor(a) = "frozen" <=> DeniedFor("agent", a, a))
        /\ Shows("unit", Team[a]) /\ DeniedFor("unit", Team[a], a) => StateFor(a) # "none"

\* As long as every service answered and no block was cut short or met another one,
\* an agent that was listed all along, and has its ids to itself, carries a badge
\* exactly when some policy denies it, whichever of its agent, unit and owner was
\* blocked and however often the console was restarted.  An agent first listed
\* after the block carries the badge of its unit without a policy (state_for goes
\* by the team), and an owner written otherwise than in the block has no badge.
BadgeMeansDenied ==
    faults = 0 /\ torn = {} /\ (\A e \in Toggled : Settled(e)) =>
        \A a \in (identities \cup running) \ moved :
            (\A e \in Toggled : Sole(e, a)) =>
                (StateFor(a) # "none" <=>
                    \E p \in policy : p.target = a /\ (p.of.kind = "user" => p.of.key = Owner[a]))

\* What the console shows of blocks is what wardryx enforces, of entities and of the
\* badges their agents carry.
BadgesAreTrue == Reflection /\ OwnBadge /\ BadgeMeansDenied

\* No agent carries a badge that no policy stands for ("never a wrong badge",
\* lifecycle.rs:43).  The code does not keep it: see BadgeMeansDenied.
NeverAWrongBadge ==
    (\A e \in Toggled : Settled(e)) =>
        \A a \in identities \cup running :
            StateFor(a) # "none" => \E p \in policy : p.target = a

\* A restarted console comes to show what is blocked (ctx.rs:278): again and
\* again every entity with a policy is shown, called for, or blurred, unless the
\* rebuild has used up its tries.
RestartShowsBlocks ==
    []<>(\/ rebuild = "exhausted"
         \/ \A p \in policy : p.of \in shown \cup blurred \/ Busy(p.of) # {})
=============================================================================
