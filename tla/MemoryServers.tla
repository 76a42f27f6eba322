--------------------------- MODULE MemoryServers ---------------------------
(***************************************************************************)
(* The Memory panel's engram-mcp processes: one for the whole file, started *)
(* at bootstrap, and a pool of servers scoped to one agent each             *)
(* (crates/api/src/memory: state.rs, pool.rs, commands.rs), spoken to over  *)
(* stdio with one request at a time and a deadline                          *)
(* (crates/connectors/src: mcp_stdio.rs, engram.rs).                        *)
(*                                                                          *)
(* Actors: reads; the servers, which answer late, in their own order, say   *)
(* other things in between, or die; the clock.  client_for runs under the   *)
(* pool's mutex, spawn and handshake included, so it is one step; a server  *)
(* is locked from the request to its answer.                                *)
(*                                                                          *)
(* A definition marked Mutant is a wrong form of the one after it; no       *)
(* action uses it.                                                          *)
(***************************************************************************)
EXTENDS Integers, FiniteSets, Sequences

CONSTANTS
    Read,       \* bound: the reads made
    Scope,      \* agents whose name valid_agent_scope accepts
    WholeFile, BadName,
    MaxHeld,    \* MAX_SCOPED_SERVERS
    IdleAfter,  \* IDLE_AFTER, in ticks
    LastTime,   \* bound: the clock
    MaxDeaths,  \* bound: servers that die
    MaxNoise    \* bound: lines that are no answer

ASSUME MemoryAssumption == IsFiniteSet(Read) /\ MaxHeld \in Nat \ {0}

NoId == 0
Server == 1..(Cardinality(Read) + 1)

VARIABLES
    plane,      \* "bootstrapping", "no_environment", "unreachable" or "ready"
    now,
    server,     \* every process started: its scope, is it running, the next request
                \* id, the ids it has yet to answer, the lines its reader thread queued
    pool,       \* the entries: scope, server, lastUsed, seq
    nextSeq,
    read,       \* each read: its scope, how far it is, its server and request id
    reply,      \* what each read got
    deaths, noise

memoryVars == <<plane, now, server, pool, nextSeq, read, reply, deaths, noise>>

Started == DOMAIN server
Fresh(scope) == [scope |-> scope, runs |-> TRUE, next |-> 1, owes |-> {}, lines |-> <<>>]
Waiting == [scope |-> WholeFile, at |-> "new", server |-> NoId, id |-> NoId]

Got(verdict, s, id) == [verdict |-> verdict, server |-> s, id |-> id]

MemoryInit ==
    /\ plane = "bootstrapping" /\ now = 0 /\ server = <<>> /\ pool = {} /\ nextSeq = 0
    /\ read = [r \in Read |-> Waiting] /\ reply = [r \in Read |-> Got("nothing", NoId, NoId)]
    /\ deaths = 0 /\ noise = 0

\* bootstrap and spawn_client: the first server is the whole file's.
Bootstrap(outcome) ==
    /\ plane = "bootstrapping" /\ plane' = outcome
    /\ server' = IF outcome = "ready" THEN <<Fresh(WholeFile)>> ELSE server
    /\ UNCHANGED <<now, pool, nextSeq, read, reply, deaths, noise>>

\* read_scope and ready_client: a name no server is started for, or no plane.
Refuse(r, scope) ==
    /\ read[r].at = "new" /\ (scope = BadName \/ plane # "ready")
    /\ read' = [read EXCEPT ![r].at = "over"] /\ reply' = [reply EXCEPT ![r] = Got("refused", NoId, NoId)]
    /\ UNCHANGED <<plane, now, server, pool, nextSeq, deaths, noise>>

-----------------------------------------------------------------------------
\* Mutant: a read keeps no handle of its own.
HeldByPool(entries, reads) == {1} \cup {e.server : e \in entries}

\* Who still has a handle on a server: its entry, the reads that were given it,
\* and the plane for the first one.  Dropping the last one kills the process.
Held(entries, reads) ==
    {1} \cup {e.server : e \in entries}
        \cup {reads[r].server : r \in {x \in Read : reads[x].at \in {"target", "sent"}}}

\* Mutant: a closed server is left running.
ReapNothing(servers, entries, reads) == servers

Reap(servers, entries, reads) ==
    [s \in DOMAIN servers |->
        IF s \in Held(entries, reads) THEN servers[s] ELSE [servers[s] EXCEPT !.runs = FALSE]]

\* Mutant: closed one tick early.
FresherStrictly(entries) == {e \in entries : now - e.lastUsed < IdleAfter}

\* close_idle keeps these.
Fresher(entries) == {e \in entries : now - e.lastUsed <= IdleAfter}
OfScope(entries, scope) == {e \in entries : e.scope = scope}

\* Mutant: room is made when there is one too many.
MakeRoomLate(entries) ==
    {e \in entries : Cardinality({f \in entries : f.seq > e.seq}) < MaxHeld}

\* close_least_recent until there is room for one more.
MakeRoom(entries) ==
    {e \in entries : Cardinality({f \in entries : f.seq > e.seq}) < MaxHeld - 1}

\* target_client and client_for: the whole file's server, the one the scope has,
\* or a new one; idle entries go first, the least recently read if it is full.
Target(r, scope) ==
    /\ read[r].at = "new" /\ plane = "ready" /\ scope # BadName
    /\ LET kept == Fresher(pool)
           have == OfScope(kept, scope)
           s    == IF scope = WholeFile THEN 1
                   ELSE IF have # {} THEN (CHOOSE e \in have : TRUE).server
                   ELSE Len(server) + 1
           entry == [scope |-> scope, server |-> s, lastUsed |-> now, seq |-> nextSeq + 1]
           entries == IF scope = WholeFile THEN pool
                      ELSE IF have # {} THEN (kept \ have) \cup {entry}
                      ELSE MakeRoom(kept) \cup {entry}
           servers == IF s \in Started THEN server ELSE Append(server, Fresh(scope))
       IN  /\ pool' = entries
           /\ nextSeq' = IF scope = WholeFile THEN nextSeq ELSE nextSeq + 1
           /\ read' = [read EXCEPT ![r] = [scope |-> scope, at |-> "target", server |-> s, id |-> NoId]]
           /\ server' = Reap(servers, entries, read')
    /\ UNCHANGED <<plane, now, reply, deaths, noise>>

\* The start or its handshake fails: nothing is held, idle entries are closed.
TargetFails(r, scope) ==
    /\ read[r].at = "new" /\ plane = "ready" /\ scope \in Scope
    /\ OfScope(Fresher(pool), scope) = {}
    /\ pool' = Fresher(pool) /\ nextSeq' = nextSeq + 1
    /\ read' = [read EXCEPT ![r].at = "over"] /\ reply' = [reply EXCEPT ![r] = Got("spawn", NoId, NoId)]
    /\ server' = Reap(server, pool', read')
    /\ UNCHANGED <<plane, now, deaths, noise>>

-----------------------------------------------------------------------------
Locked(s) == \E r \in Read : read[r].at = "sent" /\ read[r].server = s

\* The read ends with an answer and gives its handle back.
Finish(r, answer) ==
    /\ read' = [read EXCEPT ![r].at = "over"]
    /\ reply' = [reply EXCEPT ![r] = answer]

\* call_tool's request, under the server's mutex, with the next id.
Send(r) ==
    /\ read[r].at = "target"
    /\ LET s == read[r].server
       IN  /\ ~Locked(s)
           /\ IF server[s].runs
              THEN /\ server' = [server EXCEPT
                           ![s].next = @ + 1, ![s].owes = server[s].owes \cup {server[s].next}]
                   /\ read' = [read EXCEPT ![r].at = "sent", ![r].id = server[s].next]
                   /\ UNCHANGED reply
              ELSE Finish(r, Got("io", NoId, NoId)) /\ server' = Reap(server, pool, read')
    /\ UNCHANGED <<plane, now, pool, nextSeq, deaths, noise>>

\* Mutant: the next line that is JSON is the answer.
IsAnswerAny(line, id) == line.kind = "answer"

\* recv_response: the line that carries the id of this request.
IsAnswer(line, id) == line.kind = "answer" /\ line.id = id

\* One line off the channel: an answer, something to skip, or no JSON at all.
Receive(r) ==
    /\ read[r].at = "sent"
    /\ LET s == read[r].server
           line == Head(server[s].lines)
           rest == [server EXCEPT ![s].lines = Tail(@)]
       IN  /\ server[s].lines # <<>>
           /\ IF line.kind = "garbage" THEN Finish(r, Got("protocol", NoId, NoId))
              ELSE IF IsAnswer(line, read[r].id)
                   THEN Finish(r, Got("answer", s, line.id))
                   ELSE UNCHANGED <<read, reply>>
           /\ server' = Reap(rest, pool, read')
    /\ UNCHANGED <<plane, now, pool, nextSeq, deaths, noise>>

\* The deadline passes, or the channel is empty and closed; the answer may come yet.
TimeOut(r) ==
    /\ read[r].at = "sent" /\ Finish(r, Got("timeout", NoId, NoId))
    /\ server' = Reap(server, pool, read')
    /\ UNCHANGED <<plane, now, pool, nextSeq, deaths, noise>>

-----------------------------------------------------------------------------
\* The server writes the answer to one of the requests it owes.
Answers(s, id) ==
    /\ server[s].runs /\ id \in server[s].owes
    /\ server' = [server EXCEPT
           ![s].owes = @ \ {id},
           ![s].lines = Append(server[s].lines, [kind |-> "answer", id |-> id])]
    /\ UNCHANGED <<plane, now, pool, nextSeq, read, reply, deaths, noise>>

\* It writes a notification, or something that is not JSON.
Noise(s, kind) ==
    /\ server[s].runs /\ noise < MaxNoise /\ noise' = noise + 1
    /\ server' = [server EXCEPT ![s].lines = Append(@, [kind |-> kind, id |-> NoId])]
    /\ UNCHANGED <<plane, now, pool, nextSeq, read, reply, deaths>>

\* It dies: its entry stays.
ServerDies(s) ==
    /\ server[s].runs /\ deaths < MaxDeaths /\ deaths' = deaths + 1
    /\ server' = [server EXCEPT ![s].runs = FALSE, ![s].owes = {}]
    /\ UNCHANGED <<plane, now, pool, nextSeq, read, reply, noise>>

Pass ==
    /\ now < LastTime /\ now' = now + 1
    /\ UNCHANGED <<plane, server, pool, nextSeq, read, reply, deaths, noise>>

MemoryNext ==
    \/ \E o \in {"no_environment", "unreachable", "ready"} : Bootstrap(o)
    \/ \E r \in Read :
        \/ \E a \in Scope \cup {WholeFile, BadName} : Refuse(r, a) \/ Target(r, a) \/ TargetFails(r, a)
        \/ Send(r) \/ Receive(r) \/ TimeOut(r)
    \/ \E s \in Started : \/ \E id \in server[s].owes : Answers(s, id)
                          \/ \E k \in {"note", "garbage"} : Noise(s, k)
                          \/ ServerDies(s)
    \/ Pass

MemorySpec == MemoryInit /\ [][MemoryNext]_memoryVars

-----------------------------------------------------------------------------
(***************************************************************************)
(* Properties.                                                              *)
(***************************************************************************)
\* A pool entry has a server of its scope, one per scope, no more than MaxHeld.
MemoryTypeOK ==
    /\ Started \subseteq Server
    /\ Cardinality(pool) <= MaxHeld
    /\ \A e \in pool : e.server \in Started /\ server[e.server].scope = e.scope
    /\ \A e, f \in pool : e.scope = f.scope => e = f

\* What a read is given is the answer to its own request, from a server scoped to
\* the agent it asked for: never another agent's memories, and never the late
\* answer to a request that timed out before it.
AnswerIsForTheQuestion ==
    \A r \in Read : reply[r].verdict = "answer" =>
        /\ server[reply[r].server].scope = read[r].scope
        /\ reply[r].server = read[r].server /\ reply[r].id = read[r].id

\* Every running process has somebody who will close it: an entry of the pool, a
\* read under way, or the plane.  So there are never more than MaxHeld, the whole
\* file's and one per read under way.
NoServerLeaks ==
    \A s \in Started : server[s].runs => s \in Held(pool, read)

\* Closing an idle or least recent server never takes it from under a read: it
\* runs on until the read is over, unless it died by itself.
NoReadIsCut ==
    deaths = 0 => \A r \in Read : read[r].at \in {"target", "sent"} => server[read[r].server].runs

\* A scope read within IdleAfter is only closed for scopes read after it.
OnlyStaleClosed ==
    [][\A e \in pool : (OfScope(pool', e.scope) = {} /\ now - e.lastUsed <= IdleAfter) =>
            Cardinality({f \in pool' : f.seq > e.seq}) = MaxHeld]_memoryVars

\* A pool at its limit stays bounded, closes what was read least recently, leaks no
\* process, cuts no read short and never hands a read somebody else's answer (memory/pool.rs, connectors/engram.rs).
ReadsAreSafe ==
    /\ [](MemoryTypeOK /\ AnswerIsForTheQuestion /\ NoServerLeaks /\ NoReadIsCut)
    /\ OnlyStaleClosed
=============================================================================
