--------------------------- MODULE DelegationGraph ---------------------------
(***************************************************************************)
(* The on_behalf_of graph the console folds out of its bus                 *)
(* (crates/core/src/graph.rs, crates/api/src/graph.rs).  A graph is built  *)
(* in a batch from the event table and then fed one event at a time; the   *)
(* bus may present an event again, in either way.  The fold keeps nodes,   *)
(* edges, a count and the last moment of each actor, and the natural keys  *)
(* it has counted.                                                         *)
(***************************************************************************)
EXTENDS Naturals, Sequences, FiniteSets, FiniteSetsExt, SequencesExt

CONSTANTS
    BusEvent,   \* events a producer may write: [agent, kind, ts, chain]
    MaxStored   \* rows of the event table, at most

ASSUME GraphAssumption ==
    /\ BusEvent \subseteq [agent : STRING, kind : STRING, ts : Nat, chain : Seq(STRING)]
    /\ MaxStored \in Nat

VARIABLES
    table,   \* the event table, oldest first
    graph,   \* the graph held
    fed      \* the events the held graph was given, by either way

graphVars == <<table, graph, fed>>

Empty == ""
NoTime == 0
NoKey == "key:(none)"

\* Mutant: the envelope's agent.
FiledByEnvelope(e) == e.agent

\* filed_under, and FILED_UNDER_SQL: a refused identity is nobody's act, here with no key named.
Filed(e) == IF e.kind = "identity_mismatch" THEN NoKey ELSE e.agent

\* EventKey, source and run_id being the kind's.
Key(e) == <<Filed(e), e.ts, e.kind>>

NoGraph == [nodes |-> {}, edges |-> {}, seen |-> {}, count |-> <<>>, last |-> <<>>]

\* A function read where an absent id is a fresh node.
ValueOf(f, id, default) == IF id \in DOMAIN f THEN f[id] ELSE default
Put(f, id, v) == [x \in DOMAIN f \cup {id} |-> IF x = id THEN v ELSE f[x]]

\* The chain with the actor at its end, and whoever is named in it.
Path(e) == Append(e.chain, Filed(e))
Named(e) == ToSet(Path(e)) \ {Empty}

\* Each of them delegates to the next: elements that are empty are passed over, and add_edge
\* makes no edge from a principal to itself.
Delegates(path, i, j) ==
    /\ i < j /\ path[i] # path[j] /\ Empty \notin {path[i], path[j]}
    /\ \A k \in (i + 1)..(j - 1) : path[k] = Empty
EdgesOf(e) ==
    LET path == Path(e)
    IN  {<<path[s[1]], path[s[2]]>> :
            s \in {x \in (DOMAIN path) \X (DOMAIN path) : Delegates(path, x[1], x[2])}}

\* Mutant: counting every sighting.
NewlyAlways(g, e) == TRUE

\* seen.insert
Newly(g, e) == Key(e) \notin g.seen

\* ingest
Ingest(g, e) ==
    LET actor == Filed(e)
        newly == Newly(g, e)
    IN  [nodes |-> g.nodes \cup Named(e),
         edges |-> g.edges \cup EdgesOf(e),
         seen |-> g.seen \cup {Key(e)},
         count |-> IF newly /\ actor # Empty THEN Put(g.count, actor, ValueOf(g.count, actor, 0) + 1) ELSE g.count,
         last |-> IF newly /\ actor # Empty
                  THEN Put(g.last, actor, Max({e.ts, ValueOf(g.last, actor, NoTime)})) ELSE g.last]

\* from_store
FromStore(rows) ==
    LET upTo[n \in 0..Len(rows)] ==
            IF n = 0 THEN NoGraph ELSE Ingest(upTo[n - 1], rows[n])
    IN  upTo[Len(rows)]

(***************************************************************************)
(* The operations                                                          *)
(***************************************************************************)
GraphInit == table = <<>> /\ graph = NoGraph /\ fed = {}

\* The ingest thread commits an event, one already held included (a second file, a copy).
Store(e) ==
    /\ Len(table) < MaxStored
    /\ table' = Append(table, e)
    /\ UNCHANGED <<graph, fed>>

\* from_store, for a fresh reader.
BuildGraph ==
    /\ graph' = FromStore(table)
    /\ fed' = ToSet(table)
    /\ UNCHANGED table

\* add_event: a row of the table, or one not committed yet.
AddEvent(e) ==
    /\ graph' = Ingest(graph, e)
    /\ fed' = fed \cup {e}
    /\ UNCHANGED table

\* agent_slice, with the kinds and counts of what it names.
Slice(g, id) ==
    [parents |-> {e[1] : e \in {x \in g.edges : x[2] = id}},
     children |-> {e[2] : e \in {x \in g.edges : x[1] = id}},
     acted |-> ValueOf(g.count, id, 0)]

\* roots
Roots(g) == {id \in g.nodes : \A e \in g.edges : e[2] # id}

GraphNext == BuildGraph \/ \E e \in BusEvent : Store(e) \/ AddEvent(e)

GraphSpec == GraphInit /\ [][GraphNext]_graphVars

(***************************************************************************)
(* Properties                                                              *)
(***************************************************************************)
ActedIn(events, id) == {Key(e) : e \in {x \in events : Filed(x) = id}}

\* The graph is a function of the set of events it was given: their order, their repetition and
\* the way each came (batch or live) leave no trace, neither in a count nor in a last moment.
GraphIsOfTheSet ==
    /\ graph.nodes = (UNION {ToSet(e.chain) \cup {Filed(e)} : e \in fed}) \ {Empty}
    /\ \A id \in graph.nodes :
         /\ ValueOf(graph.count, id, 0) = Cardinality(ActedIn(fed, id))
         /\ ValueOf(graph.last, id, NoTime) = Max({NoTime} \cup {k[2] : k \in ActedIn(fed, id)})

\* Nobody the graph shows in a delegation is missing from it as a node, no principal delegates to
\* itself, and an agent seen only as somebody's claim has done nothing.
SlicesAreWhole ==
    \A id \in graph.nodes :
      LET s == Slice(graph, id)
      IN  /\ s.parents \cup s.children \subseteq graph.nodes \ {id, Empty}
          /\ (\A e \in fed : e.agent = id => e.kind = "identity_mismatch") => id = NoKey \/ s.acted = 0

\* The graph is a function of the events it was fed, and its slices of the graph
\* (core/src/graph.rs, api/src/graph.rs).
GraphIsFaithful ==
    /\ GraphIsOfTheSet
    /\ SlicesAreWhole
=============================================================================
