------------------------------ MODULE MCPanels ------------------------------
(***************************************************************************)
(* Instances of what the operator is shown: the stream from the Cloud       *)
(* (CloudStream), the live feed (LiveFeed), the proofs about an incident    *)
(* (IncidentProofs), statistics and profiles (EventStats), the delegation   *)
(* graph (DelegationGraph), the panels read from other programs over HTTP   *)
(* (CloudPanels) and from files and command lines (StorePanels), and the    *)
(* evidence pack (EvidencePack).  They share no state, so a behaviour is of *)
(* one of them: `part` is chosen at the start and the state of the others   *)
(* stands still.                                                            *)
(***************************************************************************)
EXTENDS IncidentProofs, EvidencePack, LiveFeed, CloudStream, CloudPanels, DelegationGraph,
        EventStats, StorePanels, SequencesExt, TLC

VARIABLE part

\* Chains with an empty link, with the agent itself, of a refused caller, and of nobody.
Event(agent, what, ts, chain) == [agent |-> agent, kind |-> what, ts |-> ts, chain |-> chain]
BusEvents ==
    {Event("a", "call", 1, <<"u", "", "b">>), Event("a", "call", 2, <<"u">>),
     Event("b", "call", 1, <<"u", "b">>), Event("b", "identity_mismatch", 1, <<"a">>),
     Event("c", "identity_mismatch", 2, <<>>), Event("", "call", 1, <<"u">>),
     Event("a", "call", 1, <<"b">>)}

\* Calls that cost 1 or 3, each at the step of the one before or at the next: of a run one of
\* each, in either order.
Calls == [step : 1..2, cost : {1, 3}]
Traces == {<<>>} \cup {<<c>> : c \in {d \in Calls : d.step = 1}}
                 \cup {t \in Calls \X Calls : t[1].step = 1 /\ t[1].cost # t[2].cost}

\* A limit that no run and no call reaches, and three candidates: on a run's spending, on one
\* call's, and on the number of calls.
Free == [run |-> 9, step |-> 9, calls |-> 9]
Candidates == {[Free EXCEPT !.run = 2], [Free EXCEPT !.step = 2], [Free EXCEPT !.calls = 1]}

\* BudgetCandidate: a call over the limit of one is blocked alone, a run that would pass its
\* own limits is stopped there.
Replayed1(c, call, st) ==
    IF call.cost <= c.step /\ ~st.stopped /\ st.spent + call.cost <= c.run /\ st.made < c.calls
    THEN [st EXCEPT !.spent = @ + call.cost, !.made = @ + 1]
    ELSE [st EXCEPT !.stopped = @ \/ call.cost <= c.step, !.blocked = @ + 1, !.saved = @ + call.cost]

ReplayOf(c, t) ==
    LET end == FoldLeft(LAMBDA st, call : Replayed1(c, call, st),
                        [stopped |-> FALSE, spent |-> 0, made |-> 0, blocked |-> 0, saved |-> 0], t)
    IN  [blocked |-> end.blocked, saved |-> end.saved]

\* By step, and calls of one step in any order.
Orders(t) ==
    {o \in [DOMAIN t -> DOMAIN t] :
        /\ \A i, k \in DOMAIN t : i # k => o[i] # o[k]
        /\ \A i, k \in DOMAIN t : i < k => t[o[i]].step <= t[o[k]].step}
ReplaysOf(c, t) == {ReplayOf(c, [i \in DOMAIN t |-> t[o[i]]]) : o \in Orders(t)}

\* The tools ticked: with one that is not installed, with the Cloud, and alone.
Asked == {{"cloud", "tokenfuse"}, {"idryx", "tokenfuse"}, {"qryx"}}

\* The parts that are not chosen start in one of their initial states.
Still ==
    /\ part # "stream" => ending = "lf" /\ numbering = "each"
    /\ part # "feed" => ~found /\ named = {}
    /\ part # "proofs" => \A r \in DOMAIN calls : calls[r] = <<>>
    /\ part # "panels" => server.month /\ server.spend["u"] = Nil
    /\ part # "reports" => kind = "egress" /\ answers
    /\ part # "pack" => ~money /\ removable
    /\ resolved = {"qryx", "tokenfuse"}

MCInit ==
    /\ CloudInit /\ FeedInit /\ ProofInit /\ StatsInit
    /\ GraphInit /\ PanelInit /\ StoreInit /\ PackInit
    /\ part \in {"stream", "feed", "proofs", "stats", "profiles", "graph", "panels",
                 "reports", "pack"}
    /\ Still

InStats == UNCHANGED <<cloudVars, feedVars, proofVars, graphVars, panelVars, storeVars,
                       packVars, part>>

\* Statistics and stop lists over two days, profiles over all of them.
StatsMoves == profile' = profile /\ today' <= 1
ProfileMoves ==
    /\ UNCHANGED <<panel, stops>>
    /\ \A n \in everWritten' : n.kind \in {"refusal", "other"}

\* The other run makes one call at most.  What a policy replay said does not reach the budget
\* proof, so a behaviour that has both has one such report.
ProofMoves ==
    /\ Len(calls'["other"]) <= 1
    /\ job'["p"].phase = "done" /\ job'["b"].phase # "idle" =>
         job'["p"].decisions = [r \in Run |-> [outcome |-> "reproduced", was |-> "allow", now |-> "deny"]]

\* The builds are interchangeable: b2 begins after b1 has, and only where temporary files can be
\* removed; one tool's answer changes.
PackMoves ==
    /\ build'["b2"] # NotBegun => build["b1"] # NotBegun /\ removable
    /\ \A t \in Tool \ {"tokenfuse"} : edition'[t] = 0

MCNext ==
    \/ /\ part = "stream" /\ CloudNext
       /\ UNCHANGED <<feedVars, proofVars, statsVars, graphVars, panelVars, storeVars, packVars, part>>
    \/ /\ part = "feed" /\ FeedNext
       /\ UNCHANGED <<cloudVars, proofVars, statsVars, graphVars, panelVars, storeVars, packVars, part>>
    \/ /\ part = "proofs" /\ ProofNext /\ ProofMoves
       /\ UNCHANGED <<cloudVars, feedVars, statsVars, graphVars, panelVars, storeVars, packVars, part>>
    \/ part = "stats" /\ StatsNext /\ StatsMoves /\ InStats
    \/ part = "profiles" /\ StatsNext /\ ProfileMoves /\ InStats
    \/ /\ part = "graph" /\ GraphNext
       /\ UNCHANGED <<cloudVars, feedVars, proofVars, statsVars, panelVars, storeVars, packVars, part>>
    \/ /\ part = "panels" /\ PanelNext
       /\ UNCHANGED <<cloudVars, feedVars, proofVars, statsVars, graphVars, storeVars, packVars, part>>
    \/ /\ part = "reports" /\ StoreNext
       /\ UNCHANGED <<cloudVars, feedVars, proofVars, statsVars, graphVars, panelVars, packVars, part>>
    \/ /\ part = "pack" /\ PackNext
       /\ PackMoves
       /\ UNCHANGED <<cloudVars, feedVars, proofVars, statsVars, graphVars, panelVars, storeVars, part>>

MCSpec ==
    /\ MCInit
    /\ [][MCNext]_<<cloudVars, feedVars, proofVars, statsVars, graphVars, panelVars, storeVars,
                    packVars, part>>
=============================================================================
