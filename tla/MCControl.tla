------------------------------ MODULE MCControl ------------------------------
(***************************************************************************)
(* Instances of the two ways an operator takes an agent out of work,        *)
(* LifecycleBlocks (deny-all policies in wardryx) and AgentStop (a ban at   *)
(* vouchryx and kills in the Cloud), and of PlaneDiscovery, by which the    *)
(* console finds the services they go to.  They share no state, so a        *)
(* behaviour is of one of them: `part` is chosen at the start and the state *)
(* of the other parts stands still.                                         *)
(***************************************************************************)
EXTENDS LifecycleBlocks, AgentStop, PlaneDiscovery, SequencesExt

CONSTANTS a1, a2, a3, pay, payments, h1

VARIABLE part

\* Two agents are in one unit, the third in another; idryx records an owner of the
\* first, written in full.
TwoUnits == (a1 :> pay) @@ (a2 :> pay) @@ (a3 :> payments)
OneOwner == (a1 :> h1) @@ (a2 :> None) @@ (a3 :> None)

\* Every run is of the agent that is stopped.
RunOfA1 == [r \in Run |-> a1]

\* What sanitize spells, in parts: the second unit goes on after the first, and the
\* second agent after the first agent.
Spelling == (a1 :> <<"rec">>) @@ (a2 :> <<"rec", "2">>) @@ (a3 :> <<"out">>)
            @@ (pay :> <<"pay">>) @@ (payments :> <<"pay", "ments">>) @@ (h1 :> <<"h">>)
BlockPrefixes == [e \in Entity |-> <<e.kind>> \o Spelling[e.key]]
MemberIds == [e \in Entity |-> [a \in Agent |-> BlockPrefixes[e] \o <<"--">> \o Spelling[a]]]
Ids       == {PolicyId(e, a) : e \in Entity, a \in Agent}
Begins    == {<<id, p>> \in Ids \X {BlockPrefixes[e] : e \in Entity} : IsPrefix(p, id)}

AgentOf(a) == [kind |-> "agent", key |-> a]
UnitOf(u)  == [kind |-> "unit", key |-> u]
AllKinds   == {AgentOf(a1), UnitOf(pay), UnitOf(payments), [kind |-> "user", key |-> h1]}

planeVars == <<disk, byHand, wellKnown, found, settled, journaled, loads, bom, quiet,
               changes, starts>>
all == <<vars, stopVars, planeVars, part>>

MCInit ==
    /\ Init /\ StopsInit /\ DiscoveryInit
    /\ part \in {"blocks", "stop", "planes"}
    /\ part # "stop" => issuer = "stored"
    /\ disk["e2"] = Absent      \* the names are interchangeable
    /\ part # "planes" => byHand = {} /\ wellKnown = {} /\ disk["e1"] = Absent

\* The slots for calls are interchangeable: the second is taken after the first.
\* In a behaviour a request fails or an agent moves, not both.
InOrder ==
    /\ pc["c2"] = "idle" /\ pc'["c2"] # "idle" => pc["c1"] # "idle"
    /\ faults' + moves' <= 1
StopsInOrder == at["s2"] = "idle" /\ at'["s2"] # "idle" => at["s1"] # "idle"

InBlocks == part = "blocks" /\ UNCHANGED <<stopVars, planeVars, part>>
InStop   == part = "stop" /\ UNCHANGED <<vars, planeVars, part>>
InPlanes == part = "planes" /\ UNCHANGED <<vars, stopVars, part>>

MCNext ==
    \/ InBlocks /\ Next /\ InOrder
    \/ InStop /\ StopsNext /\ StopsInOrder
    \/ InPlanes /\ DiscoveryNext

\* What the fair specification of each part asks for; the part never changes.
MCSpec ==
    /\ MCInit /\ [][MCNext]_all
    /\ WF_all(\/ InBlocks /\ Progress
              \/ InStop /\ StopsProgress
              \/ InPlanes /\ Resolving)
=============================================================================
