--------------------------- MODULE ControlProofs ----------------------------
(***************************************************************************)
(* Proofs about the two ways an operator takes an agent out of work:       *)
(* LifecycleBlocks, for any agents, units, users, calls, deaths and failed *)
(* requests, and AgentStop, for any agents, runs, calls in flight together,*)
(* failed requests and restarts of vouchryx.                               *)
(***************************************************************************)
EXTENDS LifecycleBlocks, AgentStop, FiniteSetTheorems, TLAPS

-----------------------------------------------------------------------------
(***************************************************************************)
(* LifecycleBlocks.                                                        *)
(***************************************************************************)
(***************************************************************************)
(* Types.                                                                   *)
(***************************************************************************)
Active(c) == pc[c] # "idle"

\* An active call has an entity operators act on; a rebuild that is due has an
\* attempt left.
HasAsk    == \A c \in Call : Active(c) => call[c] \in Ask /\ call[c].ent \in Toggled
TriesLeft == rebuild = "due" => tries < Tries
Typed     == TypeOK /\ HasAsk /\ TriesLeft

\* Who may be a member of an entity.
Fit(e, a) ==
    /\ e.kind = "agent" => a = e.key
    /\ e.kind = "unit" => Team[a] = e.key
    /\ e.kind = "user" => Owner[a] # None /\ OwnerMatches(Owner[a], e.key)

LEMMA AskFields ==
    ASSUME NEW k \in Ask
    PROVE  k.ent \in Entity /\ k.on \in BOOLEAN /\ k.members \subseteq Agent /\ k.alone \in BOOLEAN
  BY DEF Ask

LEMMA EntityFields ==
    ASSUME NEW e \in Entity
    PROVE  /\ e.kind \in {"agent", "unit", "user"} /\ e.key \in Agent \cup Unit \cup Handle
           /\ e.kind = "agent" => e.key \in Agent
           /\ e = [kind |-> e.kind, key |-> e.key]
  BY DEF Entity

LEMMA MembersTyping ==
    ASSUME TypeOK, NEW e \in Entity, NEW idryx \in BOOLEAN, NEW cloud \in BOOLEAN
    PROVE  /\ Members(e, idryx, cloud) \subseteq Agent
           /\ \A a \in Members(e, idryx, cloud) : Fit(e, a)
  <1>1. CASE e.kind = "agent"
    BY <1>1, EntityFields DEF Members, Fit
  <1>2. CASE e.kind = "unit"
    BY <1>2 DEF Members, AgentsInUnit, TypeOK, Fit
  <1>3. CASE e.kind = "user"
    BY <1>3 DEF Members, AgentsOfUser, Owned, TypeOK, Fit
  <1>4. QED
    BY <1>1, <1>2, <1>3, EntityFields

LEMMA Counters ==
    ASSUME TypeOK
    PROVE  /\ MaxCalls \in Nat /\ MaxCrashes \in Nat /\ MaxFaults \in Nat /\ Tries \in Nat \ {0}
           /\ calls \in Nat /\ crashes \in Nat /\ faults \in Nat /\ tries \in Nat
           /\ calls <= MaxCalls /\ crashes <= MaxCrashes /\ faults <= MaxFaults /\ tries <= Tries
  <1>1. /\ MaxCalls \in Nat /\ MaxCrashes \in Nat /\ MaxFaults \in Nat /\ Tries \in Nat \ {0}
    BY ConstantsAssumption
  <1>2. calls \in 0..MaxCalls /\ crashes \in 0..MaxCrashes /\ faults \in 0..MaxFaults
        /\ tries \in 0..Tries
    BY DEF TypeOK
  <1>3. QED
    BY <1>1, <1>2

LEMMA AnswersTyping ==
    ASSUME TypeOK, NEW ok \in BOOLEAN, Answers(ok)
    PROVE  faults' \in 0..MaxFaults /\ faults <= faults' /\ (faults' = 0 => ok)
  <1>1. CASE ok
    BY <1>1, Counters DEF Answers
  <1>2. CASE ~ ok
    BY <1>2, Counters DEF Answers
  <1>3. QED
    BY <1>1, <1>2

LEMMA PolicyFields ==
    ASSUME NEW e, NEW a
    PROVE  Policy(e, a).of = e /\ Policy(e, a).target = a /\ Policy(e, a).id = PolicyId(e, a)
  BY DEF Policy

LEMMA PoliciesTyping ==
    ASSUME TypeOK, NEW e \in Entity, NEW a \in Agent
    PROVE  Written(Policy(e, a)) \subseteq Policies
  <1>1. Policy(e, a) \in Policies
    BY DEF Policies
  <1>2. policy \subseteq Policies
    BY DEF TypeOK
  <1>3. QED
    BY <1>1, <1>2 DEF Written

\* A call that ends leaves nothing behind, and the others are as they were.
LEMMA FinishTyping ==
    ASSUME Typed, NEW c \in Call, Finish(c)
    PROVE  /\ pc' \in [Call -> {"idle", "put", "list", "delete", "record"}]
           /\ call' \in [Call -> Ask \cup {Idle}]
           /\ todo' \in [Call -> SUBSET Agent] /\ listed' \in [Call -> SUBSET Policies]
           /\ HasAsk' /\ ~ Active(c)'
           /\ \A d \in Call : d # c => /\ pc'[d] = pc[d] /\ call'[d] = call[d]
                                       /\ todo'[d] = todo[d] /\ listed'[d] = listed[d]
  <1>1. /\ pc' \in [Call -> {"idle", "put", "list", "delete", "record"}]
        /\ call' \in [Call -> Ask \cup {Idle}]
        /\ todo' \in [Call -> SUBSET Agent] /\ listed' \in [Call -> SUBSET Policies]
        /\ pc'[c] = "idle"
        /\ \A d \in Call : d # c => /\ pc'[d] = pc[d] /\ call'[d] = call[d]
                                    /\ todo'[d] = todo[d] /\ listed'[d] = listed[d]
    BY DEF Finish, Typed, TypeOK
  <1>2. HasAsk' /\ ~ Active(c)'
    BY <1>1 DEF Typed, HasAsk, Active
  <1>3. QED
    BY <1>1, <1>2

\* A call moves on to its next request.
LEMMA MoveTyping ==
    ASSUME Typed, NEW c \in Call, NEW to \in {"put", "list", "delete", "record"}, Active(c),
           pc' = [pc EXCEPT ![c] = to], call' = call
    PROVE  /\ pc' \in [Call -> {"idle", "put", "list", "delete", "record"}]
           /\ HasAsk' /\ pc'[c] = to /\ \A d \in Call : d # c => pc'[d] = pc[d]
           /\ \A d \in Call : Active(d)' <=> Active(d)
  <1>1. /\ pc' \in [Call -> {"idle", "put", "list", "delete", "record"}]
        /\ pc'[c] = to /\ \A d \in Call : d # c => pc'[d] = pc[d]
    BY DEF Typed, TypeOK
  <1>2. \A d \in Call : Active(d)' <=> Active(d)
    BY <1>1 DEF Active
  <1>3. QED
    BY <1>1, <1>2 DEF Typed, HasAsk

LEMMA AbortTyping ==
    ASSUME Typed, NEW c \in Call, Active(c), Abort(c), policy' \subseteq Policies
    PROVE  Typed'
  <1>1. call[c].ent \in Entity
    BY AskFields DEF Typed, HasAsk
  <1>2. blurred' \subseteq Entity /\ torn' \subseteq Entity /\ faults' \in 0..MaxFaults
    BY <1>1, Counters DEF Abort, Disturbed, Typed, TypeOK
  <1>3. QED
    BY <1>2, FinishTyping DEF Abort, Typed, TypeOK, TriesLeft, store, task, fleet

LEMMA ToggleTyping ==
    ASSUME Typed, NEW c \in Call, NEW e \in Toggled, NEW on \in BOOLEAN, NEW idryx \in BOOLEAN,
           NEW cloud \in BOOLEAN, Toggle(c, e, on, idryx, cloud)
    PROVE  Typed'
  <1>1. e \in Entity /\ Members(e, idryx, cloud) \subseteq Agent
    BY MembersTyping, ConstantsAssumption DEF Typed
  <1>2. owners' \subseteq Agent
    BY DEF Toggle, CacheOwners, Owned, Typed, TypeOK
  <1>3. faults' \in 0..MaxFaults /\ calls' \in 0..MaxCalls
    BY AnswersTyping, Counters DEF Toggle, Typed
  <1>4. CASE on /\ Members(e, idryx, cloud) = {}
    BY <1>2, <1>3, <1>4
       DEF Toggle, Typed, TypeOK, HasAsk, Active, TriesLeft, handlers, fleet
  <1>5. CASE ~ (on /\ Members(e, idryx, cloud) = {})
    <2> DEFINE k == [ent |-> e, on |-> on, members |-> Members(e, idryx, cloud),
                     alone |-> Busy(e) = {}]
    <2>1. k \in Ask /\ k.ent = e
      BY <1>1 DEF Ask
    <2>2. /\ call' = [d \in Call |-> IF d = c THEN k
                        ELSE IF pc[d] # "idle" /\ Disturbs(e, on, call[d].ent)
                        THEN [call[d] EXCEPT !.alone = FALSE]
                        ELSE call[d]]
          /\ pc' = [pc EXCEPT ![c] = IF on THEN "put" ELSE "list"]
      BY <1>5 DEF Toggle
    <2> HIDE DEF k
    <2>3. \A d \in Call : pc[d] # "idle" => /\ call[d] \in Ask
                                            /\ [call[d] EXCEPT !.alone = FALSE] \in Ask
                                            /\ [call[d] EXCEPT !.alone = FALSE].ent = call[d].ent
      BY DEF Typed, HasAsk, Active, Ask
    <2>4. call' \in [Call -> Ask \cup {Idle}]
      BY <2>1, <2>2, <2>3 DEF Typed, TypeOK
    <2>5. HasAsk'
      <3> SUFFICES ASSUME NEW d \in Call, Active(d)' PROVE call'[d] \in Ask /\ call'[d].ent \in Toggled
        BY DEF HasAsk
      <3>1. CASE d = c
        BY <2>1, <2>2, <3>1
      <3>2. CASE d # c
        <4>1. pc'[d] = pc[d]
          BY <2>2, <3>2 DEF Typed, TypeOK
        <4>2. call[d] \in Ask /\ call[d].ent \in Toggled
          BY <4>1 DEF Typed, HasAsk, Active
        <4>3. QED
          BY <2>2, <2>3, <3>2, <4>2
      <3>3. QED
        BY <3>1, <3>2
    <2>6. /\ pc' \in [Call -> {"idle", "put", "list", "delete", "record"}]
          /\ todo' \in [Call -> SUBSET Agent] /\ listed' \in [Call -> SUBSET Policies]
          /\ promised' \in [Entity -> SUBSET Agent]
      BY <1>1, <1>5 DEF Toggle, Typed, TypeOK
    <2>7. snapshot' \in [shown : SUBSET Entity, owners : SUBSET Agent, since : SUBSET Entity]
      <3>1. snapshot' = [snapshot EXCEPT !.since = snapshot.since \cup {f \in Entity : Disturbs(e, on, f)}]
        BY <1>5 DEF Toggle
      <3>2. snapshot \in [shown : SUBSET Entity, owners : SUBSET Agent, since : SUBSET Entity]
        BY DEF Typed, TypeOK
      <3>3. QED
        BY <1>1, <3>1, <3>2
    <2>8. QED
      BY <1>2, <1>3, <1>5, <2>4, <2>5, <2>6, <2>7 DEF Toggle, Typed, TypeOK, TriesLeft, fleet
  <1>6. QED
    BY <1>4, <1>5

LEMMA CallTyping ==
    ASSUME Typed, NEW c \in Call, CallStep(c)
    PROVE  Typed'
  <1>0. Active(c) /\ call[c].ent \in Entity
    BY AskFields DEF CallStep, Put, PutFails, List, ListFails, Delete, DeleteFails, Record,
                     Typed, HasAsk, Active
  <1>1. ASSUME NEW a \in Agent, Put(c, a) PROVE Typed'
    <2>1. todo' \in [Call -> SUBSET Agent] /\ policy' \subseteq Policies
      BY <1>0, <1>1, PoliciesTyping DEF Put, Typed, TypeOK
    <2>2. HasAsk' /\ pc' \in [Call -> {"idle", "put", "list", "delete", "record"}]
      BY <1>0, <1>1, MoveTyping DEF Put
    <2>3. QED
      BY <1>1, <2>1, <2>2 DEF Put, Typed, TypeOK, TriesLeft, store, task, history, bounds, fleet
  <1>2. ASSUME NEW a \in Agent, PutFails(c, a) PROVE Typed'
    BY <1>0, <1>2, PoliciesTyping, AbortTyping DEF PutFails, Typed, TypeOK
  <1>3. CASE List(c)
    <2>1. listed' \in [Call -> SUBSET Policies]
      BY <1>3 DEF List, Typed, TypeOK
    <2>2. HasAsk' /\ pc' \in [Call -> {"idle", "put", "list", "delete", "record"}]
      BY <1>0, <1>3, MoveTyping DEF List
    <2>3. QED
      BY <1>3, <2>1, <2>2 DEF List, Typed, TypeOK, TriesLeft, remote, store, task, history, bounds, fleet
  <1>4. CASE ListFails(c)
    BY <1>0, <1>4, AbortTyping DEF ListFails, Typed, TypeOK
  <1>5. ASSUME NEW p \in listed[c], Delete(c, p) PROVE Typed'
    <2>1. listed' \in [Call -> SUBSET Policies] /\ policy' \subseteq Policies
      BY <1>5 DEF Delete, Deleted, Typed, TypeOK
    <2>2. HasAsk' /\ pc' \in [Call -> {"idle", "put", "list", "delete", "record"}]
      BY <1>0, <1>5, MoveTyping DEF Delete
    <2>3. QED
      BY <1>5, <2>1, <2>2 DEF Delete, Typed, TypeOK, TriesLeft, store, task, history, bounds, fleet
  <1>6. ASSUME NEW p \in listed[c], DeleteFails(c, p) PROVE Typed'
    BY <1>0, <1>6, AbortTyping DEF DeleteFails, Deleted, Typed, TypeOK
  <1>7. CASE Record(c)
    <2>1. /\ shown' \subseteq Entity /\ blurred' \subseteq Entity /\ torn' \subseteq Entity
      BY <1>0, <1>7 DEF Record, Cleared, Disturbed, Typed, TypeOK
    <2>2. Denied(c) \subseteq Agent
      BY <1>0, AskFields DEF Denied, Typed, HasAsk
    <2>3. promised' \in [Entity -> SUBSET Agent]
      BY <1>7, <2>2 DEF Record, Typed, TypeOK
    <2>4. QED
      BY <1>7, <2>1, <2>3, FinishTyping DEF Record, Typed, TypeOK, TriesLeft, remote, task, bounds, fleet
  <1>8. QED
    BY <1>1, <1>2, <1>3, <1>4, <1>5, <1>6, <1>7 DEF CallStep

LEMMA PolicyOf ==
    ASSUME TypeOK, NEW p \in policy
    PROVE  p.of \in Entity
  <1>1. PICK e \in Entity, a \in Agent : p = Policy(e, a)
    BY DEF TypeOK, Policies
  <1>2. QED
    BY <1>1, PolicyFields

LEMMA OtherTyping ==
    ASSUME Typed,
           \/ \E idryx \in BOOLEAN : RebuildRead(idryx)
           \/ RebuildFails \/ RebuildApply \/ Crash \/ Restart \/ UNCHANGED vars
           \/ \E a \in Movers : Move(a)
    PROVE  Typed'
  <1>1. ASSUME NEW idryx \in BOOLEAN, RebuildRead(idryx) PROVE Typed'
    <2>1. faults' \in 0..MaxFaults
      BY <1>1, AnswersTyping DEF RebuildRead, Typed
    <2>2. Rehydrate \subseteq Entity
      BY PolicyOf DEF Rehydrate, Typed
    <2>3. snapshot' \in [shown : SUBSET Entity, owners : SUBSET Agent, since : SUBSET Entity]
      BY <1>1, <2>2 DEF RebuildRead, Owned, Typed, TypeOK
    <2>4. QED
      BY <1>1, <2>1, <2>3
         DEF RebuildRead, Typed, TypeOK, HasAsk, Active, TriesLeft, remote, store, handlers, history,
             fleet
  <1>2. CASE RebuildFails
    <2>1. tries' \in 0..Tries /\ faults' \in 0..MaxFaults /\ TriesLeft'
      BY <1>2, Counters DEF RebuildFails, Typed, TriesLeft
    <2>2. QED
      BY <1>2, <2>1
         DEF RebuildFails, Typed, TypeOK, HasAsk, Active, remote, store, handlers, history, fleet
  <1>3. CASE RebuildApply
    BY <1>3 DEF RebuildApply, Nothing, Typed, TypeOK, HasAsk, Active, TriesLeft, remote, handlers,
                     bounds, fleet
  <1>4. CASE Crash
    <2>1. /\ call' \in [Call -> Ask \cup {Idle}] /\ pc' \in [Call -> {"idle"}]
          /\ todo' \in [Call -> SUBSET Agent] /\ listed' \in [Call -> SUBSET Policies]
          /\ tries' \in 0..Tries /\ tries' < Tries /\ crashes' \in 0..MaxCrashes
      BY <1>4, Counters DEF Crash, Typed
    <2>2. HasAsk'
      BY <2>1 DEF HasAsk, Active
    <2>3. QED
      BY <1>4, <2>1, <2>2 DEF Crash, Nothing, Typed, TypeOK, TriesLeft, remote, fleet
  <1>5. CASE Restart \/ UNCHANGED vars
    BY <1>5 DEF Restart, vars, Typed, TypeOK, HasAsk, Active, TriesLeft, remote, store, handlers,
                task, history, bounds, fleet
  <1>6. ASSUME NEW a \in Movers, Move(a) PROVE Typed'
    <2>1. identities' \subseteq Agent /\ running' \subseteq Agent /\ moved' \subseteq Agent
      BY <1>6, ConstantsAssumption DEF Move, Typed, TypeOK
    <2>2. moves' \in 0..MaxMoves
      BY <1>6, ConstantsAssumption DEF Move, Typed, TypeOK
    <2>3. QED
      BY <1>6, <2>1, <2>2 DEF Move, Typed, TypeOK, HasAsk, Active, TriesLeft, remote, store, handlers,
                              task, history
  <1>7. QED
    BY <1>1, <1>2, <1>3, <1>4, <1>5, <1>6

LEMMA TypedStep == Typed /\ [Next]_vars => Typed'
  <1> SUFFICES ASSUME Typed, [Next]_vars PROVE Typed'
    OBVIOUS
  <1>1. ASSUME NEW c \in Call, NEW e \in Toggled, NEW on \in BOOLEAN, NEW idryx \in BOOLEAN,
               NEW cloud \in BOOLEAN, Toggle(c, e, on, idryx, cloud)
        PROVE  Typed'
    BY <1>1, ToggleTyping
  <1>2. ASSUME NEW c \in Call, CallStep(c) PROVE Typed'
    BY <1>2, CallTyping
  <1>3. QED
    BY <1>1, <1>2, OtherTyping DEF Next

LEMMA InitTyped == Init => Typed
  BY ConstantsAssumption DEF Init, Nothing, Typed, TypeOK, HasAsk, Active, TriesLeft

(***************************************************************************)
(* What a call may take along.                                              *)
(***************************************************************************)
\* A policy the console writes: for an entity operators act on and an agent that
\* may be a member.
Proper(p) == \E e \in Toggled, a \in Agent : p = Policy(e, a) /\ Fit(e, a)

LEMMA ProperFields ==
    ASSUME NEW p, Proper(p)
    PROVE  /\ p.of \in Toggled /\ p.of \in Entity /\ p.target \in Agent
           /\ p = Policy(p.of, p.target) /\ p.id = PolicyId(p.of, p.target) /\ Fit(p.of, p.target)
  BY PolicyFields, ConstantsAssumption DEF Proper

\* A block that writes an id, and an unblock whose prefix an id starts with, take
\* along the entity the id is of.
LEMMA TakesIs ==
    ASSUME NEW f \in Entity, NEW e \in Entity, NEW a \in Agent, NEW b \in Agent
    PROVE  /\ f # e /\ PolicyId(f, b) = PolicyId(e, a) => Takes(f, TRUE, e)
           /\ Under(PolicyId(e, a), f) => Takes(f, FALSE, e)
  BY DEF Takes, Overwritten, Swept, Under

LEMMA TakesTyping ==
    ASSUME NEW f \in Entity, NEW on \in BOOLEAN, NEW e
    PROVE  /\ Takes(f, on, e) => e \in Entity /\ (on => e # f)
           /\ Disturbs(f, on, e) => e \in Entity
           /\ Disturbs(f, on, f)
  BY DEF Takes, Overwritten, Swept, Disturbs

LEMMA SoleIs ==
    ASSUME NEW e \in Entity, NEW a \in Agent, NEW b \in Agent, Fit(e, a), Fit(e, b),
           e.kind = "agent" \/ Sole(e, a), PolicyId(e, b) = PolicyId(e, a)
    PROVE  a = b
  BY DEF Sole, Single, Fit

(***************************************************************************)
(* What a call has done so far.                                             *)
(***************************************************************************)
HasPolicy(e)   == \E p \in policy : p.of = e
PoliciesProper == \A p \in policy : Proper(p)

\* A block puts, an unblock lists and deletes what is under the entity's prefix; a
\* call that has ended leaves no list.
Blocking(c)   == Active(c) /\ call[c].on
Unblocking(c) == Active(c) /\ ~ call[c].on
GoesOn(c) ==
    /\ todo[c] \subseteq call[c].members
    /\ \A a \in call[c].members : Fit(call[c].ent, a)
    /\ call[c].on => /\ pc[c] \in {"put", "record"} /\ call[c].members # {}
                     /\ pc[c] = "record" => todo[c] = {}
    /\ ~ call[c].on => /\ pc[c] \in {"list", "delete", "record"}
                       /\ pc[c] = "record" => listed[c] = {}
    /\ \A p \in listed[c] : Proper(p) /\ Under(p.id, call[c].ent)
Conduct == \A c \in Call : IF Active(c) THEN GoesOn(c) ELSE listed[c] = {}

\* A call in flight that may change the policies of entity e.
May(d, e) == Active(d) /\ Disturbs(call[d].ent, call[d].on, e)

\* Alone means that no other call may change the policies of its entity.
Alone == \A c, d \in Call :
    Active(c) /\ call[c].alone /\ May(d, call[c].ent) => d = c

\* A block that is alone has every member but those still to do; an unblock that
\* is alone and has its list has what is left of it.
PutSoFar(c) == Blocking(c) /\ call[c].alone =>
    /\ \A a \in call[c].members \ todo[c] : Sole(call[c].ent, a) => Policy(call[c].ent, a) \in policy
    /\ call[c].members \ todo[c] # {} => HasPolicy(call[c].ent)
ListedAll(c) == Unblocking(c) /\ call[c].alone /\ pc[c] # "list" =>
    \A p \in policy : p.of = call[c].ent => p \in listed[c]
Results == \A c \in Call : PutSoFar(c) /\ ListedAll(c)

\* Nothing is promised of an entity some call takes along.
Unpromised == \A c \in Call : Active(c) =>
    \A e \in Entity : Takes(call[c].ent, call[c].on, e) => promised[e] = {}
Promise == \A e \in Toggled : \A a \in promised[e] :
    Policy(e, a) \in policy /\ Sole(e, a)

BlockInv == /\ Typed /\ PoliciesProper /\ Conduct /\ Alone /\ Results
            /\ Unpromised /\ Promise

LEMMA ActiveEntity ==
    ASSUME BlockInv, NEW c \in Call, Active(c)
    PROVE  /\ call[c] \in Ask /\ call[c].ent \in Toggled /\ call[c].ent \in Entity
           /\ call[c].members \subseteq Agent /\ call[c].on \in BOOLEAN /\ call[c].alone \in BOOLEAN
           /\ \A a \in call[c].members : Fit(call[c].ent, a) /\ Proper(Policy(call[c].ent, a))
  <1>1. call[c] \in Ask /\ call[c].ent \in Toggled
    BY DEF BlockInv, Typed, HasAsk
  <1>2. call[c].members \subseteq Agent /\ call[c].ent \in Entity
    BY <1>1, AskFields
  <1>3. \A a \in call[c].members : Fit(call[c].ent, a)
    BY DEF BlockInv, Conduct, GoesOn
  <1>4. \A a \in call[c].members : Proper(Policy(call[c].ent, a))
    BY <1>1, <1>2, <1>3 DEF Proper
  <1>5. QED
    BY <1>1, <1>2, <1>3, <1>4, AskFields

\* A step of a call leaves the other calls as they were, and the policies of the
\* entities it does not disturb; what it adds is of its entity.
Same(d)  == /\ pc'[d] = pc[d] /\ call'[d] = call[d]
            /\ todo'[d] = todo[d] /\ listed'[d] = listed[d]
Keeps(c) == /\ \A q \in policy : Disturbs(call[c].ent, call[c].on, q.of) \/ q \in policy'
            /\ \A q \in policy' : q \in policy \/ (call[c].on /\ q.of = call[c].ent)
            /\ \A e \in Toggled : \A a \in promised[e] : Policy(e, a) \in policy'
            /\ \A q \in policy' : Proper(q)

\* The policies of an entity that a step of another call does not disturb.
LEMMA Undisturbed ==
    ASSUME NEW c \in Call, Keeps(c), NEW e, ~ Disturbs(call[c].ent, call[c].on, e)
    PROVE  /\ \A q : q.of = e => (q \in policy <=> q \in policy')
           /\ HasPolicy(e)' <=> HasPolicy(e)
  <1>1. \A q : q.of = e => (q \in policy <=> q \in policy')
    BY DEF Keeps, Disturbs
  <1>2. QED
    BY <1>1 DEF HasPolicy

LEMMA OthersGoOn ==
    ASSUME BlockInv, NEW c \in Call, Active(c), NEW d \in Call, d # c, Same(d), Keeps(c)
    PROVE  /\ IF Active(d)' THEN GoesOn(d)' ELSE (listed[d] = {})'
           /\ PutSoFar(d)' /\ ListedAll(d)'
  <1>1. IF Active(d)' THEN GoesOn(d)' ELSE (listed[d] = {})'
    BY DEF BlockInv, Conduct, GoesOn, Active, Same
  <1>2. ASSUME Active(d), call[d].alone
        PROVE  \A q : q.of = call[d].ent => (q \in policy <=> q \in policy')
    <2>1. ~ Disturbs(call[c].ent, call[c].on, call[d].ent)
      BY <1>2 DEF BlockInv, Alone, May
    <2>2. QED
      BY <2>1, Undisturbed
  <1>3. PutSoFar(d)'
    <2>1. SUFFICES ASSUME Blocking(d)', call'[d].alone
                   PROVE  /\ \A a \in call'[d].members \ todo'[d] :
                                Sole(call'[d].ent, a) => Policy(call'[d].ent, a) \in policy'
                          /\ call'[d].members \ todo'[d] # {} => \E p \in policy' : p.of = call'[d].ent
      BY DEF PutSoFar, HasPolicy
    <2>2. Blocking(d) /\ call[d].alone /\ call'[d] = call[d] /\ todo'[d] = todo[d]
      BY <2>1 DEF Same, Blocking, Active
    <2>3. \A q : q.of = call[d].ent => (q \in policy <=> q \in policy')
      BY <1>2, <2>2 DEF Blocking
    <2>4. /\ \A a \in call[d].members \ todo[d] :
                Sole(call[d].ent, a) => Policy(call[d].ent, a) \in policy
          /\ call[d].members \ todo[d] # {} => \E p \in policy : p.of = call[d].ent
      BY <2>2 DEF BlockInv, Results, PutSoFar, HasPolicy
    <2>5. QED
      BY <2>2, <2>3, <2>4, PolicyFields
  <1>4. ListedAll(d)'
    <2>1. SUFFICES ASSUME Unblocking(d)', call'[d].alone, pc'[d] # "list", NEW p \in policy',
                          p.of = call'[d].ent
                   PROVE  p \in listed'[d]
      BY DEF ListedAll
    <2>2. Unblocking(d) /\ call[d].alone /\ pc[d] # "list" /\ p.of = call[d].ent
      BY <2>1 DEF Same, Unblocking, Active
    <2>3. p \in policy
      BY <1>2, <2>2 DEF Unblocking
    <2>4. QED
      BY <2>2, <2>3 DEF BlockInv, Results, ListedAll, Same
  <1>5. QED
    BY <1>1, <1>3, <1>4

\* So a step of a call has to answer for that call only.
LEMMA CallBlockStep ==
    ASSUME BlockInv, Typed', NEW c \in Call, Active(c), \A d \in Call : d # c => Same(d), Keeps(c),
           IF Active(c)' THEN call'[c] = call[c] /\ GoesOn(c)' ELSE (listed[c] = {})',
           PutSoFar(c)', ListedAll(c)',
           \/ promised' = promised
           \/ /\ ~ Active(c)' /\ call[c].on /\ call[c].alone
              /\ \A e \in Entity : e # call[c].ent => promised'[e] = promised[e]
              /\ \A a \in promised'[call[c].ent] :
                    Policy(call[c].ent, a) \in policy' /\ Sole(call[c].ent, a)
    PROVE  BlockInv'
  <1>1. PoliciesProper'
    BY DEF PoliciesProper, Keeps
  <1>2. Conduct' /\ Results'
    BY OthersGoOn DEF Conduct, Results
  <1>3. \A d \in Call : Active(d)' => call'[d] = call[d] /\ Active(d)
    BY DEF Same, Active
  <1>4. Alone'
    BY <1>3 DEF Alone, BlockInv, May
  <1>5. Unpromised'
    <2>1. SUFFICES ASSUME NEW d \in Call, Active(d)', NEW e \in Entity,
                          Takes(call'[d].ent, call'[d].on, e)
                   PROVE  promised'[e] = {}
      BY DEF Unpromised
    <2>2. Active(d) /\ Takes(call[d].ent, call[d].on, e)
      BY <1>3, <2>1
    <2>3. promised[e] = {}
      BY <2>2 DEF BlockInv, Unpromised
    <2>4. CASE promised' = promised
      BY <2>3, <2>4
    <2>5. CASE promised' # promised
      <3>1. ~ Active(c)' /\ call[c].alone /\ \A f \in Entity : f # call[c].ent => promised'[f] = promised[f]
        BY <2>5
      <3>2. e # call[c].ent
        BY <2>1, <2>2, <3>1 DEF BlockInv, Alone, May, Disturbs
      <3>3. QED
        BY <2>3, <3>1, <3>2
    <2>6. QED
      BY <2>4, <2>5
  <1>6. Promise'
    <2>1. SUFFICES ASSUME NEW e \in Toggled, NEW a \in promised'[e]
                   PROVE  Policy(e, a) \in policy' /\ Sole(e, a)
      BY DEF Promise
    <2>2. CASE promised' = promised \/ e # call[c].ent
      <3>1. e \in Entity
        BY ConstantsAssumption
      <3>2. a \in promised[e]
        BY <2>1, <2>2, <3>1
      <3>3. QED
        BY <3>2 DEF Keeps, BlockInv, Promise
    <2>3. CASE promised' # promised /\ e = call[c].ent
      BY <2>1, <2>3
    <2>4. QED
      BY <2>2, <2>3
  <1>7. QED
    BY <1>1, <1>2, <1>4, <1>5, <1>6 DEF BlockInv

\* A put replaces what is under its id, which is of its entity or taken along; what
\* is promised has an id of its own.
LEMMA PutKeeps ==
    ASSUME BlockInv, NEW c \in Call, Blocking(c), NEW a \in todo[c],
           policy' = Written(Policy(call[c].ent, a))
    PROVE  /\ Keeps(c) /\ Policy(call[c].ent, a) \in policy'
           /\ \A q \in policy : q.id # PolicyId(call[c].ent, a) => q \in policy'
  <1>0. PICK f \in Entity : f = call[c].ent
    BY ActiveEntity DEF Blocking
  <1>1. /\ Proper(Policy(f, a)) /\ a \in Agent /\ Fit(f, a) /\ call[c].on = TRUE
        /\ Policy(f, a).of = f /\ Policy(f, a).id = PolicyId(f, a)
    BY <1>0, ActiveEntity, PolicyFields DEF Blocking, BlockInv, Conduct, GoesOn
  <1>2. policy' = {q \in policy : q.id # PolicyId(f, a)} \cup {Policy(f, a)}
    BY <1>0, <1>1 DEF Written
  <1>3. ASSUME NEW q \in policy PROVE Disturbs(f, TRUE, q.of) \/ q \in policy'
    <2>1. q.of \in Entity /\ q.target \in Agent /\ q.id = PolicyId(q.of, q.target)
      BY <1>3, ProperFields DEF BlockInv, PoliciesProper
    <2>2. CASE q.id = PolicyId(f, a) /\ q.of # f
      BY <1>1, <2>1, <2>2, TakesIs DEF Disturbs
    <2>3. CASE q.id # PolicyId(f, a)
      BY <1>2, <2>3
    <2>4. QED
      BY <2>2, <2>3 DEF Disturbs
  <1>4. \A q \in policy' : Proper(q) /\ (q \in policy \/ q.of = f)
    BY <1>1, <1>2 DEF BlockInv, PoliciesProper
  <1>5. ASSUME NEW e \in Toggled, NEW b \in promised[e] PROVE Policy(e, b) \in policy'
    <2>1. Policy(e, b) \in policy /\ Sole(e, b) /\ e \in Entity
      BY <1>5, ConstantsAssumption DEF BlockInv, Promise
    <2>2. b \in Agent /\ Fit(e, b) /\ Policy(e, b).id = PolicyId(e, b) /\ Policy(e, b).of = e
      BY <2>1, ProperFields, PolicyFields DEF BlockInv, PoliciesProper
    <2>3. CASE PolicyId(e, b) # PolicyId(f, a)
      BY <1>2, <2>1, <2>2, <2>3
    <2>4. CASE PolicyId(e, b) = PolicyId(f, a) /\ e # f
      <3>1. Takes(f, TRUE, e)
        BY <1>1, <2>1, <2>2, <2>4, TakesIs
      <3>2. promised[e] = {}
        BY <1>0, <1>1, <2>1, <3>1 DEF BlockInv, Unpromised, Blocking
      <3>3. QED
        BY <1>5, <3>2
    <2>5. CASE PolicyId(e, b) = PolicyId(f, a) /\ e = f
      <3>1. a = b
        BY <1>1, <2>1, <2>2, <2>5, SoleIs
      <3>2. QED
        BY <1>2, <2>5, <3>1
    <2>6. QED
      BY <2>3, <2>4, <2>5
  <1>6. Keeps(c)
    BY <1>0, <1>1, <1>3, <1>4, <1>5 DEF Keeps
  <1>7. QED
    BY <1>0, <1>2, <1>6

\* A delete takes what starts with the prefix of its entity.
LEMMA DeleteKeeps ==
    ASSUME BlockInv, NEW c \in Call, Unblocking(c), NEW p \in listed[c], policy' = Deleted(p)
    PROVE  Keeps(c) /\ policy' \subseteq policy \ {p}
  <1>0. PICK f \in Entity : f = call[c].ent
    BY ActiveEntity DEF Unblocking
  <1>1. Proper(p) /\ Under(p.id, f) /\ call[c].on = FALSE
    BY <1>0, ActiveEntity DEF Unblocking, BlockInv, Conduct, GoesOn
  <1>2. policy' = {q \in policy : q.id # p.id}
    BY DEF Deleted
  <1>3. ASSUME NEW q \in policy, q \notin policy' PROVE Takes(f, FALSE, q.of) /\ q.of \in Entity
    <2>1. q.of \in Entity /\ q.target \in Agent /\ q.id = PolicyId(q.of, q.target)
      BY <1>3, ProperFields DEF BlockInv, PoliciesProper
    <2>2. Under(PolicyId(q.of, q.target), f)
      BY <1>1, <1>2, <1>3, <2>1
    <2>3. QED
      BY <2>1, <2>2, TakesIs
  <1>4. ASSUME NEW e \in Toggled, NEW b \in promised[e] PROVE Policy(e, b) \in policy'
    <2>1. Policy(e, b) \in policy /\ Policy(e, b).of = e
      BY <1>4, PolicyFields DEF BlockInv, Promise
    <2>2. CASE Policy(e, b) \notin policy'
      <3>1. Takes(f, FALSE, e) /\ e \in Entity
        BY <1>3, <2>1, <2>2
      <3>2. promised[e] = {}
        BY <1>0, <1>1, <3>1 DEF BlockInv, Unpromised, Unblocking
      <3>3. QED
        BY <1>4, <3>2
    <2>3. QED
      BY <2>2
  <1>5. Keeps(c)
    BY <1>0, <1>1, <1>2, <1>3, <1>4 DEF Keeps, Disturbs, BlockInv, PoliciesProper
  <1>6. QED
    BY <1>2, <1>5

LEMMA StillKeeps ==
    ASSUME BlockInv, NEW c \in Call, policy' = policy
    PROVE  Keeps(c)
  BY DEF Keeps, BlockInv, PoliciesProper, Promise

LEMMA AbortBlockStep ==
    ASSUME BlockInv, Typed', NEW c \in Call, Active(c), Abort(c), Keeps(c)
    PROVE  BlockInv'
  <1>1. /\ ~ Active(c)' /\ \A d \in Call : d # c => Same(d)
    BY FinishTyping DEF Abort, BlockInv, Same
  <1>2. (listed[c] = {})' /\ PutSoFar(c)' /\ ListedAll(c)'
    BY <1>1 DEF Abort, Finish, BlockInv, Typed, TypeOK, PutSoFar, ListedAll, Blocking, Unblocking
  <1>3. promised' = promised
    BY DEF Abort
  <1>4. QED
    BY <1>1, <1>2, <1>3, CallBlockStep

LEMMA PutBlockStep ==
    ASSUME BlockInv, Typed', NEW c \in Call, NEW a \in Agent, Put(c, a)
    PROVE  BlockInv'
  <1>1. Active(c) /\ a \in todo[c] /\ call' = call /\ listed' = listed /\ promised' = promised
    BY DEF Put, Active, history
  <1>2. Blocking(c) /\ GoesOn(c)
    BY <1>1, ActiveEntity DEF Put, BlockInv, Conduct, GoesOn, Blocking
  <1>3. /\ Keeps(c) /\ Policy(call[c].ent, a) \in policy'
        /\ \A q \in policy : q.id # PolicyId(call[c].ent, a) => q \in policy'
    BY <1>1, <1>2, PutKeeps DEF Put
  <1>4. /\ todo'[c] = todo[c] \ {a} /\ \A d \in Call : d # c => todo'[d] = todo[d]
    BY DEF Put, BlockInv, Typed, TypeOK
  <1>5. /\ pc'[c] = IF todo'[c] = {} THEN "record" ELSE "put"
        /\ \A d \in Call : d # c => pc'[d] = pc[d]
    BY DEF Put, BlockInv, Typed, TypeOK
  <1>6. \A d \in Call : d # c => Same(d)
    BY <1>1, <1>4, <1>5 DEF Same
  <1>7. Active(c)' /\ GoesOn(c)'
    BY <1>1, <1>2, <1>4, <1>5 DEF Active, GoesOn, Blocking
  <1>8. PutSoFar(c)'
    <2>1. SUFFICES ASSUME call[c].alone
                   PROVE  /\ \A b \in call[c].members \ todo'[c] :
                                Sole(call[c].ent, b) => Policy(call[c].ent, b) \in policy'
                          /\ \E p \in policy' : p.of = call[c].ent
      BY <1>1 DEF PutSoFar, HasPolicy
    <2>2. ASSUME NEW b \in call[c].members \ todo'[c], Sole(call[c].ent, b)
          PROVE  Policy(call[c].ent, b) \in policy'
      <3>1. CASE b = a
        BY <1>3, <3>1
      <3>2. CASE b # a
        <4>1. Policy(call[c].ent, b) \in policy
          BY <1>2, <1>4, <2>1, <2>2, <3>2 DEF BlockInv, Results, PutSoFar
        <4>2. call[c].ent \in Entity /\ b \in Agent /\ Fit(call[c].ent, a) /\ Fit(call[c].ent, b)
          BY <1>1, <1>2, <2>2, ActiveEntity DEF GoesOn
        <4>3. PolicyId(call[c].ent, a) # PolicyId(call[c].ent, b)
          BY <2>2, <3>2, <4>2, SoleIs
        <4>4. QED
          BY <1>3, <4>1, <4>3, PolicyFields
      <3>3. QED
        BY <3>1, <3>2
    <2>3. QED
      BY <1>3, <2>2, PolicyFields
  <1>9. ListedAll(c)'
    BY <1>1, <1>2 DEF ListedAll, Blocking, Unblocking
  <1>10. QED
    BY <1>1, <1>3, <1>6, <1>7, <1>8, <1>9, CallBlockStep

LEMMA ListBlockStep ==
    ASSUME BlockInv, Typed', NEW c \in Call, List(c)
    PROVE  BlockInv'
  <1>1. Active(c) /\ call' = call /\ todo' = todo /\ promised' = promised /\ policy' = policy
    BY DEF List, Active, history, remote
  <1>2. /\ listed'[c] = {p \in policy : Under(p.id, call[c].ent)}
        /\ \A d \in Call : d # c => listed'[d] = listed[d]
    BY DEF List, BlockInv, Typed, TypeOK
  <1>3. /\ pc'[c] = IF listed'[c] = {} THEN "record" ELSE "delete"
        /\ \A d \in Call : d # c => pc'[d] = pc[d]
    BY DEF List, BlockInv, Typed, TypeOK
  <1>4. \A d \in Call : d # c => Same(d)
    BY <1>1, <1>2, <1>3 DEF Same
  <1>5. \A p \in policy : Proper(p) /\ (p.of = call[c].ent => p \in listed'[c])
    <2> SUFFICES ASSUME NEW p \in policy, p.of = call[c].ent PROVE Under(p.id, call[c].ent)
      BY <1>2 DEF BlockInv, PoliciesProper
    <2>1. p.of \in Entity /\ p.target \in Agent /\ p.id = PolicyId(p.of, p.target)
      BY ProperFields DEF BlockInv, PoliciesProper
    <2>2. QED
      BY <2>1, ConstantsAssumption DEF Under
  <1>6. ~ call[c].on /\ GoesOn(c)
    BY <1>1, ActiveEntity DEF List, BlockInv, Conduct, GoesOn
  <1>7. Active(c)' /\ GoesOn(c)'
    BY <1>1, <1>2, <1>3, <1>5, <1>6 DEF Active, GoesOn
  <1>8. PutSoFar(c)' /\ ListedAll(c)'
    BY <1>1, <1>5, <1>6 DEF PutSoFar, ListedAll, Blocking, Unblocking, Active
  <1>9. QED
    BY <1>1, <1>4, <1>7, <1>8, StillKeeps, CallBlockStep

LEMMA DeleteBlockStep ==
    ASSUME BlockInv, Typed', NEW c \in Call, NEW p \in listed[c], Delete(c, p)
    PROVE  BlockInv'
  <1>1. Active(c) /\ call' = call /\ todo' = todo /\ promised' = promised
    BY DEF Delete, Active, history
  <1>2. pc[c] = "delete" /\ ~ call[c].on /\ GoesOn(c) /\ Unblocking(c)
    BY <1>1, ActiveEntity DEF Delete, BlockInv, Conduct, GoesOn, Unblocking
  <1>3. Keeps(c) /\ policy' \subseteq policy \ {p}
    BY <1>2, DeleteKeeps DEF Delete
  <1>4. /\ listed'[c] = listed[c] \ {p} /\ \A d \in Call : d # c => listed'[d] = listed[d]
    BY DEF Delete, BlockInv, Typed, TypeOK
  <1>5. /\ pc'[c] = IF listed'[c] = {} THEN "record" ELSE "delete"
        /\ \A d \in Call : d # c => pc'[d] = pc[d]
    BY DEF Delete, BlockInv, Typed, TypeOK
  <1>6. \A d \in Call : d # c => Same(d)
    BY <1>1, <1>4, <1>5 DEF Same
  <1>7. Active(c)' /\ GoesOn(c)'
    BY <1>1, <1>2, <1>4, <1>5 DEF Active, GoesOn
  <1>8. PutSoFar(c)' /\ ListedAll(c)'
    BY <1>1, <1>2, <1>3, <1>4 DEF BlockInv, Results, PutSoFar, ListedAll, Blocking, Unblocking, Active
  <1>9. QED
    BY <1>1, <1>3, <1>6, <1>7, <1>8, CallBlockStep

\* What a call that was alone has established when it is recorded.
LEMMA RecordMeans ==
    ASSUME BlockInv, NEW c \in Call, Record(c), call[c].alone
    PROVE  /\ call[c].on => /\ HasPolicy(call[c].ent)
                            /\ \A a \in Denied(c) : Policy(call[c].ent, a) \in policy
           /\ ~ call[c].on => ~ HasPolicy(call[c].ent)
  <1>1. Active(c) /\ pc[c] = "record" /\ GoesOn(c)
    BY DEF Record, Active, BlockInv, Conduct
  <1>2. CASE call[c].on
    BY <1>1, <1>2 DEF GoesOn, BlockInv, Results, PutSoFar, Blocking, Denied
  <1>3. CASE ~ call[c].on
    BY <1>1, <1>3 DEF GoesOn, BlockInv, Results, ListedAll, Unblocking, HasPolicy
  <1>4. QED
    BY <1>2, <1>3

LEMMA RecordBlockStep ==
    ASSUME BlockInv, Typed', NEW c \in Call, Record(c)
    PROVE  BlockInv'
  <1>1. Active(c) /\ policy' = policy
    BY DEF Record, Active, remote
  <1>2. /\ ~ Active(c)' /\ \A d \in Call : d # c => Same(d)
    BY FinishTyping DEF Record, BlockInv, Same
  <1>3. (listed[c] = {})' /\ PutSoFar(c)' /\ ListedAll(c)'
    BY <1>2 DEF Record, Finish, BlockInv, Typed, TypeOK, PutSoFar, ListedAll, Blocking, Unblocking
  <1>4. CASE call[c].on /\ call[c].alone
    <2>1. /\ promised'[call[c].ent] = Denied(c)
          /\ \A e \in Entity : e # call[c].ent => promised'[e] = promised[e]
      BY <1>1, <1>4, ActiveEntity DEF Record, BlockInv, Typed, TypeOK
    <2>2. \A a \in Denied(c) : Policy(call[c].ent, a) \in policy' /\ Sole(call[c].ent, a)
      BY <1>1, <1>4, RecordMeans DEF Denied
    <2>3. QED
      BY <1>1, <1>2, <1>3, <1>4, <2>1, <2>2, StillKeeps, CallBlockStep
  <1>5. CASE ~ (call[c].on /\ call[c].alone)
    <2>1. promised' = promised
      BY <1>5 DEF Record
    <2>2. QED
      BY <1>1, <1>2, <1>3, <2>1, StillKeeps, CallBlockStep
  <1>6. QED
    BY <1>4, <1>5

\* A call comes in: those it may disturb are no longer alone, and nothing is
\* promised any more of what it takes along.
LEMMA ToggleFacts ==
    ASSUME BlockInv, NEW c \in Call, NEW e \in Toggled, NEW on \in BOOLEAN, NEW idryx \in BOOLEAN,
           NEW cloud \in BOOLEAN, Toggle(c, e, on, idryx, cloud),
           ~ (on /\ Members(e, idryx, cloud) = {})
    PROVE  /\ ~ Active(c) /\ policy' = policy /\ listed' = listed
           /\ pc'[c] = (IF on THEN "put" ELSE "list")
           /\ todo'[c] = (IF on THEN Members(e, idryx, cloud) ELSE {})
           /\ call'[c].ent = e /\ call'[c].on = on
           /\ call'[c].members = Members(e, idryx, cloud) /\ (call'[c].alone => Busy(e) = {})
           /\ \A d \in Call : d # c =>
                 /\ pc'[d] = pc[d] /\ todo'[d] = todo[d]
                 /\ Active(d) => /\ call'[d].ent = call[d].ent /\ call'[d].on = call[d].on
                                 /\ call'[d].members = call[d].members
                                 /\ call'[d].alone =>
                                       call[d].alone /\ ~ Disturbs(e, on, call[d].ent)
           /\ \A f \in Entity : promised'[f] = IF Takes(e, on, f) THEN {} ELSE promised[f]
           /\ snapshot' = [snapshot EXCEPT !.since = snapshot.since \cup {f \in Entity : Disturbs(e, on, f)}]
  <1>1. /\ call' = [d \in Call |->
              IF d = c THEN [ent |-> e, on |-> on, members |-> Members(e, idryx, cloud),
                             alone |-> Busy(e) = {}]
              ELSE IF pc[d] # "idle" /\ Disturbs(e, on, call[d].ent)
              THEN [call[d] EXCEPT !.alone = FALSE]
              ELSE call[d]]
        /\ pc' = [pc EXCEPT ![c] = IF on THEN "put" ELSE "list"]
        /\ todo' = [todo EXCEPT ![c] = IF on THEN Members(e, idryx, cloud) ELSE {}]
        /\ promised' = [f \in Entity |-> IF Takes(e, on, f) THEN {} ELSE promised[f]]
        /\ snapshot' = [snapshot EXCEPT !.since = snapshot.since \cup {f \in Entity : Disturbs(e, on, f)}]
        /\ listed' = listed /\ policy' = policy /\ pc[c] = "idle"
    BY DEF Toggle
  <1>2. /\ pc'[c] = (IF on THEN "put" ELSE "list") /\ \A d \in Call : d # c => pc'[d] = pc[d]
        /\ todo'[c] = (IF on THEN Members(e, idryx, cloud) ELSE {})
        /\ \A d \in Call : d # c => todo'[d] = todo[d]
    BY <1>1 DEF BlockInv, Typed, TypeOK
  <1>3. ASSUME NEW d \in Call, d # c, Active(d)
        PROVE  /\ call'[d].ent = call[d].ent /\ call'[d].on = call[d].on
               /\ call'[d].members = call[d].members
               /\ call'[d].alone => call[d].alone /\ ~ Disturbs(e, on, call[d].ent)
    <2>1. call[d] \in Ask /\ pc[d] # "idle"
      BY <1>3, ActiveEntity DEF Active
    <2>2. CASE Disturbs(e, on, call[d].ent)
      <3>1. call'[d] = [call[d] EXCEPT !.alone = FALSE]
        BY <1>1, <1>3, <2>1, <2>2
      <3>2. QED
        BY <2>1, <3>1 DEF Ask
    <2>3. CASE ~ Disturbs(e, on, call[d].ent)
      BY <1>1, <1>3, <2>3
    <2>4. QED
      BY <2>2, <2>3
  <1>4. /\ call'[c].ent = e /\ call'[c].on = on
        /\ call'[c].members = Members(e, idryx, cloud) /\ (call'[c].alone => Busy(e) = {})
    <2>1. call'[c] = [ent |-> e, on |-> on, members |-> Members(e, idryx, cloud),
                      alone |-> Busy(e) = {}]
      BY <1>1
    <2>2. PICK b \in BOOLEAN : b = (Busy(e) = {})
      BY Zenon
    <2>3. call'[c] = [ent |-> e, on |-> on, members |-> Members(e, idryx, cloud), alone |-> b]
      BY <2>1, <2>2, Zenon
    <2>4. b => Busy(e) = {}
      BY <2>2, Zenon
    <2>5. QED
      BY <2>3, <2>4
  <1>5. QED
    BY <1>1, <1>2, <1>3, <1>4 DEF Active

LEMMA ToggleBlockStep ==
    ASSUME BlockInv, Typed', NEW c \in Call, NEW e \in Toggled, NEW on \in BOOLEAN,
           NEW idryx \in BOOLEAN, NEW cloud \in BOOLEAN, Toggle(c, e, on, idryx, cloud),
           ~ (on /\ Members(e, idryx, cloud) = {})
    PROVE  BlockInv'
  <1> DEFINE m == Members(e, idryx, cloud)
  <1>1. /\ ~ Active(c) /\ policy' = policy /\ listed' = listed /\ listed[c] = {}
        /\ pc'[c] = (IF on THEN "put" ELSE "list")
        /\ todo'[c] = (IF on THEN m ELSE {})
        /\ call'[c].ent = e /\ call'[c].on = on /\ call'[c].members = m
        /\ call'[c].alone => Busy(e) = {}
        /\ \A f \in Entity : promised'[f] = IF Takes(e, on, f) THEN {} ELSE promised[f]
    BY ToggleFacts DEF BlockInv, Conduct
  <1>2. \A d \in Call : d # c =>
              /\ pc'[d] = pc[d] /\ todo'[d] = todo[d]
              /\ Active(d) => /\ call'[d].ent = call[d].ent /\ call'[d].on = call[d].on
                              /\ call'[d].members = call[d].members
                              /\ call'[d].alone => call[d].alone /\ ~ Disturbs(e, on, call[d].ent)
    BY ToggleFacts
  <1>3. e \in Entity /\ \A a \in m : Fit(e, a)
    BY MembersTyping, ConstantsAssumption DEF BlockInv, Typed
  <1>4. on => m # {}
    OBVIOUS
  <1> HIDE DEF m
  <1>5. PoliciesProper'
    BY <1>1 DEF BlockInv, PoliciesProper
  <1>6. Conduct'
    <2> SUFFICES ASSUME NEW d \in Call PROVE IF Active(d)' THEN GoesOn(d)' ELSE listed'[d] = {}
      BY DEF Conduct
    <2>1. CASE d = c
      BY <1>1, <1>3, <1>4, <2>1 DEF GoesOn, Active
    <2>2. CASE d # c
      BY <1>1, <1>2, <2>2 DEF BlockInv, Conduct, GoesOn, Active
    <2>3. QED
      BY <2>1, <2>2
  <1>7. Alone'
    <2> SUFFICES ASSUME NEW d \in Call, NEW f \in Call, Active(d)', call'[d].alone, May(f, call[d].ent)'
                 PROVE  f = d
      BY DEF Alone
    <2>0. Active(f)' /\ Disturbs(call'[f].ent, call'[f].on, call'[d].ent)
      BY DEF May
    <2>1. CASE d = c /\ f # c
      <3>1. Active(f) /\ Disturbs(call[f].ent, call[f].on, e)
        BY <1>1, <1>2, <2>0, <2>1 DEF Active
      <3>2. QED
        BY <1>1, <2>1, <3>1 DEF Busy, Active
    <2>2. CASE d # c /\ f = c
      BY <1>1, <1>2, <2>0, <2>2 DEF Active
    <2>3. CASE d # c /\ f # c
      <3>1. /\ Active(d) /\ call[d].alone /\ Active(f)
            /\ Disturbs(call[f].ent, call[f].on, call[d].ent)
        BY <1>2, <2>0, <2>3 DEF Active
      <3>2. QED
        BY <3>1 DEF BlockInv, Alone, May
    <2>4. QED
      BY <2>1, <2>2, <2>3
  <1>8. Results'
    <2> SUFFICES ASSUME NEW d \in Call PROVE PutSoFar(d)' /\ ListedAll(d)'
      BY DEF Results
    <2>1. CASE d = c
      BY <1>1, <2>1 DEF PutSoFar, ListedAll, Blocking, Unblocking
    <2>2. CASE d # c
      BY <1>1, <1>2, <2>2
         DEF BlockInv, Results, PutSoFar, ListedAll, Blocking, Unblocking, Active, HasPolicy
    <2>3. QED
      BY <2>1, <2>2
  <1>9. Unpromised'
    <2> SUFFICES ASSUME NEW d \in Call, Active(d)', NEW f \in Entity, Takes(call'[d].ent, call'[d].on, f)
                 PROVE  promised'[f] = {}
      BY DEF Unpromised
    <2>1. CASE d = c
      BY <1>1, <2>1
    <2>2. CASE d # c
      <3>1. Active(d) /\ Takes(call[d].ent, call[d].on, f)
        BY <1>2, <2>2 DEF Active
      <3>2. QED
        BY <1>1, <3>1 DEF BlockInv, Unpromised
    <2>3. QED
      BY <2>1, <2>2
  <1>10. Promise'
    BY <1>1, ConstantsAssumption DEF BlockInv, Promise
  <1>11. QED
    BY <1>5, <1>6, <1>7, <1>8, <1>9, <1>10 DEF BlockInv

\* The rebuild, a start, a new face and a toggle that is refused leave the calls
\* alone; a death ends them all.
LEMMA QuietBlockStep ==
    ASSUME BlockInv, Typed', UNCHANGED <<policy, promised, handlers>>
    PROVE  BlockInv'
  BY DEF BlockInv, PoliciesProper, Conduct, GoesOn, Alone, May, Results, PutSoFar, ListedAll, Blocking,
         Unblocking, Unpromised, Promise, Active, HasPolicy, handlers

LEMMA CrashBlockStep ==
    ASSUME BlockInv, Typed', Crash
    PROVE  BlockInv'
  <1>1. policy' = policy /\ promised' = promised
    BY DEF Crash, remote
  <1>2. \A c \in Call : ~ Active(c)' /\ listed'[c] = {}
    BY DEF Crash, Active
  <1>3. Conduct' /\ Alone' /\ Results' /\ Unpromised'
    BY <1>2 DEF Conduct, Alone, Results, PutSoFar, ListedAll, Blocking, Unblocking, Unpromised
  <1>4. QED
    BY <1>1, <1>3 DEF BlockInv, PoliciesProper, Promise

LEMMA RefusedBlockStep ==
    ASSUME BlockInv, Typed', NEW c \in Call, NEW e \in Toggled, NEW on \in BOOLEAN,
           NEW idryx \in BOOLEAN, NEW cloud \in BOOLEAN, Toggle(c, e, on, idryx, cloud),
           on /\ Members(e, idryx, cloud) = {}
    PROVE  BlockInv'
  BY QuietBlockStep DEF Toggle

\* A request that fails may have been carried out.
LEMMA FailKeeps ==
    ASSUME BlockInv, NEW c \in Call
    PROVE  /\ \A a \in Agent : PutFails(c, a) => Active(c) /\ Abort(c) /\ Keeps(c)
           /\ ListFails(c) => Active(c) /\ Abort(c) /\ Keeps(c)
           /\ \A p \in listed[c] : DeleteFails(c, p) => Active(c) /\ Abort(c) /\ Keeps(c)
  <1>1. ASSUME NEW a \in Agent, PutFails(c, a) PROVE Active(c) /\ Abort(c) /\ Keeps(c)
    <2>1. Active(c) /\ a \in todo[c] /\ Abort(c) /\ pc[c] = "put"
      BY <1>1 DEF PutFails, Active
    <2>2. Blocking(c)
      BY <2>1, ActiveEntity DEF Blocking, BlockInv, Conduct, GoesOn
    <2>3. CASE policy' = policy
      BY <2>1, <2>3, StillKeeps
    <2>4. CASE policy' = Written(Policy(call[c].ent, a))
      BY <2>1, <2>2, <2>4, PutKeeps
    <2>5. QED
      BY <1>1, <2>3, <2>4 DEF PutFails
  <1>2. ASSUME ListFails(c) PROVE Active(c) /\ Abort(c) /\ Keeps(c)
    BY <1>2, StillKeeps DEF ListFails, Active
  <1>3. ASSUME NEW p \in listed[c], DeleteFails(c, p) PROVE Active(c) /\ Abort(c) /\ Keeps(c)
    <2>1. Active(c) /\ Abort(c) /\ pc[c] = "delete"
      BY <1>3 DEF DeleteFails, Active
    <2>2. Unblocking(c)
      BY <2>1, ActiveEntity DEF Unblocking, BlockInv, Conduct, GoesOn
    <2>3. CASE policy' = policy
      BY <2>1, <2>3, StillKeeps
    <2>4. CASE policy' = Deleted(p)
      BY <2>1, <2>2, <2>4, DeleteKeeps
    <2>5. QED
      BY <1>3, <2>3, <2>4 DEF DeleteFails
  <1>4. QED
    BY <1>1, <1>2, <1>3

LEMMA CallStepBlock ==
    ASSUME BlockInv, Typed', NEW c \in Call, CallStep(c)
    PROVE  BlockInv'
  <1>1. ASSUME Active(c), Abort(c), Keeps(c) PROVE BlockInv'
    BY <1>1, AbortBlockStep
  <1>2. QED
    BY <1>1, FailKeeps, PutBlockStep, ListBlockStep, DeleteBlockStep, RecordBlockStep DEF CallStep

LEMMA BlockStep ==
    ASSUME BlockInv, [Next]_vars
    PROVE  BlockInv'
  <1>1. Typed'
    BY TypedStep DEF BlockInv
  <1>2. ASSUME NEW c \in Call, NEW e \in Toggled, NEW on \in BOOLEAN, NEW idryx \in BOOLEAN,
               NEW cloud \in BOOLEAN, Toggle(c, e, on, idryx, cloud)
        PROVE  BlockInv'
    BY <1>1, <1>2, ToggleBlockStep, RefusedBlockStep
  <1>3. ASSUME NEW c \in Call, CallStep(c) PROVE BlockInv'
    BY <1>1, <1>3, CallStepBlock
  <1>4. ASSUME \/ \E idryx \in BOOLEAN : RebuildRead(idryx)
               \/ RebuildFails \/ RebuildApply \/ Restart \/ UNCHANGED vars
               \/ \E a \in Movers : Move(a)
        PROVE  BlockInv'
    <2>1. UNCHANGED <<policy, promised, handlers>>
      BY <1>4 DEF RebuildRead, RebuildFails, RebuildApply, Restart, Move, vars, remote, history
    <2>2. QED
      BY <1>1, <2>1, QuietBlockStep
  <1>5. ASSUME Crash PROVE BlockInv'
    BY <1>1, <1>5, CrashBlockStep
  <1>6. QED
    BY <1>2, <1>3, <1>4, <1>5 DEF Next

LEMMA InitBlock == Init => BlockInv
  <1> SUFFICES ASSUME Init PROVE BlockInv
    OBVIOUS
  <1>1. \A c \in Call : ~ Active(c) /\ listed[c] = {}
    BY DEF Init, Active
  <1>2. Conduct /\ Alone /\ Results /\ Unpromised
    BY <1>1 DEF Conduct, Alone, Results, PutSoFar, ListedAll, Blocking, Unblocking, Unpromised
  <1>3. PoliciesProper /\ Promise
    BY ConstantsAssumption DEF Init, PoliciesProper, Promise
  <1>4. QED
    BY <1>2, <1>3, InitTyped DEF BlockInv

\* The state has its types, whatever fails, overlaps or dies.
THEOREM BlocksTypeCorrect == Spec => []TypeOK
  <1>1. Typed => TypeOK
    BY DEF Typed
  <1>2. QED
    BY InitTyped, TypedStep, <1>1, PTL DEF Spec

\* A confirmed block stays in force until somebody unblocks its entity or calls for
\* one that takes its policies along, for any names, calls, deaths, failed requests
\* and changes of who is in a unit.
THEOREM BlockHoldsAlways == Spec => []BlockHolds
  <1>1. BlockInv => BlockHolds
    BY PolicyFields DEF BlockInv, Promise, BlockHolds
  <1>2. BlockInv /\ [Next]_vars => BlockInv'
    BY BlockStep
  <1>3. QED
    BY InitBlock, <1>1, <1>2, PTL DEF Spec

(***************************************************************************)
(* What the console shows.                                                  *)
(***************************************************************************)
\* The store, and the one the rebuild has yet to put in place, are right about
\* every entity that nothing is going on for.
ShownRight == rebuild = "done" =>
    \A e \in Toggled : Busy(e) = {} /\ e \notin blurred => (e \in shown <=> HasPolicy(e))
SnapshotRight == rebuild = "read" =>
    \A e \in Toggled : e \notin snapshot.since =>
        Busy(e) = {} /\ (e \in snapshot.shown <=> HasPolicy(e))

ReflectInv == BlockInv /\ ShownRight /\ SnapshotRight

\* A step of a call, for what the console shows: it goes on, fails, or is recorded.
Onward(c) ==
    \/ Active(c)' /\ call'[c] = call[c] /\ UNCHANGED <<shown, blurred, torn, faults>>
    \/ ~ Active(c)' /\ Abort(c)
    \/ ~ Active(c)' /\ Record(c) /\ policy' = policy

LEMMA CallShape ==
    ASSUME BlockInv, NEW c \in Call, CallStep(c)
    PROVE  /\ Active(c) /\ \A d \in Call : d # c => Same(d)
           /\ Keeps(c) /\ UNCHANGED <<owners, rebuild, snapshot, fleet>>
           /\ \A p \in policy' : p \in policy \/ \E a \in call[c].members : p = Policy(call[c].ent, a)
           /\ Onward(c)
  <1> DEFINE New == \A p \in policy' :
                 p \in policy \/ \E a \in call[c].members : p = Policy(call[c].ent, a)
  <1>1. ASSUME Finish(c) PROVE ~ Active(c)' /\ \A d \in Call : d # c => Same(d)
    BY <1>1, FinishTyping DEF BlockInv, Same
  <1>2. ASSUME NEW a \in todo[c], Active(c), policy' = policy \/ policy' = Written(Policy(call[c].ent, a))
        PROVE  New
    <2>1. a \in call[c].members
      BY <1>2 DEF BlockInv, Conduct, GoesOn
    <2>2. QED
      BY <1>2, <2>1 DEF Written
  <1>3. ASSUME Active(c), Abort(c), Keeps(c), New
        PROVE  /\ Active(c) /\ (\A d \in Call : d # c => Same(d)) /\ Keeps(c) /\ New
               /\ UNCHANGED <<owners, rebuild, snapshot, fleet>> /\ Onward(c)
    BY <1>1, <1>3 DEF Abort, store, task, Onward
  <1>4. ASSUME NEW a \in Agent, Put(c, a)
        PROVE  /\ Active(c) /\ (\A d \in Call : d # c => Same(d)) /\ Keeps(c) /\ New
               /\ UNCHANGED <<owners, rebuild, snapshot, fleet>> /\ Onward(c)
    <2>1. Active(c) /\ a \in todo[c] /\ policy' = Written(Policy(call[c].ent, a)) /\ pc[c] = "put"
      BY <1>4 DEF Put, Active
    <2>2. Keeps(c)
      BY <2>1, ActiveEntity, PutKeeps DEF Blocking, BlockInv, Conduct, GoesOn
    <2>3. (\A d \in Call : d # c => Same(d)) /\ Active(c)'
      BY <1>4 DEF Put, Same, Active, BlockInv, Typed, TypeOK
    <2>4. UNCHANGED <<owners, rebuild, snapshot, fleet, shown, blurred, torn, faults, call>>
      BY <1>4 DEF Put, store, task, history, bounds
    <2>5. QED
      BY <1>2, <2>1, <2>2, <2>3, <2>4 DEF Onward
  <1>5. ASSUME NEW a \in Agent, PutFails(c, a) PROVE New
    BY <1>2, <1>5 DEF PutFails, Active
  <1>6. ASSUME List(c)
        PROVE  /\ Active(c) /\ (\A d \in Call : d # c => Same(d)) /\ Keeps(c) /\ New
               /\ UNCHANGED <<owners, rebuild, snapshot, fleet>> /\ Onward(c)
    <2>1. (\A d \in Call : d # c => Same(d)) /\ Active(c) /\ Active(c)'
      BY <1>6 DEF List, Same, Active, BlockInv, Typed, TypeOK
    <2>2. UNCHANGED <<owners, rebuild, snapshot, fleet, shown, blurred, torn, faults, call, policy>>
      BY <1>6 DEF List, remote, store, task, history, bounds
    <2>3. QED
      BY <2>1, <2>2, StillKeeps DEF Onward
  <1>7. ASSUME ListFails(c) PROVE New
    BY <1>7 DEF ListFails
  <1>8. ASSUME NEW p \in listed[c], Delete(c, p)
        PROVE  /\ Active(c) /\ (\A d \in Call : d # c => Same(d)) /\ Keeps(c) /\ New
               /\ UNCHANGED <<owners, rebuild, snapshot, fleet>> /\ Onward(c)
    <2>1. Active(c) /\ policy' = Deleted(p) /\ pc[c] = "delete"
      BY <1>8 DEF Delete, Active
    <2>2. Keeps(c)
      BY <2>1, ActiveEntity, DeleteKeeps DEF Unblocking, BlockInv, Conduct, GoesOn
    <2>3. (\A d \in Call : d # c => Same(d)) /\ Active(c)'
      BY <1>8 DEF Delete, Same, Active, BlockInv, Typed, TypeOK
    <2>4. UNCHANGED <<owners, rebuild, snapshot, fleet, shown, blurred, torn, faults, call>>
      BY <1>8 DEF Delete, store, task, history, bounds
    <2>5. New
      BY <2>1 DEF Deleted
    <2>6. QED
      BY <2>1, <2>2, <2>3, <2>4, <2>5 DEF Onward
  <1>9. ASSUME NEW p \in listed[c], DeleteFails(c, p) PROVE New
    BY <1>9 DEF DeleteFails, Deleted
  <1>10. ASSUME Record(c)
         PROVE  /\ Active(c) /\ (\A d \in Call : d # c => Same(d)) /\ Keeps(c) /\ New
                /\ UNCHANGED <<owners, rebuild, snapshot, fleet>> /\ Onward(c)
    <2>1. Active(c) /\ policy' = policy /\ UNCHANGED <<owners, rebuild, snapshot, fleet>>
      BY <1>10 DEF Record, Active, remote, task
    <2>2. ~ Active(c)' /\ \A d \in Call : d # c => Same(d)
      BY <1>1, <1>10 DEF Record
    <2>3. QED
      BY <1>10, <2>1, <2>2, StillKeeps DEF Onward
  <1> HIDE DEF New
  <1>11. ASSUME \/ \E a \in Agent : PutFails(c, a)
                \/ ListFails(c)
                \/ \E p \in listed[c] : DeleteFails(c, p)
         PROVE  /\ Active(c) /\ (\A d \in Call : d # c => Same(d)) /\ Keeps(c) /\ New
                /\ UNCHANGED <<owners, rebuild, snapshot, fleet>> /\ Onward(c)
    BY <1>3, <1>5, <1>7, <1>9, <1>11, FailKeeps
  <1>12. New /\ Active(c) /\ (\A d \in Call : d # c => Same(d)) /\ Keeps(c)
         /\ UNCHANGED <<owners, rebuild, snapshot, fleet>> /\ Onward(c)
    BY <1>4, <1>6, <1>8, <1>10, <1>11 DEF CallStep
  <1>13. QED
    BY <1>12 DEF New

\* Entities a call does not disturb: no call, no policy of theirs changes.
LEMMA OtherEntities ==
    ASSUME NEW c \in Call, Active(c), \A d \in Call : d # c => Same(d), Keeps(c),
           Active(c)' => call'[c] = call[c], NEW f, ~ Disturbs(call[c].ent, call[c].on, f)
    PROVE  /\ Busy(f)' = Busy(f) /\ (HasPolicy(f)' <=> HasPolicy(f))
           /\ \A p : p.of = f => (p \in policy' <=> p \in policy)
  <1>1. \A d \in Call : d \in Busy(f)' <=> d \in Busy(f)
    BY DEF Busy, Same, Active
  <1>2. Busy(f)' = Busy(f)
    BY <1>1 DEF Busy
  <1>3. QED
    BY <1>2, Undisturbed

LEMMA CallReflect ==
    ASSUME ReflectInv, BlockInv', NEW c \in Call, CallStep(c)
    PROVE  ReflectInv'
  <1>0. PICK ent \in Entity : ent = call[c].ent
    BY CallShape, ActiveEntity DEF ReflectInv
  <1>1. /\ Active(c) /\ (\A d \in Call : d # c => Same(d)) /\ Keeps(c)
        /\ rebuild' = rebuild /\ snapshot' = snapshot
        /\ Active(c)' => call'[c] = call[c]
    BY CallShape DEF ReflectInv, Onward
  <1>2. ent \in Toggled /\ call[c].on \in BOOLEAN /\ call[c].alone \in BOOLEAN
    BY <1>0, <1>1, ActiveEntity DEF ReflectInv
  <1>3. \A f \in Toggled : f \notin Disturbed(c) =>
            Busy(f)' = Busy(f) /\ (HasPolicy(f)' <=> HasPolicy(f))
    BY <1>1, OtherEntities, ConstantsAssumption DEF Disturbed
  <1>4. /\ ent \in Disturbed(c)
        /\ \A f \in Disturbed(c) : f \in Entity /\ c \in Busy(f) /\ (Active(c)' => c \in Busy(f)')
    BY <1>0, <1>1, <1>2, TakesTyping DEF Disturbed, Busy, Active
  <1>5. /\ \A f \in Toggled : f \notin Disturbed(c) =>
              (f \in shown' <=> f \in shown) /\ (f \in blurred' <=> f \in blurred)
        /\ Active(c)' \/ \A f \in Disturbed(c) : f \in blurred' \/ (f \in shown' <=> HasPolicy(f)')
    <2>1. CASE UNCHANGED <<shown, blurred>> /\ Active(c)'
      BY <2>1
    <2>2. CASE Abort(c)
      BY <2>2 DEF Abort, store
    <2>3. CASE Record(c) /\ policy' = policy
      <3>1. \A f \in Toggled : f # ent => (f \in shown' <=> f \in shown)
        BY <1>0, <2>3 DEF Record
      <3>2. blurred' = (Disturbed(c) \cup blurred) \ (IF call[c].alone THEN {ent} ELSE {})
        BY <1>0, <2>3 DEF Record, Cleared
      <3>3. call[c].alone => (ent \in shown' <=> HasPolicy(ent)')
        <4>1. SUFFICES ASSUME call[c].alone PROVE ent \in shown' <=> HasPolicy(ent)'
          OBVIOUS
        <4>2. HasPolicy(ent)' <=> HasPolicy(ent)
          BY <2>3 DEF HasPolicy
        <4>3. CASE call[c].on
          BY <1>0, <2>3, <4>1, <4>2, <4>3, RecordMeans DEF ReflectInv, Record
        <4>4. CASE ~ call[c].on
          BY <1>0, <2>3, <4>1, <4>2, <4>4, RecordMeans DEF ReflectInv, Record
        <4>5. QED
          BY <4>3, <4>4
      <3>4. QED
        BY <1>2, <1>4, <3>1, <3>2, <3>3
    <2>4. QED
      BY <2>1, <2>2, <2>3, CallShape DEF ReflectInv, Onward
  <1>6. ShownRight'
    <2> SUFFICES ASSUME rebuild = "done", NEW f \in Toggled, Busy(f)' = {}, f \notin blurred'
                 PROVE  f \in shown' <=> HasPolicy(f)'
      BY <1>1 DEF ShownRight
    <2>1. CASE f \in Disturbed(c)
      BY <1>4, <1>5, <2>1
    <2>2. CASE f \notin Disturbed(c)
      BY <1>3, <1>5, <2>2 DEF ReflectInv, ShownRight
    <2>3. QED
      BY <2>1, <2>2
  <1>7. SnapshotRight'
    <2> SUFFICES ASSUME rebuild = "read", NEW f \in Toggled, f \notin snapshot.since
                 PROVE  Busy(f)' = {} /\ (f \in snapshot.shown <=> HasPolicy(f)')
      BY <1>1 DEF SnapshotRight
    <2>1. Busy(f) = {} /\ (f \in snapshot.shown <=> HasPolicy(f))
      BY DEF ReflectInv, SnapshotRight
    <2>2. f \notin Disturbed(c)
      BY <1>4, <2>1
    <2>3. QED
      BY <1>3, <2>1, <2>2
  <1>8. QED
    BY <1>6, <1>7 DEF ReflectInv

LEMMA ToggleReflect ==
    ASSUME ReflectInv, BlockInv', NEW c \in Call, NEW e \in Toggled, NEW on \in BOOLEAN,
           NEW idryx \in BOOLEAN, NEW cloud \in BOOLEAN, Toggle(c, e, on, idryx, cloud)
    PROVE  ReflectInv'
  <1>1. policy' = policy /\ shown' = shown /\ rebuild' = rebuild /\ blurred' = blurred
    BY DEF Toggle
  <1>2. CASE on /\ Members(e, idryx, cloud) = {}
    BY <1>1, <1>2 DEF Toggle, handlers, ReflectInv, ShownRight, SnapshotRight, HasPolicy, Busy
  <1>3. CASE ~ (on /\ Members(e, idryx, cloud) = {})
    <2>1. /\ ~ Active(c) /\ pc'[c] # "idle" /\ call'[c].ent = e /\ call'[c].on = on
          /\ \A d \in Call : d # c => /\ pc'[d] = pc[d]
                                      /\ Active(d) => call'[d].ent = call[d].ent /\ call'[d].on = call[d].on
      BY <1>3, ToggleFacts DEF ReflectInv
    <2>2. /\ snapshot'.shown = snapshot.shown
          /\ \A f \in Toggled : f \in snapshot'.since <=> f \in snapshot.since \/ Disturbs(e, on, f)
      BY <1>3, ToggleFacts, ConstantsAssumption DEF ReflectInv, BlockInv, Typed, TypeOK
    <2>3. \A f \in Toggled : Disturbs(e, on, f) => c \in Busy(f)'
      BY <2>1 DEF Busy
    <2>4. ASSUME NEW f \in Toggled, ~ Disturbs(e, on, f) PROVE Busy(f)' = Busy(f)
      <3>1. \A d \in Call : d \in Busy(f)' <=> d \in Busy(f)
        BY <2>1, <2>4 DEF Busy, Active
      <3>2. QED
        BY <3>1 DEF Busy
    <2>5. \A f : HasPolicy(f)' <=> HasPolicy(f)
      BY <1>1 DEF HasPolicy
    <2>6. ShownRight'
      BY <1>1, <2>3, <2>4, <2>5 DEF ReflectInv, ShownRight
    <2>7. SnapshotRight'
      BY <1>1, <2>2, <2>4, <2>5 DEF ReflectInv, SnapshotRight
    <2>8. QED
      BY <2>6, <2>7 DEF ReflectInv
  <1>4. QED
    BY <1>2, <1>3

LEMMA RebuildReflect ==
    ASSUME ReflectInv, BlockInv',
           \/ \E idryx \in BOOLEAN : RebuildRead(idryx)
           \/ RebuildFails \/ RebuildApply \/ Crash \/ Restart \/ UNCHANGED vars
           \/ \E a \in Movers : Move(a)
    PROVE  ReflectInv'
  <1>1. ASSUME NEW idryx \in BOOLEAN, RebuildRead(idryx) PROVE ReflectInv'
    <2>1. /\ rebuild' = "read" /\ policy' = policy /\ handlers' = handlers
          /\ snapshot'.shown = Rehydrate /\ snapshot'.since = {e \in Entity : Busy(e) # {}}
      BY <1>1 DEF RebuildRead, remote
    <2>2. \A e : Busy(e)' = Busy(e) /\ (HasPolicy(e)' <=> HasPolicy(e))
      BY <2>1 DEF Busy, HasPolicy, handlers
    <2>3. \A e : e \in Rehydrate <=> HasPolicy(e)
      BY DEF Rehydrate, HasPolicy
    <2>4. QED
      BY <2>1, <2>2, <2>3, ConstantsAssumption DEF ReflectInv, ShownRight, SnapshotRight
  <1>2. CASE RebuildApply
    <2>1. /\ rebuild = "read" /\ rebuild' = "done" /\ policy' = policy /\ handlers' = handlers
          /\ shown' = snapshot.shown /\ blurred' = snapshot.since
      BY <1>2 DEF RebuildApply, remote
    <2>2. \A e : Busy(e)' = Busy(e) /\ (HasPolicy(e)' <=> HasPolicy(e))
      BY <2>1 DEF Busy, HasPolicy, handlers
    <2>3. QED
      BY <2>1, <2>2 DEF ReflectInv, ShownRight, SnapshotRight
  <1>3. CASE RebuildFails \/ Crash
    BY <1>3 DEF RebuildFails, Crash, ReflectInv, ShownRight, SnapshotRight
  <1>4. CASE Restart \/ UNCHANGED vars \/ \E a \in Movers : Move(a)
    <2>1. UNCHANGED <<policy, shown, blurred, rebuild, snapshot, handlers>>
      BY <1>4 DEF Restart, Move, vars, remote, store, task, history
    <2>2. QED
      BY <2>1 DEF ReflectInv, ShownRight, SnapshotRight, HasPolicy, Busy, handlers
  <1>5. QED
    BY <1>1, <1>2, <1>3, <1>4

LEMMA ReflectStep ==
    ASSUME ReflectInv, [Next]_vars
    PROVE  ReflectInv'
  <1>1. BlockInv'
    BY BlockStep DEF ReflectInv
  <1>2. ASSUME NEW c \in Call, NEW e \in Toggled, NEW on \in BOOLEAN, NEW idryx \in BOOLEAN,
               NEW cloud \in BOOLEAN, Toggle(c, e, on, idryx, cloud)
        PROVE  ReflectInv'
    BY <1>1, <1>2, ToggleReflect
  <1>3. ASSUME NEW c \in Call, CallStep(c) PROVE ReflectInv'
    BY <1>1, <1>3, CallReflect
  <1>4. QED
    BY <1>1, <1>2, <1>3, RebuildReflect DEF Next

(***************************************************************************)
(* The badges, as long as every service answered, of the agents that were   *)
(* listed all along.                                                        *)
(***************************************************************************)
All(e)    == Members(e, TRUE, TRUE)
Stayed(S) == S \ moved

\* The store holds entities operators act on, and owners idryx records.
ShownKnown == /\ shown \subseteq Toggled /\ snapshot.shown \subseteq Toggled
              /\ Stayed(owners) \subseteq Owned /\ Stayed(snapshot.owners) \subseteq Owned
OwnersKnown == /\ rebuild = "read" => Stayed(Owned) \subseteq snapshot.owners
               /\ rebuild = "done" => Stayed(Owned) \subseteq owners

\* A call knows every member, a policy is of a member, and an entity that was
\* not torn and has a policy has one of every member with an id of its own.
CallWhole   == \A c \in Call : Active(c) => Stayed(call[c].members) = Stayed(All(call[c].ent))
OfMember    == \A p \in policy : p.target \notin moved => p.target \in All(p.of)
PolicyWhole == \A e \in Toggled :
    e \notin torn /\ Busy(e) = {} /\ HasPolicy(e) =>
        \A a \in Stayed(All(e)) : Sole(e, a) => Policy(e, a) \in policy

Whole == faults = 0 => OwnersKnown /\ CallWhole /\ OfMember /\ PolicyWhole

BadgeInv == ReflectInv /\ ShownKnown /\ Whole

LEMMA CallBadge ==
    ASSUME BadgeInv, ReflectInv', NEW c \in Call, CallStep(c)
    PROVE  BadgeInv'
  <1>0. PICK ent : ent = call[c].ent
    OBVIOUS
  <1>1. /\ Active(c) /\ (\A d \in Call : d # c => Same(d)) /\ Keeps(c)
        /\ UNCHANGED <<owners, rebuild, snapshot, identities, running, moved>>
        /\ Active(c)' => call'[c] = call[c]
        /\ \A p \in policy' : p \in policy \/ \E a \in call[c].members : p = Policy(ent, a)
    BY <1>0, CallShape DEF BadgeInv, ReflectInv, Onward, fleet
  <1>2. /\ ent \in Toggled /\ ent \in Entity /\ call[c].on \in BOOLEAN /\ call[c].alone \in BOOLEAN
        /\ Disturbs(ent, call[c].on, ent)
    BY <1>0, <1>1, ActiveEntity, TakesTyping DEF BadgeInv, ReflectInv
  <1>3. Owned' = Owned /\ \A e : All(e)' = All(e)
    BY <1>1 DEF Owned, All, Members, AgentsInUnit, AgentsOfUser
  <1>4. ShownKnown'
    <2>1. shown' \subseteq Toggled
      BY <1>0, <1>2, CallShape DEF BadgeInv, ReflectInv, ShownKnown, Onward, Abort, Record, store
    <2>2. QED
      BY <1>1, <1>3, <2>1 DEF BadgeInv, ShownKnown, Stayed
  <1>5. ASSUME faults' = 0 PROVE OwnersKnown' /\ CallWhole' /\ OfMember' /\ PolicyWhole'
    <2>1. ~ Abort(c)
      <3>1. faults \in Nat
        BY Counters DEF BadgeInv, ReflectInv, BlockInv, Typed
      <3>2. QED
        BY <1>5, <3>1 DEF Abort
    <2>2. \/ Active(c)' /\ UNCHANGED <<torn, faults>>
          \/ ~ Active(c)' /\ Record(c) /\ policy' = policy /\ faults' = faults
      BY <2>1, CallShape DEF BadgeInv, ReflectInv, Onward, Record, bounds
    <2>3. OwnersKnown /\ CallWhole /\ OfMember /\ PolicyWhole
      BY <1>5, <2>2 DEF BadgeInv, Whole
    <2>4. Stayed(call[c].members) = Stayed(All(ent))
      BY <1>0, <1>1, <2>3 DEF CallWhole
    <2>5. OwnersKnown'
      BY <1>1, <1>3, <2>3 DEF OwnersKnown, Stayed
    <2>6. CallWhole'
      <3>1. \A d \in Call : Active(d)' => Active(d) /\ call'[d] = call[d]
        BY <1>1 DEF Same, Active
      <3>2. QED
        BY <1>1, <1>3, <2>3, <3>1 DEF CallWhole, Stayed
    <2>7. OfMember'
      BY <1>1, <1>3, <2>3, <2>4, PolicyFields DEF OfMember, Stayed
    <2>8. PolicyWhole'
      <3> SUFFICES ASSUME NEW f \in Toggled, f \notin torn', Busy(f)' = {}, HasPolicy(f)',
                          NEW a \in All(f), a \notin moved, Sole(f, a)
                   PROVE  Policy(f, a) \in policy'
        BY <1>1, <1>3 DEF PolicyWhole, Stayed
      <3>1. CASE f \notin Disturbed(c)
        <4>0. ~ Disturbs(call[c].ent, call[c].on, f) /\ f # ent
          BY <1>0, <1>2, <3>1, ConstantsAssumption DEF Disturbed
        <4>1. /\ Busy(f) = {} /\ HasPolicy(f)
              /\ \A p : p.of = f => (p \in policy' <=> p \in policy)
          BY <1>1, <4>0, OtherEntities
        <4>2. f \notin torn
          BY <1>0, <2>2, <4>0 DEF Record, Cleared
        <4>3. Policy(f, a) \in policy
          BY <2>3, <4>1, <4>2 DEF PolicyWhole, Stayed
        <4>4. QED
          BY <4>1, <4>3, PolicyFields
      <3>2. CASE f \in Disturbed(c)
        <4>1. ~ Active(c)'
          BY <1>1, <3>2 DEF Disturbed, Busy, Active
        <4>2. Record(c) /\ policy' = policy /\ call[c].alone /\ f = ent
          BY <1>0, <2>2, <3>2, <4>1 DEF Record, Cleared
        <4>3. call[c].on
          BY <1>0, <4>2, RecordMeans DEF BadgeInv, ReflectInv, HasPolicy
        <4>4. a \in Denied(c)
          BY <1>0, <2>4, <4>2 DEF Denied, Stayed
        <4>5. QED
          BY <1>0, <4>2, <4>3, <4>4, RecordMeans DEF BadgeInv, ReflectInv
      <3>3. QED
        BY <3>1, <3>2
    <2>9. QED
      BY <2>5, <2>6, <2>7, <2>8
  <1>6. QED
    BY <1>4, <1>5 DEF BadgeInv, Whole

LEMMA MembersAll ==
    ASSUME NEW e \in Entity, NEW idryx \in BOOLEAN, NEW cloud \in BOOLEAN, idryx /\ cloud
    PROVE  Members(e, idryx, cloud) = All(e)
  BY DEF Members, All, AgentsInUnit, AgentsOfUser

LEMMA ToggleBadge ==
    ASSUME BadgeInv, ReflectInv', NEW c \in Call, NEW e \in Toggled, NEW on \in BOOLEAN,
           NEW idryx \in BOOLEAN, NEW cloud \in BOOLEAN, Toggle(c, e, on, idryx, cloud)
    PROVE  BadgeInv'
  <1>1. /\ policy' = policy /\ shown' = shown /\ rebuild' = rebuild /\ torn' = torn
        /\ owners \subseteq owners' /\ owners' \subseteq owners \cup Owned
        /\ UNCHANGED <<identities, running, moved>>
    BY DEF Toggle, CacheOwners, fleet
  <1>2. snapshot'.shown = snapshot.shown /\ snapshot'.owners = snapshot.owners
    <2>1. CASE on /\ Members(e, idryx, cloud) = {}
      BY <2>1 DEF Toggle
    <2>2. CASE ~ (on /\ Members(e, idryx, cloud) = {})
      BY <2>2, ToggleFacts DEF BadgeInv, ReflectInv, BlockInv, Typed, TypeOK
    <2>3. QED
      BY <2>1, <2>2
  <1>3. Owned' = Owned /\ \A f : All(f)' = All(f)
    BY <1>1 DEF Owned, All, Members, AgentsInUnit, AgentsOfUser
  <1>4. ShownKnown'
    BY <1>1, <1>2, <1>3 DEF BadgeInv, ShownKnown, Stayed
  <1>5. ASSUME faults' = 0 PROVE OwnersKnown' /\ CallWhole' /\ OfMember' /\ PolicyWhole'
    <2>1. faults = 0 /\ idryx /\ cloud
      <3>1. TypeOK /\ faults \in Nat /\ Answers(idryx /\ cloud)
        BY Counters DEF BadgeInv, ReflectInv, BlockInv, Typed, Toggle
      <3>2. QED
        BY <1>5, <3>1 DEF Answers
    <2>2. OwnersKnown /\ CallWhole /\ OfMember /\ PolicyWhole
      BY <2>1 DEF BadgeInv, Whole
    <2>3. OwnersKnown' /\ OfMember'
      BY <1>1, <1>2, <1>3, <2>2 DEF OwnersKnown, OfMember, Stayed
    <2>4. \A f : HasPolicy(f)' <=> HasPolicy(f)
      BY <1>1 DEF HasPolicy
    <2>5. CASE on /\ Members(e, idryx, cloud) = {}
      <3>1. call' = call /\ pc' = pc
        BY <2>5 DEF Toggle, handlers
      <3>2. CallWhole'
        BY <1>1, <1>3, <2>2, <3>1 DEF CallWhole, Active, Stayed
      <3>3. \A f : Busy(f)' = Busy(f)
        BY <3>1 DEF Busy
      <3>4. PolicyWhole'
        BY <1>1, <1>3, <2>2, <2>4, <3>3 DEF PolicyWhole, Stayed
      <3>5. QED
        BY <2>3, <3>2, <3>4
    <2>6. CASE ~ (on /\ Members(e, idryx, cloud) = {})
      <3>1. /\ ~ Active(c) /\ pc'[c] # "idle" /\ call'[c].ent = e
            /\ call'[c].members = Members(e, idryx, cloud)
            /\ \A d \in Call : d # c =>
                  pc'[d] = pc[d] /\ (Active(d) => /\ call'[d].ent = call[d].ent
                                                  /\ call'[d].on = call[d].on
                                                  /\ call'[d].members = call[d].members)
        BY <2>6, ToggleFacts DEF BadgeInv, ReflectInv
      <3>2. Members(e, idryx, cloud) = All(e)
        BY <2>1, MembersAll, ConstantsAssumption
      <3>3. CallWhole'
        BY <1>1, <1>3, <2>2, <3>1, <3>2 DEF CallWhole, Active, Stayed
      <3>4. \A f \in Toggled : Busy(f)' = {} => Busy(f) = {}
        BY <3>1 DEF Busy, Active
      <3>5. PolicyWhole'
        BY <1>1, <1>3, <2>2, <2>4, <3>4 DEF PolicyWhole, Stayed
      <3>6. QED
        BY <2>3, <3>3, <3>5
    <2>7. QED
      BY <2>5, <2>6
  <1>6. QED
    BY <1>4, <1>5 DEF BadgeInv, Whole

LEMMA RehydrateToggled ==
    ASSUME BlockInv
    PROVE  Rehydrate \subseteq Toggled
  BY ProperFields DEF Rehydrate, BlockInv, PoliciesProper

\* An agent that comes or goes is not spoken of any more.
LEMMA MoveBadge ==
    ASSUME BadgeInv, ReflectInv', NEW b \in Movers, Move(b)
    PROVE  BadgeInv'
  <1>1. /\ UNCHANGED <<policy, shown, owners, snapshot, rebuild, torn, faults, call, pc>>
        /\ moved' = moved \cup {b}
    BY DEF Move, remote, store, task, history, handlers
  <1>2. \A a : a # b => (a \in identities' <=> a \in identities) /\ (a \in running' <=> a \in running)
    BY DEF Move
  <1>3. /\ \A a : a \notin moved' => (a \in Owned' <=> a \in Owned)
        /\ \A e, a : a \notin moved' => (a \in All(e)' <=> a \in All(e))
    <2> SUFFICES ASSUME NEW a, a \notin moved', NEW e
                 PROVE  (a \in Owned' <=> a \in Owned) /\ (a \in All(e)' <=> a \in All(e))
      OBVIOUS
    <2>1. (a \in identities' <=> a \in identities) /\ (a \in running' <=> a \in running)
      BY <1>1, <1>2
    <2>2. a \in Owned' <=> a \in Owned
      BY <2>1 DEF Owned
    <2>3. a \in AgentsInUnit(e.key, TRUE, TRUE)' <=> a \in AgentsInUnit(e.key, TRUE, TRUE)
      BY <2>1 DEF AgentsInUnit
    <2>4. a \in AgentsOfUser(e.key, TRUE)' <=> a \in AgentsOfUser(e.key, TRUE)
      BY <2>2 DEF AgentsOfUser
    <2>5. CASE e.kind = "unit"
      BY <2>2, <2>3, <2>5 DEF All, Members
    <2>6. CASE e.kind = "user"
      BY <2>2, <2>4, <2>6 DEF All, Members
    <2>7. CASE e.kind \notin {"unit", "user"}
      BY <2>2, <2>7 DEF All, Members
    <2>8. QED
      BY <2>5, <2>6, <2>7
  <1>4. ShownKnown'
    BY <1>1, <1>3 DEF BadgeInv, ShownKnown, Stayed
  <1>5. OwnersKnown => OwnersKnown'
    BY <1>1, <1>3 DEF OwnersKnown, Stayed
  <1>6. CallWhole => CallWhole'
    <2>1. \A e : Stayed(All(e))' = Stayed(All(e)) \ {b}
      BY <1>1, <1>3 DEF Stayed
    <2>2. \A c : Active(c)' = Active(c)
      BY <1>1 DEF Active
    <2>3. \A c : Stayed(call[c].members)' = Stayed(call[c].members) \ {b}
      BY <1>1 DEF Stayed
    <2>4. QED
      BY <1>1, <2>1, <2>2, <2>3 DEF CallWhole
  <1>7. OfMember => OfMember'
    BY <1>1, <1>3 DEF OfMember
  <1>8. \A e : Busy(e)' = Busy(e) /\ (HasPolicy(e)' <=> HasPolicy(e))
    BY <1>1 DEF Busy, HasPolicy
  <1>9. PolicyWhole => PolicyWhole'
    BY <1>1, <1>3, <1>8 DEF PolicyWhole, Stayed
  <1>10. QED
    BY <1>1, <1>4, <1>5, <1>6, <1>7, <1>9 DEF BadgeInv, Whole

LEMMA RebuildBadge ==
    ASSUME BadgeInv, ReflectInv',
           \/ \E idryx \in BOOLEAN : RebuildRead(idryx)
           \/ RebuildFails \/ RebuildApply \/ Crash \/ Restart \/ UNCHANGED vars
    PROVE  BadgeInv'
  <1>0. TypeOK /\ faults \in Nat /\ UNCHANGED <<identities, running, moved>>
    BY Counters DEF BadgeInv, ReflectInv, BlockInv, Typed, RebuildRead, RebuildFails, RebuildApply,
                    Crash, Restart, vars, fleet
  <1>a. Owned' = Owned /\ \A e : All(e)' = All(e)
    BY <1>0 DEF Owned, All, Members, AgentsInUnit, AgentsOfUser
  <1>1. ASSUME UNCHANGED <<policy, handlers, torn>> PROVE CallWhole /\ OfMember /\ PolicyWhole
                                                  => CallWhole' /\ OfMember' /\ PolicyWhole'
    <2>1. /\ \A e : Busy(e)' = Busy(e) /\ (HasPolicy(e)' <=> HasPolicy(e))
          /\ UNCHANGED <<policy, torn, call, pc>>
      BY <1>1 DEF Busy, HasPolicy, handlers
    <2>2. QED
      BY <1>0, <1>a, <2>1 DEF CallWhole, OfMember, PolicyWhole, Active, Stayed
  <1>2. ASSUME NEW idryx \in BOOLEAN, RebuildRead(idryx) PROVE BadgeInv'
    <2>1. /\ UNCHANGED <<policy, handlers, torn, shown, owners>> /\ rebuild' = "read"
          /\ snapshot'.shown = Rehydrate /\ snapshot'.owners = IF idryx THEN Owned ELSE {}
      BY <1>2 DEF RebuildRead, remote, store, history
    <2>2. ShownKnown'
      BY <1>0, <1>a, <2>1, RehydrateToggled DEF BadgeInv, ReflectInv, ShownKnown, Stayed
    <2>3. faults' = 0 => faults = 0 /\ idryx
      BY <1>0, <1>2 DEF RebuildRead, Answers
    <2>4. faults' = 0 => OwnersKnown'
      BY <1>0, <1>a, <2>1, <2>3 DEF OwnersKnown, Stayed
    <2>5. QED
      BY <1>1, <2>1, <2>2, <2>3, <2>4 DEF BadgeInv, Whole
  <1>3. CASE RebuildFails
    <2>1. faults' # 0 /\ UNCHANGED <<shown, owners, snapshot>>
      BY <1>0, <1>3 DEF RebuildFails, store
    <2>2. QED
      BY <1>0, <1>a, <2>1 DEF BadgeInv, Whole, ShownKnown, Stayed
  <1>4. CASE RebuildApply
    <2>1. /\ UNCHANGED <<policy, handlers, torn, faults>> /\ rebuild = "read" /\ rebuild' = "done"
          /\ shown' = snapshot.shown /\ owners' = snapshot.owners /\ snapshot' = Nothing
      BY <1>4 DEF RebuildApply, remote, bounds
    <2>2. ShownKnown'
      BY <1>0, <1>a, <2>1 DEF BadgeInv, ShownKnown, Nothing, Stayed
    <2>3. OwnersKnown => OwnersKnown'
      BY <1>0, <1>a, <2>1 DEF OwnersKnown, Stayed
    <2>4. QED
      BY <1>1, <2>1, <2>2, <2>3 DEF BadgeInv, Whole
  <1>5. CASE Crash
    <2>1. /\ policy' = policy /\ faults' = faults /\ shown' = {} /\ owners' = {} /\ snapshot' = Nothing
          /\ rebuild' = "due" /\ torn' = torn \cup {e \in Entity : Busy(e) # {}}
          /\ \A c \in Call : ~ Active(c)'
      BY <1>5 DEF Crash, Active, remote
    <2>2. ShownKnown' /\ OwnersKnown' /\ CallWhole'
      BY <2>1 DEF ShownKnown, OwnersKnown, CallWhole, Nothing, Stayed
    <2>3. OfMember /\ PolicyWhole => OfMember' /\ PolicyWhole'
      BY <1>0, <1>a, <2>1, ConstantsAssumption DEF OfMember, PolicyWhole, HasPolicy, Stayed
    <2>4. QED
      BY <2>1, <2>2, <2>3 DEF BadgeInv, Whole
  <1>6. CASE Restart \/ UNCHANGED vars
    <2>1. UNCHANGED <<policy, shown, owners, torn, rebuild, snapshot, handlers, faults>>
      BY <1>6 DEF Restart, vars, remote, store, task, history, bounds
    <2>2. ShownKnown' /\ (OwnersKnown => OwnersKnown')
      BY <1>0, <1>a, <2>1 DEF BadgeInv, ShownKnown, OwnersKnown, Stayed
    <2>3. QED
      BY <1>1, <2>1, <2>2 DEF BadgeInv, Whole
  <1>7. QED
    BY <1>2, <1>3, <1>4, <1>5, <1>6

LEMMA BadgeStep ==
    ASSUME BadgeInv, [Next]_vars
    PROVE  BadgeInv'
  <1>1. ReflectInv'
    BY ReflectStep DEF BadgeInv
  <1>2. ASSUME NEW c \in Call, NEW e \in Toggled, NEW on \in BOOLEAN, NEW idryx \in BOOLEAN,
               NEW cloud \in BOOLEAN, Toggle(c, e, on, idryx, cloud)
        PROVE  BadgeInv'
    BY <1>1, <1>2, ToggleBadge
  <1>3. ASSUME NEW c \in Call, CallStep(c) PROVE BadgeInv'
    BY <1>1, <1>3, CallBadge
  <1>4. ASSUME NEW a \in Movers, Move(a) PROVE BadgeInv'
    BY <1>1, <1>4, MoveBadge
  <1>5. QED
    BY <1>1, <1>2, <1>3, <1>4, RebuildBadge DEF Next

LEMMA InitBadge == Init => BadgeInv
  <1> SUFFICES ASSUME Init PROVE BadgeInv
    OBVIOUS
  <1>1. ReflectInv
    BY InitBlock DEF Init, ReflectInv, ShownRight, SnapshotRight
  <1>2. ShownKnown /\ OwnersKnown /\ OfMember
    BY DEF Init, Nothing, ShownKnown, OwnersKnown, OfMember, Stayed
  <1>3. CallWhole /\ PolicyWhole
    BY DEF Init, CallWhole, PolicyWhole, HasPolicy, Active
  <1>4. QED
    BY <1>1, <1>2, <1>3 DEF BadgeInv, Whole

\* Who is a member, and of what.
LEMMA MembersAre ==
    ASSUME NEW e \in Entity, NEW a \in Agent
    PROVE  /\ e.kind = "agent" => (a \in All(e) <=> a = e.key)
           /\ e.kind = "unit"  => (a \in All(e) <=> a \in identities \cup running /\ Team[a] = e.key)
           /\ e.kind = "user"  => (a \in All(e) <=> a \in Owned /\ OwnerMatches(Owner[a], e.key))
  <1>1. e.kind = "agent" => (a \in All(e) <=> a = e.key)
    BY DEF All, Members
  <1>2. e.kind = "unit"  => (a \in All(e) <=> a \in identities \cup running /\ Team[a] = e.key)
    BY DEF All, Members, AgentsInUnit
  <1>3. e.kind = "user"  => (a \in All(e) <=> a \in Owned /\ OwnerMatches(Owner[a], e.key))
    BY DEF All, Members, AgentsOfUser
  <1>4. QED
    BY <1>1, <1>2, <1>3

LEMMA BadgeHolds ==
    ASSUME BadgeInv
    PROVE  BadgeMeansDenied
  <1> DEFINE Counts(p, a) == p.target = a /\ (p.of.kind = "user" => p.of.key = Owner[a])
  <1> SUFFICES ASSUME faults = 0, torn = {}, \A e \in Toggled : Settled(e),
                      NEW a \in (identities \cup running) \ moved, \A e \in Toggled : Sole(e, a)
               PROVE  StateFor(a) # "none" <=> \E p \in policy : Counts(p, a)
    BY DEF BadgeMeansDenied
  <1>0. a \in Agent
    BY DEF BadgeInv, ReflectInv, BlockInv, Typed, TypeOK
  <1>1. ShownKnown /\ OwnersKnown /\ OfMember /\ PolicyWhole /\ ReflectInv
    BY DEF BadgeInv, Whole
  <1>2. \A e \in Toggled : /\ e \in Entity /\ rebuild = "done" /\ Busy(e) = {}
                           /\ e \in shown <=> HasPolicy(e)
    BY <1>1, ConstantsAssumption DEF Settled, ReflectInv, ShownRight
  <1>3. StateFor(a) # "none" <=> \/ [kind |-> "agent", key |-> a] \in shown
                                 \/ [kind |-> "unit", key |-> Team[a]] \in shown
                                 \/ a \in owners /\ [kind |-> "user", key |-> Owner[a]] \in shown
    BY DEF StateFor
  <1>4. ASSUME NEW e \in shown, a \in All(e), e.kind = "user" => e.key = Owner[a]
        PROVE  \E p \in policy : Counts(p, a)
    <2>1. e \in Toggled /\ HasPolicy(e)
      BY <1>1, <1>2, <1>4 DEF ShownKnown
    <2>2. Policy(e, a) \in policy
      BY <1>1, <1>2, <1>4, <2>1 DEF PolicyWhole, Stayed
    <2>3. Counts(Policy(e, a), a)
      BY <1>4, PolicyFields
    <2>4. QED
      BY <2>2, <2>3
  <1>5. ASSUME StateFor(a) # "none" PROVE \E p \in policy : Counts(p, a)
    <2>1. CASE [kind |-> "agent", key |-> a] \in shown
      <3>1. PICK e \in shown : e.kind = "agent" /\ e.key = a
        BY <2>1
      <3>2. a \in All(e)
        BY <1>0, <1>1, <1>2, <3>1, MembersAre DEF ShownKnown
      <3>3. QED
        BY <1>4, <3>1, <3>2
    <2>2. CASE [kind |-> "unit", key |-> Team[a]] \in shown
      <3>1. PICK e \in shown : e.kind = "unit" /\ e.key = Team[a]
        BY <2>2
      <3>2. a \in All(e)
        BY <1>0, <1>1, <1>2, <3>1, MembersAre DEF ShownKnown
      <3>3. QED
        BY <1>4, <3>1, <3>2
    <2>3. CASE a \in owners /\ [kind |-> "user", key |-> Owner[a]] \in shown
      <3>1. PICK e \in shown : e.kind = "user" /\ e.key = Owner[a]
        BY <2>3
      <3>2. a \in Owned /\ OwnerMatches(Owner[a], e.key)
        BY <1>1, <2>3, <3>1 DEF ShownKnown, OwnerMatches, Stayed
      <3>3. a \in All(e)
        BY <1>0, <1>1, <1>2, <3>1, <3>2, MembersAre DEF ShownKnown
      <3>4. QED
        BY <1>4, <3>1, <3>3
    <2>4. QED
      BY <1>3, <1>5, <2>1, <2>2, <2>3
  <1>6. ASSUME NEW p \in policy, Counts(p, a) PROVE StateFor(a) # "none"
    <2>1. PICK e \in Toggled : e = p.of
      BY <1>1, ProperFields DEF ReflectInv, BlockInv, PoliciesProper
    <2>2. e \in shown /\ e \in Entity /\ a \in All(e) /\ rebuild = "done"
      BY <1>1, <1>2, <1>6, <2>1 DEF OfMember, HasPolicy
    <2>3. e.kind \in {"agent", "unit", "user"} /\ e = [kind |-> e.kind, key |-> e.key]
      BY <2>2, EntityFields
    <2>4. CASE e.kind = "agent"
      BY <1>0, <1>3, <2>2, <2>3, <2>4, MembersAre
    <2>5. CASE e.kind = "unit"
      BY <1>0, <1>3, <2>2, <2>3, <2>5, MembersAre
    <2>6. CASE e.kind = "user"
      <3>1. a \in Owned
        BY <1>0, <2>2, <2>6, MembersAre
      <3>2. e = [kind |-> "user", key |-> Owner[a]]
        BY <1>6, <2>1, <2>3, <2>6
      <3>3. a \in owners
        BY <1>1, <2>2, <3>1 DEF OwnersKnown, Stayed
      <3>4. QED
        BY <1>3, <2>2, <3>2, <3>3
    <2>7. QED
      BY <2>3, <2>4, <2>5, <2>6
  <1>7. QED
    BY <1>5, <1>6

LEMMA OwnBadgeHolds ==
    ASSUME ReflectInv
    PROVE  OwnBadge
  <1>1. \A e \in Toggled : Settled(e) => (e \in shown <=> HasPolicy(e))
    BY DEF ReflectInv, ShownRight, Settled
  <1>2. \A p \in policy : p.of \in Toggled /\ Fit(p.of, p.target)
    BY ProperFields DEF ReflectInv, BlockInv, PoliciesProper
  <1>3. ASSUME NEW a \in Agent, Shows("agent", a)
        PROVE  StateFor(a) = "frozen" <=> DeniedFor("agent", a, a)
    <2>1. PICK e \in Toggled : e = [kind |-> "agent", key |-> a] /\ Settled(e)
      BY <1>3 DEF Shows
    <2>2. e.kind = "agent" /\ e.key = a
      BY <2>1
    <2>3. StateFor(a) = "frozen" <=> e \in shown
      BY <2>1 DEF StateFor
    <2>4. \A p \in policy : p.of = e => p.target = a
      BY <1>2, <2>2 DEF Fit
    <2>5. DeniedFor("agent", a, a) <=> HasPolicy(e)
      BY <2>1, <2>4 DEF DeniedFor, HasPolicy
    <2>6. QED
      BY <1>1, <2>1, <2>3, <2>5
  <1>4. ASSUME NEW a \in Agent, Shows("unit", Team[a]), DeniedFor("unit", Team[a], a)
        PROVE  StateFor(a) # "none"
    <2>1. PICK e \in Toggled : e = [kind |-> "unit", key |-> Team[a]] /\ Settled(e)
      BY <1>4 DEF Shows
    <2>2. HasPolicy(e)
      BY <1>4, <2>1 DEF DeniedFor, HasPolicy
    <2>3. [kind |-> "unit", key |-> Team[a]] \in shown
      BY <1>1, <2>1, <2>2
    <2>4. QED
      BY <2>3 DEF StateFor
  <1>5. QED
    BY <1>3, <1>4 DEF OwnBadge

\* What the console shows of blocks is what wardryx enforces: of every entity
\* nothing is going on for, across deaths, failed calls, rebuilds and prefixes that
\* meet; of the badge of an agent itself and of its unit, whoever comes and goes; and
\* of every badge of an agent that was listed all along, as long as every service
\* answered and no block was cut short.
THEOREM BadgesAreTrueHolds == Spec => []BadgesAreTrue
  <1>1. BadgeInv => BadgesAreTrue
    <2> SUFFICES ASSUME BadgeInv PROVE Reflection /\ OwnBadge /\ BadgeMeansDenied
      BY DEF BadgesAreTrue
    <2>1. Reflection
      BY DEF BadgeInv, ReflectInv, ShownRight, Reflection, Settled, HasPolicy
    <2>2. QED
      BY <2>1, BadgeHolds, OwnBadgeHolds DEF BadgeInv
  <1>2. BadgeInv /\ [Next]_vars => BadgeInv'
    BY BadgeStep
  <1>3. QED
    BY InitBadge, <1>1, <1>2, PTL DEF Spec

-----------------------------------------------------------------------------
(***************************************************************************)
(* AgentStop.                                                              *)
(***************************************************************************)
(***************************************************************************)
(* Where a stop is.                                                         *)
(***************************************************************************)
Banning   == {"list", "kill", "verdict", "stopped"}
Listing   == {"kill", "verdict", "stopped"}
Stopping  == {"stop"} \cup Banning

\* A call that stops is a stop, one that lifts a lift; one that has not begun
\* has nothing against it.
KindOf(c) ==
    /\ at[c] \in Stopping => stop[c].kind = "stop"
    /\ at[c] = "lift" => stop[c].kind = "lift"
    /\ at[c] \in {"idle", "stop"} => stop[c].clean
    /\ at[c] \in {"idle", "stop", "list"} => ~ stop[c].listed

\* A confirmed ban is a step that did not fail.
BanClean(c) == at[c] = "list" /\ stop[c].ban \in {"memory", "durable"} => stop[c].clean

\* What a stop that has its list knows: the runs it counts as killed are, the
\* others are still to do, over the limit or failed, and a failed kill is one
\* that is in neither set.
Counted(s) ==
    /\ s.killed \subseteq s.open /\ s.left \subseteq s.open \ s.killed
    /\ s.ban \in {"memory", "durable"} /\ ~ s.clean => s.open \ (s.killed \cup s.left) # {}
KillsCounted(c) == at[c] \in Listing /\ stop[c].listed =>
    Counted(stop[c]) /\ \A r \in stop[c].killed : runs[r] = "killed"

\* What was open at the ban is on the list or dead by then.
EarlyListed(c) == at[c] \in Banning => \A r \in early[c] :
    /\ r \in Run /\ RunOf[r] = stop[c].agent /\ runs[r] \in {"open", "killed"}
    /\ stop[c].listed => r \in stop[c].open \/ runs[r] = "killed"
Reported(c) == at[c] = "stopped" => Stopped(stop[c])

\* Without a lift a durable ban is durable.
BanHolds(c) ==
    at[c] \in Banning /\ stop[c].ban = "durable" /\ ~ lifts[c] => banned[stop[c].agent] = "durable"

\* Before its list a stop has killed nothing.
NoKills(c) == at[c] \in {"idle", "stop", "list"} => stop[c].killed = {}

Fine(c) == /\ KindOf(c) /\ BanClean(c) /\ NoKills(c) /\ KillsCounted(c) /\ EarlyListed(c) /\ Reported(c)
           /\ BanHolds(c)

\* A lift under way is noted by every stop of its agent.
LiftsNoted == \A c, d \in Stopper :
    at[c] \in Banning /\ at[d] = "lift" /\ stop[d].agent = stop[c].agent => lifts[c]

StopTyped ==
    /\ StopTypeOK /\ issuer \in {"stored", "storeless", "old"}
    /\ lifts \in [Stopper -> BOOLEAN] /\ early \in [Stopper -> SUBSET Run]
StopInv == StopTyped /\ (\A c \in Stopper : Fine(c)) /\ LiftsNoted

(***************************************************************************)
(* The fields of a call.                                                    *)
(***************************************************************************)
LEMMA StateFields ==
    ASSUME NEW s \in StopState
    PROVE  /\ s.kind \in Kind /\ s.agent \in Stoppable
           /\ s.ban \in {"none", "failed", "memory", "durable"}
           /\ s.open \subseteq Run /\ s.listed \in BOOLEAN /\ s.left \subseteq Run
           /\ s.killed \subseteq Run /\ s.clean \in BOOLEAN
  BY DEF StopState

LEMMA NoteFields ==
    ASSUME StopTyped, NEW c \in Stopper, NEW ok \in BOOLEAN
    PROVE  /\ Note(c, ok) \in [Stopper -> StopState]
           /\ \A d \in Stopper : d # c => Note(c, ok)[d] = stop[d]
           /\ \E b \in BOOLEAN : /\ b <=> stop[c].clean /\ ok
                                 /\ Note(c, ok)[c] = [stop[c] EXCEPT !.clean = b]
  <1>1. stop \in [Stopper -> StopState] /\ stop[c].clean \in BOOLEAN
    BY StateFields DEF StopTyped, StopTypeOK
  <1>2. PICK b \in BOOLEAN : b = (stop[c].clean /\ ok)
    BY Zenon
  <1>3. b <=> stop[c].clean /\ ok
    BY <1>2, Zenon
  <1>4. Note(c, ok) = [stop EXCEPT ![c] = [stop[c] EXCEPT !.clean = b]]
    BY <1>2, Zenon DEF Note
  <1>5. [stop[c] EXCEPT !.clean = b] \in StopState
    BY <1>1 DEF StopState
  <1>6. QED
    BY <1>1, <1>3, <1>4, <1>5

(***************************************************************************)
(* The calls a step is not of.                                              *)
(***************************************************************************)
\* A run that was opened stays open or is killed, and one that was killed stays
\* so; only a lift takes a durable ban away.
RunsGo == \A r \in Run : /\ runs[r] = "killed" => runs'[r] = "killed"
                         /\ runs[r] \in {"open", "killed"} => runs'[r] \in {"open", "killed"}
BansGo == \A a \in Stoppable : banned[a] = "durable" =>
    banned'[a] = "durable" \/ \E d \in Stopper : at[d] = "lift" /\ stop[d].agent = a
SameStops(d) == stop'[d] = stop[d] /\ at'[d] = at[d] /\ early'[d] = early[d] /\ (lifts[d] => lifts'[d])

LEMMA FineElse ==
    ASSUME StopInv, NEW d \in Stopper, SameStops(d), RunsGo, BansGo
    PROVE  Fine(d)'
  <1>0. stop[d] \in StopState /\ Fine(d)
    BY DEF StopInv, StopTyped, StopTypeOK
  <1>1. KindOf(d)' /\ BanClean(d)' /\ NoKills(d)' /\ Reported(d)'
    BY <1>0 DEF Fine, KindOf, BanClean, NoKills, Reported, SameStops
  <1>2. KillsCounted(d)'
    BY <1>0, StateFields DEF Fine, KillsCounted, RunsGo, SameStops
  <1>3. EarlyListed(d)'
    BY <1>0 DEF Fine, EarlyListed, RunsGo, SameStops
  <1>4. BanHolds(d)'
    <2>1. SUFFICES ASSUME at[d] \in Banning, stop[d].ban = "durable", ~ lifts[d]
                   PROVE  banned'[stop[d].agent] = "durable"
      BY DEF BanHolds, SameStops
    <2>2. banned[stop[d].agent] = "durable" /\ stop[d].agent \in Stoppable
      BY <1>0, <2>1, StateFields DEF Fine, BanHolds
    <2>3. ~ \E e \in Stopper : at[e] = "lift" /\ stop[e].agent = stop[d].agent
      BY <2>1 DEF StopInv, LiftsNoted
    <2>4. QED
      BY <2>2, <2>3 DEF BansGo
  <1>5. QED
    BY <1>1, <1>2, <1>3, <1>4 DEF Fine

\* No call begins to lift or comes to its ban.
LEMMA NotedElse ==
    ASSUME StopInv, \A d \in Stopper :
               /\ at'[d] = "lift" => at[d] = "lift" /\ stop'[d].agent = stop[d].agent
               /\ at'[d] \in Banning => at[d] \in Banning /\ stop'[d].agent = stop[d].agent
               /\ lifts[d] => lifts'[d]
    PROVE  LiftsNoted'
  BY DEF StopInv, LiftsNoted

\* A step of call c alone.
LEMMA OneCall ==
    ASSUME StopInv, StopTyped', NEW c \in Stopper, \A d \in Stopper : d # c => SameStops(d), RunsGo, BansGo,
           Fine(c)', LiftsNoted'
    PROVE  StopInv'
  BY FineElse DEF StopInv

(***************************************************************************)
(* The services.                                                            *)
(***************************************************************************)
LEMMA ServicesStep ==
    ASSUME StopInv,
           \/ \E r \in Run : RunOpens(r)
           \/ \E a \in Stoppable : DoorPolls(a) \/ Reissue(a)
           \/ VouchryxRestarts \/ UNCHANGED stopVars
    PROVE  StopInv'
  <1>1. UNCHANGED <<stop, at, early, lifts, issuer>>
    BY DEF RunOpens, DoorPolls, Reissue, VouchryxRestarts, stopVars, work, services
  <1>2. StopTyped'
    <2>1. banned' \in [Stoppable -> {"no", "memory", "durable"}]
      BY DEF StopInv, StopTyped, StopTypeOK, RunOpens, DoorPolls, Reissue, VouchryxRestarts, stopVars, services
    <2>2. runs' \in [Run -> {"none", "open", "killed"}]
      BY DEF StopInv, StopTyped, StopTypeOK, RunOpens, DoorPolls, Reissue, VouchryxRestarts, stopVars, services
    <2>3. revoked' \subseteq Stoppable /\ door' \subseteq Stoppable
      BY DEF StopInv, StopTyped, StopTypeOK, RunOpens, DoorPolls, Reissue, VouchryxRestarts, stopVars, services
    <2>4. QED
      BY <1>1, <2>1, <2>2, <2>3 DEF StopInv, StopTyped, StopTypeOK
  <1>3. RunsGo
    BY DEF StopInv, StopTyped, StopTypeOK, RunsGo, RunOpens, DoorPolls, Reissue, VouchryxRestarts, stopVars,
           services
  <1>4. BansGo
    BY DEF StopInv, StopTyped, StopTypeOK, BansGo, RunOpens, DoorPolls, Reissue, VouchryxRestarts, stopVars,
           services
  <1>5. \A d \in Stopper : Fine(d)'
    BY <1>1, <1>3, <1>4, FineElse DEF SameStops
  <1>6. LiftsNoted'
    BY <1>1, NotedElse
  <1>7. QED
    BY <1>2, <1>5, <1>6 DEF StopInv

(***************************************************************************)
(* The calls.                                                               *)
(***************************************************************************)
LEMMA BeginStep ==
    ASSUME StopInv, NEW c \in Stopper, NEW k \in Kind, NEW a \in Stoppable, Begin(c, k, a)
    PROVE  StopInv'
  <1>1. /\ at[c] = "idle" /\ at' = [at EXCEPT ![c] = k]
        /\ stop' = [stop EXCEPT ![c] = [stop[c] EXCEPT !.kind = k, !.agent = a]]
        /\ UNCHANGED <<issuer, banned, revoked, door, runs, early>>
    BY DEF Begin, Goto, services
  <1>2. stop[c] \in StopState /\ Fine(c)
    BY DEF StopInv, StopTyped, StopTypeOK
  <1>3. /\ stop'[c] \in StopState /\ stop'[c].kind = k /\ stop'[c].agent = a
        /\ stop'[c].clean = stop[c].clean /\ stop'[c].listed = stop[c].listed
        /\ stop'[c].killed = stop[c].killed
        /\ stop' \in [Stopper -> StopState]
    BY <1>1, <1>2 DEF StopInv, StopTyped, StopTypeOK, StopState
  <1>4. /\ at' \in [Stopper -> {"idle", "stop", "list", "kill", "verdict", "lift", "revoke",
                                "stopped", "lifted", "revoked", "refused"}]
        /\ at'[c] = k /\ k \in {"stop", "lift", "revoke"}
    BY <1>1 DEF StopInv, StopTyped, StopTypeOK, Kind
  <1>5. lifts' \in [Stopper -> BOOLEAN]
    BY DEF Begin, StopInv, StopTyped
  <1>6. \A d \in Stopper : (lifts[d] => lifts'[d])
    BY DEF Begin, StopInv, StopTyped
  <1>7. StopTyped'
    BY <1>1, <1>3, <1>4, <1>5 DEF StopInv, StopTyped, StopTypeOK
  <1>8. \A d \in Stopper : d # c => SameStops(d)
    BY <1>1, <1>6 DEF SameStops, StopInv, StopTyped, StopTypeOK
  <1>9. RunsGo /\ BansGo
    BY <1>1 DEF RunsGo, BansGo
  <1>10. Fine(c)'
    BY <1>1, <1>2, <1>3, <1>4
       DEF Fine, KindOf, BanClean, NoKills, KillsCounted, EarlyListed, Reported, BanHolds, Stopping,
           Banning, Listing
  <1>11. LiftsNoted'
    <2> SUFFICES ASSUME NEW e \in Stopper, NEW d \in Stopper, at'[e] \in Banning, at'[d] = "lift",
                        stop'[d].agent = stop'[e].agent
                 PROVE  lifts'[e]
      BY DEF LiftsNoted
    <2>1. e # c /\ at[e] \in Banning /\ stop'[e] = stop[e] /\ stop[e].kind = "stop"
      BY <1>4, <1>8 DEF SameStops, Banning, StopInv, Fine, KindOf, Stopping
    <2>2. CASE d # c
      BY <1>6, <1>8, <2>1, <2>2 DEF SameStops, StopInv, LiftsNoted
    <2>3. CASE d = c
      <3>1. k = "lift" /\ stop[e].agent = a
        BY <1>3, <1>4, <2>1, <2>3
      <3>2. QED
        BY <2>1, <3>1 DEF Begin
    <2>4. QED
      BY <2>2, <2>3
  <1>12. QED
    BY <1>7, <1>8, <1>9, <1>10, <1>11, OneCall

\* What vouchryx may do with a ban, and say.
LEMMA BanPairs ==
    ASSUME StopTyped, NEW a \in Stoppable, NEW s \in BanAnswers(a) \cup BanFailures(a)
    PROVE  /\ s[1] \in {"no", "memory", "durable"} /\ (banned[a] = "durable" => s[1] = "durable")
           /\ Confirmed(s[2]) \in {"failed", "memory", "durable"}
           /\ Confirmed(s[2]) = "durable" => s[1] = "durable"
  <1>1. banned[a] \in {"no", "memory", "durable"} /\ issuer \in {"stored", "storeless", "old"}
    BY DEF StopTyped, StopTypeOK
  <1>2. ASSUME NEW t \in BanAnswers(a)
        PROVE  /\ t[1] \in {"no", "memory", "durable"} /\ (banned[a] = "durable" => t[1] = "durable")
               /\ Confirmed(t[2]) \in {"failed", "memory", "durable"}
               /\ Confirmed(t[2]) = "durable" => t[1] = "durable"
    BY <1>1, <1>2 DEF BanAnswers, Confirmed
  <1>3. ASSUME NEW t \in BanFailures(a)
        PROVE  /\ t[1] \in {"no", "memory", "durable"} /\ (banned[a] = "durable" => t[1] = "durable")
               /\ Confirmed(t[2]) = "failed"
    BY <1>1, <1>2, <1>3 DEF BanFailures, Confirmed
  <1>4. QED
    BY <1>2, <1>3

LEMMA BanStep ==
    ASSUME StopInv, NEW c \in Stopper, Ban(c)
    PROVE  StopInv'
  <1>1. PICK a \in Stoppable : a = stop[c].agent
    BY StateFields DEF StopInv, StopTyped, StopTypeOK
  <1>2. PICK s \in BanAnswers(a) \cup BanFailures(a) :
              /\ banned' = [banned EXCEPT ![a] = s[1]]
              /\ revoked' \in IF s[2] = "failed" THEN {revoked, revoked \cup {a}}
                              ELSE {revoked \cup {a}}
              /\ stop' = [Note(c, Confirmed(s[2]) # "failed") EXCEPT ![c].ban = Confirmed(s[2])]
              /\ early' = [early EXCEPT ![c] = OpenRuns(a)]
    BY <1>1 DEF Ban
  <1>3. /\ at[c] = "stop" /\ at' = [at EXCEPT ![c] = "list"] /\ UNCHANGED <<issuer, door, runs>>
        /\ lifts' = [lifts EXCEPT ![c] = \E d \in Stopper :
                        stop[d].kind = "lift" /\ stop[d].agent = a /\ at[d] = "lift"]
    BY <1>1 DEF Ban, Goto
  <1>4. PICK x \in {"failed", "memory", "durable"} :
              /\ x = Confirmed(s[2]) /\ (x = "durable" => s[1] = "durable")
              /\ s[1] \in {"no", "memory", "durable"} /\ (banned[a] = "durable" => s[1] = "durable")
    BY BanPairs DEF StopInv
  <1>5. PICK ok \in BOOLEAN : ok = (Confirmed(s[2]) # "failed")
    BY Zenon
  <1>6. stop' = [Note(c, ok) EXCEPT ![c].ban = x] /\ (ok <=> x # "failed")
    BY <1>2, <1>4, <1>5, Zenon
  <1>7. PICK b \in BOOLEAN : /\ b <=> stop[c].clean /\ ok
                             /\ Note(c, ok)[c] = [stop[c] EXCEPT !.clean = b]
                             /\ Note(c, ok) \in [Stopper -> StopState]
                             /\ \A d \in Stopper : d # c => Note(c, ok)[d] = stop[d]
    BY NoteFields DEF StopInv
  <1>8. /\ stop' \in [Stopper -> StopState] /\ \A d \in Stopper : d # c => stop'[d] = stop[d]
        /\ stop'[c] = [[stop[c] EXCEPT !.clean = b] EXCEPT !.ban = x]
    <2>1. \A t \in StopState : [t EXCEPT !.ban = x] \in StopState
      BY DEF StopState
    <2>2. PICK t \in StopState : t = Note(c, ok)[c]
      BY <1>7
    <2>3. stop' = [Note(c, ok) EXCEPT ![c] = [t EXCEPT !.ban = x]]
      BY <1>6, <2>2
    <2>4. QED
      BY <1>7, <2>1, <2>2, <2>3
  <1>9. stop[c] \in StopState /\ Fine(c)
    BY DEF StopInv, StopTyped, StopTypeOK
  <1>10. /\ stop'[c].kind = stop[c].kind /\ stop'[c].agent = a /\ stop'[c].ban = x
         /\ stop'[c].clean = b /\ stop'[c].listed = stop[c].listed
         /\ stop'[c].killed = stop[c].killed
    BY <1>1, <1>8, <1>9 DEF StopState
  <1>11. /\ at' \in [Stopper -> {"idle", "stop", "list", "kill", "verdict", "lift", "revoke",
                                 "stopped", "lifted", "revoked", "refused"}]
         /\ at'[c] = "list" /\ \A d \in Stopper : d # c => at'[d] = at[d]
    BY <1>3 DEF StopInv, StopTyped, StopTypeOK
  <1>12. /\ early' \in [Stopper -> SUBSET Run] /\ early'[c] = OpenRuns(a)
         /\ \A d \in Stopper : d # c => early'[d] = early[d]
    BY <1>2 DEF StopInv, StopTyped, OpenRuns
  <1>13. PICK n \in BOOLEAN : n = \E d \in Stopper :
                        stop[d].kind = "lift" /\ stop[d].agent = a /\ at[d] = "lift"
    BY Zenon
  <1>14. lifts' = [lifts EXCEPT ![c] = n] /\ \A d \in Stopper :
                        stop[d].kind = "lift" /\ stop[d].agent = a /\ at[d] = "lift" => n
    BY <1>3, <1>13, Zenon
  <1>15. lifts' \in [Stopper -> BOOLEAN] /\ lifts'[c] = n /\ \A d \in Stopper : d # c => lifts'[d] = lifts[d]
    BY <1>14 DEF StopInv, StopTyped
  <1>16. banned' \in [Stoppable -> {"no", "memory", "durable"}] /\ revoked' \subseteq Stoppable
         /\ banned'[a] = s[1] /\ \A e \in Stoppable : e # a => banned'[e] = banned[e]
    BY <1>2, <1>4 DEF StopInv, StopTyped, StopTypeOK
  <1>17. StopTyped'
    BY <1>3, <1>8, <1>11, <1>12, <1>15, <1>16 DEF StopInv, StopTyped, StopTypeOK
  <1>18. \A d \in Stopper : d # c => SameStops(d)
    BY <1>8, <1>11, <1>12, <1>15 DEF SameStops
  <1>19. RunsGo /\ BansGo
    BY <1>3, <1>4, <1>16 DEF RunsGo, BansGo
  <1>20. Fine(c)'
    <2>1. KindOf(c)' /\ BanClean(c)' /\ NoKills(c)' /\ KillsCounted(c)' /\ Reported(c)'
      BY <1>3, <1>6, <1>7, <1>9, <1>10, <1>11
         DEF Fine, KindOf, BanClean, NoKills, KillsCounted, Reported, Stopping, Banning, Listing
    <2>2. EarlyListed(c)'
      BY <1>3, <1>9, <1>10, <1>11, <1>12 DEF EarlyListed, Fine, KindOf, OpenRuns
    <2>3. BanHolds(c)'
      BY <1>4, <1>10, <1>16 DEF BanHolds
    <2>4. QED
      BY <2>1, <2>2, <2>3 DEF Fine
  <1>21. LiftsNoted'
    <2> SUFFICES ASSUME NEW e \in Stopper, NEW d \in Stopper, at'[e] \in Banning, at'[d] = "lift",
                        stop'[d].agent = stop'[e].agent
                 PROVE  lifts'[e]
      BY DEF LiftsNoted
    <2>1. d # c /\ at[d] = "lift" /\ stop'[d] = stop[d] /\ stop[d].kind = "lift"
      BY <1>8, <1>11 DEF StopInv, Fine, KindOf
    <2>2. CASE e = c
      BY <1>10, <1>14, <1>15, <2>1, <2>2
    <2>3. CASE e # c
      BY <1>8, <1>11, <1>15, <2>1, <2>3 DEF StopInv, LiftsNoted
    <2>4. QED
      BY <2>2, <2>3
  <1>22. QED
    BY <1>17, <1>18, <1>19, <1>20, <1>21, OneCall

\* The steps of a call after its ban leave bans and lifts alone.
LEMMA LaterCall ==
    ASSUME StopInv, NEW c \in Stopper, at[c] \in {"list", "kill", "verdict"},
           stop' \in [Stopper -> StopState], \A d \in Stopper : d # c => stop'[d] = stop[d],
           stop'[c].agent = stop[c].agent, stop'[c].ban = stop[c].ban,
           NEW to \in {"kill", "verdict", "stopped", "refused"}, at' = [at EXCEPT ![c] = to],
           UNCHANGED <<issuer, banned, revoked, door, early, lifts>>,
           runs' \in [Run -> {"none", "open", "killed"}], RunsGo,
           KindOf(c)', KillsCounted(c)', EarlyListed(c)', Reported(c)'
    PROVE  StopInv'
  <1>1. /\ at' \in [Stopper -> {"idle", "stop", "list", "kill", "verdict", "lift", "revoke",
                                "stopped", "lifted", "revoked", "refused"}]
        /\ at'[c] = to /\ \A d \in Stopper : d # c => at'[d] = at[d]
    BY DEF StopInv, StopTyped, StopTypeOK
  <1>2. StopTyped'
    BY <1>1 DEF StopInv, StopTyped, StopTypeOK
  <1>3. \A d \in Stopper : d # c => SameStops(d)
    BY <1>1 DEF SameStops
  <1>4. BansGo
    BY DEF BansGo
  <1>5. Fine(c)'
    BY <1>1 DEF StopInv, Fine, BanClean, NoKills, BanHolds, Banning
  <1>6. LiftsNoted'
    BY <1>1, NotedElse DEF Banning
  <1>7. QED
    BY <1>2, <1>3, <1>4, <1>5, <1>6, OneCall

LEMMA ListRunsStep ==
    ASSUME StopInv, NEW c \in Stopper, ListRuns(c)
    PROVE  StopInv'
  <1>0. PICK open : open = OpenRuns(stop[c].agent)
    OBVIOUS
  <1>1. PICK left \in SUBSET open :
              /\ stop' = [stop EXCEPT ![c] = [stop[c] EXCEPT !.open = open, !.listed = TRUE, !.left = left]]
              /\ at' = [at EXCEPT ![c] = IF left = {} THEN "verdict" ELSE "kill"]
              /\ at[c] = "list"
    <2>1. PICK left \in SUBSET open :
              /\ stop' = [stop EXCEPT ![c].open = open, ![c].listed = TRUE, ![c].left = left]
              /\ at' = [at EXCEPT ![c] = IF left = {} THEN "verdict" ELSE "kill"]
      BY <1>0 DEF ListRuns
    <2>2. at[c] = "list"
      BY DEF ListRuns
    <2>3. QED
      BY <2>1, <2>2 DEF StopInv, StopTyped, StopTypeOK
  <1>2. stop[c] \in StopState /\ Fine(c) /\ open \subseteq Run /\ left \subseteq Run
    BY <1>0, <1>1 DEF StopInv, StopTyped, StopTypeOK, OpenRuns
  <1>3. stop' \in [Stopper -> StopState] /\ \A d \in Stopper : d # c => stop'[d] = stop[d]
    <2>1. [stop[c] EXCEPT !.open = open, !.listed = TRUE, !.left = left] \in StopState
      BY <1>2 DEF StopState
    <2>2. QED
      BY <1>1, <2>1 DEF StopInv, StopTyped, StopTypeOK
  <1>4. /\ stop'[c].agent = stop[c].agent /\ stop'[c].ban = stop[c].ban
        /\ stop'[c].kind = stop[c].kind /\ stop'[c].clean = stop[c].clean
        /\ stop'[c].killed = stop[c].killed /\ stop'[c].open = open /\ stop'[c].left = left
        /\ stop'[c].listed = TRUE
    BY <1>1, <1>2 DEF StopInv, StopTyped, StopTypeOK, StopState
  <1>5. UNCHANGED <<issuer, banned, revoked, door, runs, early, lifts>>
    BY DEF ListRuns, services
  <1>6. at'[c] \in {"kill", "verdict"}
    BY <1>1 DEF StopInv, StopTyped, StopTypeOK
  <1>7. KindOf(c)' /\ Reported(c)'
    BY <1>1, <1>2, <1>4, <1>6 DEF Fine, KindOf, Reported, Stopping, Banning
  <1>8. stop[c].killed = {}
    BY <1>1, <1>2 DEF Fine, NoKills
  <1>9. KillsCounted(c)'
    BY <1>1, <1>2, <1>4, <1>8 DEF KillsCounted, Counted, Fine, BanClean
  <1>10. EarlyListed(c)'
    BY <1>0, <1>1, <1>2, <1>4, <1>5 DEF EarlyListed, Fine, OpenRuns, Banning
  <1>11. QED
    BY <1>1, <1>3, <1>4, <1>5, <1>7, <1>9, <1>10, LaterCall DEF RunsGo, StopInv, StopTyped, StopTypeOK

LEMMA ListFailsStep ==
    ASSUME StopInv, NEW c \in Stopper, ListRunsFails(c)
    PROVE  StopInv'
  <1>1. /\ at[c] = "list" /\ at' = [at EXCEPT ![c] = "verdict"] /\ stop' = Note(c, FALSE)
        /\ UNCHANGED <<issuer, banned, revoked, door, runs, early, lifts>>
    BY DEF ListRunsFails, Goto, services
  <1>2. PICK b \in BOOLEAN : /\ stop'[c] = [stop[c] EXCEPT !.clean = b]
                             /\ stop' \in [Stopper -> StopState]
                             /\ \A d \in Stopper : d # c => stop'[d] = stop[d]
    BY <1>1, NoteFields DEF StopInv
  <1>3. stop[c] \in StopState /\ Fine(c) /\ at'[c] = "verdict"
    BY <1>1 DEF StopInv, StopTyped, StopTypeOK
  <1>4. /\ stop'[c].agent = stop[c].agent /\ stop'[c].ban = stop[c].ban
        /\ stop'[c].kind = stop[c].kind /\ stop'[c].listed = stop[c].listed
    BY <1>2, <1>3 DEF StopState
  <1>5. KindOf(c)' /\ Reported(c)' /\ KillsCounted(c)' /\ EarlyListed(c)'
    BY <1>1, <1>3, <1>4
       DEF Fine, KindOf, Reported, KillsCounted, EarlyListed, Stopping, Banning, Listing
  <1>6. QED
    BY <1>1, <1>2, <1>4, <1>5, LaterCall DEF RunsGo, StopInv, StopTyped, StopTypeOK

LEMMA KillStep ==
    ASSUME StopInv, NEW c \in Stopper, NEW r \in Run, KillRun(c, r)
    PROVE  StopInv'
  <1>1. PICK ok \in BOOLEAN :
          /\ runs' \in {[runs EXCEPT ![r] = "killed"]} \cup (IF ok THEN {} ELSE {runs})
          /\ stop' = [Note(c, ok) EXCEPT ![c].left = @ \ {r},
                                         ![c].killed = IF ok THEN @ \cup {r} ELSE @]
    BY DEF KillRun
  <1>2. /\ at[c] = "kill" /\ r \in stop[c].left
        /\ at' = [at EXCEPT ![c] = IF stop'[c].left = {} THEN "verdict" ELSE "kill"]
        /\ UNCHANGED <<issuer, banned, revoked, door, early, lifts>>
    BY DEF KillRun
  <1>3. PICK b \in BOOLEAN : /\ b <=> stop[c].clean /\ ok
                             /\ Note(c, ok)[c] = [stop[c] EXCEPT !.clean = b]
                             /\ Note(c, ok) \in [Stopper -> StopState]
                             /\ \A d \in Stopper : d # c => Note(c, ok)[d] = stop[d]
    BY NoteFields DEF StopInv
  <1>4. PICK t \in StopState : t = Note(c, ok)[c]
    BY <1>3
  <1>5. stop[c] \in StopState /\ Fine(c)
    BY DEF StopInv, StopTyped, StopTypeOK
  <1>6. /\ t.kind = stop[c].kind /\ t.agent = stop[c].agent /\ t.ban = stop[c].ban
        /\ t.open = stop[c].open /\ t.listed = stop[c].listed /\ t.left = stop[c].left
        /\ t.killed = stop[c].killed /\ t.clean = b
    BY <1>3, <1>4, <1>5 DEF StopState
  <1>7. PICK k \in SUBSET Run : k = IF ok THEN stop[c].killed \cup {r} ELSE stop[c].killed
    BY <1>5, StateFields
  <1>8. stop' = [Note(c, ok) EXCEPT ![c] = [t EXCEPT !.left = stop[c].left \ {r}, !.killed = k]]
    BY <1>1, <1>3, <1>4, <1>6, <1>7
  <1>9. [t EXCEPT !.left = stop[c].left \ {r}, !.killed = k] \in StopState
    BY <1>4, <1>5, <1>7 DEF StopState
  <1>10. /\ stop' \in [Stopper -> StopState] /\ \A d \in Stopper : d # c => stop'[d] = stop[d]
         /\ stop'[c] = [t EXCEPT !.left = stop[c].left \ {r}, !.killed = k]
    BY <1>3, <1>8, <1>9
  <1>11. /\ stop'[c].kind = stop[c].kind /\ stop'[c].agent = stop[c].agent
         /\ stop'[c].ban = stop[c].ban /\ stop'[c].open = stop[c].open
         /\ stop'[c].listed = stop[c].listed /\ stop'[c].left = stop[c].left \ {r}
         /\ stop'[c].killed = k /\ stop'[c].clean = b
    BY <1>4, <1>6, <1>10 DEF StopState
  <1>12. /\ runs' \in [Run -> {"none", "open", "killed"}] /\ RunsGo /\ (ok => runs'[r] = "killed")
    BY <1>1 DEF StopInv, StopTyped, StopTypeOK, RunsGo
  <1>13. at'[c] \in {"kill", "verdict"}
    BY <1>2 DEF StopInv, StopTyped, StopTypeOK
  <1>14. KindOf(c)' /\ Reported(c)'
    BY <1>2, <1>5, <1>11, <1>13 DEF Fine, KindOf, Reported, Stopping, Banning
  <1>15. EarlyListed(c)'
    BY <1>2, <1>5, <1>11, <1>12, <1>13 DEF Fine, EarlyListed, RunsGo, Banning
  <1>16. KillsCounted(c)'
    <2>1. SUFFICES ASSUME stop[c].listed
                   PROVE  Counted(stop[c])' /\ \A q \in k : runs'[q] = "killed"
      BY <1>11 DEF KillsCounted
    <2>2. Counted(stop[c]) /\ \A q \in stop[c].killed : runs[q] = "killed"
      BY <1>2, <1>5, <2>1 DEF Fine, KillsCounted, Listing
    <2>3. \A q \in k : runs'[q] = "killed"
      BY <1>5, <1>7, <1>12, <2>2, StateFields DEF RunsGo
    <2>4. /\ k \subseteq stop[c].open /\ stop[c].left \ {r} \subseteq stop[c].open \ k
      BY <1>2, <1>7, <2>2 DEF Counted
    <2>5. ASSUME stop[c].ban \in {"memory", "durable"}, ~ b
          PROVE  stop[c].open \ (k \cup (stop[c].left \ {r})) # {}
      <3>1. CASE ok
        BY <1>2, <1>3, <1>7, <2>2, <2>5, <3>1 DEF Counted
      <3>2. CASE ~ ok
        BY <1>2, <1>7, <2>2, <3>2 DEF Counted
      <3>3. QED
        BY <3>1, <3>2
    <2>6. QED
      BY <1>11, <2>3, <2>4, <2>5 DEF Counted
  <1>17. QED
    BY <1>2, <1>10, <1>11, <1>12, <1>14, <1>15, <1>16, LaterCall

LEMMA VerdictStep ==
    ASSUME StopInv, NEW c \in Stopper, Verdict(c)
    PROVE  StopInv'
  <1>1. /\ at[c] = "verdict" /\ at' = [at EXCEPT ![c] = IF Stopped(stop[c]) THEN "stopped" ELSE "refused"]
        /\ UNCHANGED <<issuer, banned, revoked, door, runs, stop, early, lifts>>
    BY DEF Verdict, Goto, services
  <1>2. at'[c] = IF Stopped(stop[c]) THEN "stopped" ELSE "refused"
    BY <1>1 DEF StopInv, StopTyped, StopTypeOK
  <1>3. Fine(c)
    BY DEF StopInv
  <1>4. KindOf(c)' /\ Reported(c)' /\ KillsCounted(c)' /\ EarlyListed(c)'
    BY <1>1, <1>2, <1>3
       DEF Fine, KindOf, Reported, KillsCounted, EarlyListed, Stopping, Banning, Listing
  <1>5. QED
    BY <1>1, <1>4, LaterCall DEF RunsGo, StopInv, StopTyped, StopTypeOK

\* A lift and a revocation end their own call.
LEMMA LiftStep ==
    ASSUME StopInv, NEW c \in Stopper, Lift(c) \/ Revoke(c)
    PROVE  StopInv'
  <1>1. PICK a \in Stoppable : a = stop[c].agent
    BY StateFields DEF StopInv, StopTyped, StopTypeOK
  <1>2. PICK ok \in BOOLEAN, to \in {"lifted", "revoked", "refused"} :
            stop' = Note(c, ok) /\ at' = [at EXCEPT ![c] = to]
    BY DEF Lift, Revoke, Goto, LiftVerdict
  <1>3. /\ at[c] \in {"lift", "revoke"} /\ UNCHANGED <<issuer, door, runs, early, lifts>>
        /\ revoked' \in {revoked, revoked \cup {a}}
        /\ banned' = banned \/ (at[c] = "lift" /\ banned' = [banned EXCEPT ![a] = "no"])
    BY <1>1 DEF Lift, Revoke, Goto
  <1>4. PICK b \in BOOLEAN : /\ stop'[c] = [stop[c] EXCEPT !.clean = b]
                             /\ stop' \in [Stopper -> StopState]
                             /\ \A d \in Stopper : d # c => stop'[d] = stop[d]
    <2>1. /\ Note(c, ok) \in [Stopper -> StopState]
          /\ \A d \in Stopper : d # c => Note(c, ok)[d] = stop[d]
          /\ \E b \in BOOLEAN : Note(c, ok)[c] = [stop[c] EXCEPT !.clean = b]
      BY NoteFields, Zenon DEF StopInv
    <2>2. stop' = Note(c, ok)
      BY <1>2
    <2>3. QED
      BY <2>1, <2>2, Zenon
  <1>5. /\ at' \in [Stopper -> {"idle", "stop", "list", "kill", "verdict", "lift", "revoke",
                                "stopped", "lifted", "revoked", "refused"}]
        /\ at'[c] = to /\ \A d \in Stopper : d # c => at'[d] = at[d]
    BY <1>2 DEF StopInv, StopTyped, StopTypeOK
  <1>6. banned' \in [Stoppable -> {"no", "memory", "durable"}] /\ revoked' \subseteq Stoppable
    BY <1>3 DEF StopInv, StopTyped, StopTypeOK
  <1>7. StopTyped'
    BY <1>3, <1>4, <1>5, <1>6 DEF StopInv, StopTyped, StopTypeOK
  <1>8. \A d \in Stopper : d # c => SameStops(d)
    BY <1>3, <1>4, <1>5 DEF SameStops
  <1>9. RunsGo /\ BansGo
    BY <1>1, <1>3 DEF RunsGo, BansGo, StopInv, StopTyped, StopTypeOK
  <1>10. Fine(c)'
    BY <1>5 DEF Fine, KindOf, BanClean, NoKills, KillsCounted, EarlyListed, Reported, BanHolds, Stopping,
                Banning, Listing
  <1>11. LiftsNoted'
    BY <1>3, <1>4, <1>5, NotedElse DEF Banning
  <1>12. QED
    BY <1>7, <1>8, <1>9, <1>10, <1>11, OneCall

LEMMA StopStep == StopInv /\ [StopsNext]_stopVars => StopInv'
  <1> SUFFICES ASSUME StopInv, [StopsNext]_stopVars PROVE StopInv'
    OBVIOUS
  <1>1. ASSUME NEW c \in Stopper, StopCallStep(c) PROVE StopInv'
    BY <1>1, BanStep, ListRunsStep, ListFailsStep, VerdictStep, KillStep, LiftStep DEF StopCallStep
  <1>2. QED
    BY <1>1, ServicesStep, BeginStep DEF StopsNext

LEMMA InitStop ==
    ASSUME StopsInit
    PROVE  StopInv
  <1>1. Unused \in StopState
    BY StopsAssumption DEF Unused, StopState, Kind
  <1>2. Unused.clean /\ ~ Unused.listed /\ Unused.killed = {}
    BY DEF Unused
  <1> HIDE DEF Unused
  <1>3. StopTyped
    BY <1>1 DEF StopsInit, StopTyped, StopTypeOK
  <1>4. \A c \in Stopper : Fine(c)
    BY <1>2 DEF StopsInit, Fine, KindOf, BanClean, NoKills, KillsCounted, EarlyListed, Reported, BanHolds,
                Stopping, Banning, Listing
  <1>5. LiftsNoted
    BY DEF StopsInit, LiftsNoted, Banning
  <1>6. QED
    BY <1>3, <1>4, <1>5 DEF StopInv

\* The services' state and the calls have their types.
THEOREM StopTypeCorrect == StopsSpec => []StopTypeOK
  <1>1. StopsInit => StopInv
    BY InitStop
  <1>2. StopInv => StopTypeOK
    BY DEF StopInv, StopTyped
  <1>3. QED
    BY <1>1, <1>2, StopStep, PTL DEF StopsSpec

\* The verdict counts: as many killed as open means that no kill failed and no
\* run was over the limit.
LEMMA CountMeansAll ==
    ASSUME NEW s \in StopState, Counted(s), Stopped(s)
    PROVE  s.killed = s.open /\ s.clean
  <1>1. IsFiniteSet(s.open) /\ s.killed \subseteq s.open
    BY StateFields, FS_Subset, StopsAssumption DEF Counted
  <1>2. s.killed = s.open
    BY <1>1, FS_Subset DEF Stopped
  <1>3. QED
    BY <1>2 DEF Counted, Stopped

\* An agent reported as stopped is stopped: every run that was open when its ban
\* was confirmed is killed, no step of the call failed, and a ban reported as
\* durable outlives vouchryx until a lift of that agent is begun, for any number
\* of stops, lifts and revocations in flight together and any request that fails
\* before or after it took effect (stop.rs:11).
THEOREM StoppedIsStoppedHolds == StopsSpec => []StoppedIsStopped
  <1>1. StopsInit => StopInv
    BY InitStop
  <1>2. StopInv => StoppedIsStopped
    <2> SUFFICES ASSUME StopInv, NEW c \in Stopper, at[c] = "stopped"
                 PROVE  /\ stop[c].clean /\ \A r \in early[c] : runs[r] = "killed"
                        /\ stop[c].ban = "durable" /\ ~ lifts[c] => banned[stop[c].agent] = "durable"
      BY DEF StoppedIsStopped, StoppedLeavesNoOldRun, DurableStopHolds
    <2>1. stop[c] \in StopState /\ Fine(c)
      BY DEF StopInv, StopTyped, StopTypeOK
    <2>2. Stopped(stop[c]) /\ stop[c].listed
      BY <2>1 DEF Fine, Reported, Stopped
    <2>3. Counted(stop[c]) /\ \A r \in stop[c].killed : runs[r] = "killed"
      BY <2>1, <2>2 DEF Fine, KillsCounted, Listing
    <2>4. stop[c].killed = stop[c].open /\ stop[c].clean
      BY <2>1, <2>2, <2>3, CountMeansAll
    <2>5. \A r \in early[c] : runs[r] = "killed"
      BY <2>1, <2>2, <2>3, <2>4 DEF Fine, EarlyListed, Banning
    <2>6. QED
      BY <2>1, <2>4, <2>5 DEF Fine, BanHolds, Banning
  <1>3. QED
    BY <1>1, <1>2, StopStep, PTL DEF StopsSpec
=============================================================================
