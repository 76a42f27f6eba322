-------------------------- MODULE PasskeyGateProofs --------------------------
(***************************************************************************)
(* Proofs about PasskeyGate, for every set of users, credentials,           *)
(* challenges and requests.                                                 *)
(***************************************************************************)
EXTENDS PasskeyGate, TLAPS

(***************************************************************************)
(* Types.  A handler that is under way has a request.                       *)
(***************************************************************************)
Stage == {"idle", "gate", "take", "verify", "count", "act", "over"}
UnderWay(r) == pc[r] \in {"gate", "take", "verify", "count", "act"}
HasRequest == \A r \in Request : UnderWay(r) => req[r] \in Ask
Typed == TypeOK /\ HasRequest

LEMMA AskFields ==
    ASSUME NEW a \in Ask
    PROVE  /\ a.user \in User /\ a.deed \in Deed /\ a.ch \in Challenge \cup {None}
           /\ a.cred \in Cred \cup {None}
  BY DEF Ask

LEMMA MintTyping ==
    ASSUME TypeOK, NEW u \in User, NEW d \in Deed, Mint(u, d)
    PROVE  pending' \subseteq Pending /\ minted' \in [Challenge -> Minted \cup {None}]
  <1>1. PICK c \in Challenge :
           /\ minted' = [minted EXCEPT ![c] = [user |-> u, deed |-> d]]
           /\ pending' = {p \in pending : p.age = "fresh"}
                         \cup {[ch |-> c, user |-> u, deed |-> d, age |-> "fresh"]}
    BY DEF Mint
  <1>2. [user |-> u, deed |-> d] \in Minted
    BY DEF Minted
  <1>3. [ch |-> c, user |-> u, deed |-> d, age |-> "fresh"] \in Pending
    BY DEF Pending
  <1>4. QED
    BY <1>1, <1>2, <1>3 DEF TypeOK

LEMMA AnswerTyping ==
    ASSUME Typed, NEW r \in Request, NEW from, Answer(r, from)
    PROVE  /\ pc' \in [Request -> Stage] /\ req' \in [Request -> Ask \cup {None}]
           /\ how' \in [Request -> Factor]
           /\ pc[r] = from /\ pc'[r] = "over"
           /\ \A s \in Request : s # r => pc'[s] = pc[s] /\ req'[s] = req[s] /\ how'[s] = how[s]
           /\ how'[r] = "none"
           /\ HasRequest'
  <1>1. /\ pc' \in [Request -> Stage] /\ req' \in [Request -> Ask \cup {None}]
        /\ how' \in [Request -> Factor]
        /\ pc[r] = from /\ pc'[r] = "over"
        /\ \A s \in Request : s # r => pc'[s] = pc[s] /\ req'[s] = req[s] /\ how'[s] = how[s]
        /\ how'[r] = "none"
    BY DEF Typed, TypeOK, Answer, Goto, Establish, Stage, Factor
  <1>2. HasRequest'
    BY <1>1 DEF Typed, HasRequest, UnderWay
  <1>3. QED
    BY <1>1, <1>2

\* A handler moves on with the request it has.
LEMMA GotoTyping ==
    ASSUME Typed, NEW r \in Request, NEW from, NEW to \in Stage, Goto(r, from, to),
           UnderWay(r), UNCHANGED req
    PROVE  /\ pc' \in [Request -> Stage] /\ req' \in [Request -> Ask \cup {None}]
           /\ HasRequest'
           /\ pc[r] = from /\ pc'[r] = to
           /\ \A s \in Request : s # r => pc'[s] = pc[s]
  <1>1. /\ pc' \in [Request -> Stage] /\ req' \in [Request -> Ask \cup {None}]
        /\ pc[r] = from /\ pc'[r] = to
        /\ \A s \in Request : s # r => pc'[s] = pc[s]
    BY DEF Typed, TypeOK, Goto, Stage
  <1>2. HasRequest'
    BY <1>1 DEF Typed, HasRequest, UnderWay
  <1>3. QED
    BY <1>1, <1>2

LEMMA SucceedTyping ==
    ASSUME Typed, NEW r \in Request, UnderWay(r), Succeed(r)
    PROVE  /\ Answer(r, "act") /\ done' \subseteq Outcome
           /\ done' = done \cup {[req |-> r, user |-> req[r].user, deed |-> req[r].deed,
                           ch |-> IF how[r] = "assertion" THEN req[r].ch ELSE None,
                           cred |-> req[r].cred, how |-> how[r]]}
  <1>1. req[r] \in Ask
    BY DEF Typed, HasRequest
  <1>2. how[r] \in Factor
    BY DEF Typed, TypeOK
  <1> DEFINE x == [req |-> r, user |-> req[r].user, deed |-> req[r].deed,
                   ch |-> IF how[r] = "assertion" THEN req[r].ch ELSE None,
                   cred |-> req[r].cred, how |-> how[r]]
  <1>3. x \in Outcome
    BY <1>1, <1>2, AskFields DEF Outcome
  <1>4. QED
    BY <1>3 DEF Succeed, Typed, TypeOK

LEMMA PersistTyping ==
    ASSUME TypeOK, keys' \in [User -> SUBSET Cred], Persist \/ PersistFails
    PROVE  /\ disk' \in [User -> SUBSET Cred] /\ file' \in {"whole", "torn"}
           /\ crashes' \in Nat /\ faults' \in Nat
  <1>1. CASE Persist
    BY <1>1 DEF Persist, TypeOK, bounds
  <1>2. CASE PersistFails
    BY <1>2 DEF PersistFails, TypeOK
  <1>3. QED
    BY <1>1, <1>2

LEMMA DeedOf ==
    ASSUME NEW d \in Deed
    PROVE  /\ d.what \in {"command", "remove", "enroll", "register"}
           /\ d.what = "remove" => d.on \in Cred
  BY DEF Deed

LEMMA GateTyping ==
    ASSUME Typed, NEW r \in Request, Gate(r)
    PROVE  /\ pc' \in [Request -> Stage] /\ req' \in [Request -> Ask \cup {None}]
           /\ how' \in [Request -> Factor] /\ HasRequest'
           /\ done' = done /\ UNCHANGED <<store, process, ceremony, bounds>>
           /\ pc[r] = "gate" /\ pc'[r] \in {"act", "take", "over"}
           /\ pc'[r] = "take" => req'[r] = req[r] /\ req[r].ch # None /\ how'[r] = how[r]
           /\ pc'[r] = "act" => /\ req'[r] = req[r] /\ how'[r] \in {"software", "password"}
                               /\ req[r].deed.what # "register"
           /\ pc'[r] = "over" => how'[r] = "none"
           /\ \A s \in Request : s # r => pc'[s] = pc[s] /\ req'[s] = req[s] /\ how'[s] = how[s]
  <1>0. UnderWay(r) /\ pc[r] = "gate"
    BY DEF Gate, UnderWay
  <1>1. \/ /\ req[r].deed.what # "register"
           /\ \E f \in {"software", "password"} : Proceed(r, f)
        \/ AskAssertion(r) \/ Refuse(r, "gate")
    BY DEF Gate, CommandGate, RemoveGate, EnrollGate, RegisterGate
  <1>2. UNCHANGED <<store, process, ceremony, bounds>>
    BY DEF Gate
  <1>3. ASSUME NEW f \in {"software", "password"}, Proceed(r, f)
        PROVE  /\ pc' \in [Request -> Stage] /\ req' = req /\ HasRequest'
               /\ how' \in [Request -> Factor] /\ done' = done
               /\ pc'[r] = "act" /\ how'[r] \in {"software", "password"}
               /\ \A s \in Request : s # r => pc'[s] = pc[s] /\ how'[s] = how[s]
    <2>1. "act" \in Stage /\ f \in Factor
      BY DEF Stage, Factor
    <2>2. /\ pc' \in [Request -> Stage] /\ HasRequest' /\ pc'[r] = "act"
          /\ \A s \in Request : s # r => pc'[s] = pc[s]
      BY <1>0, <1>3, <2>1, GotoTyping DEF Proceed
    <2>3. /\ how' \in [Request -> Factor] /\ how'[r] = f
          /\ \A s \in Request : s # r => how'[s] = how[s]
      BY <1>3, <2>1 DEF Proceed, Establish, Typed, TypeOK
    <2>4. QED
      BY <1>3, <2>2, <2>3 DEF Proceed
  <1>4. ASSUME req[r].ch # None, Goto(r, "gate", "take"), UNCHANGED <<req, how, done>>
        PROVE  /\ pc' \in [Request -> Stage] /\ HasRequest' /\ pc'[r] = "take"
               /\ \A s \in Request : s # r => pc'[s] = pc[s]
    <2>1. "take" \in Stage
      BY DEF Stage
    <2>2. QED
      BY <1>0, <1>4, <2>1, GotoTyping
  <1>5. CASE Refuse(r, "gate")
    BY <1>0, <1>2, <1>5, AnswerTyping DEF Refuse
  <1>6. CASE AskAssertion(r)
    <2>1. CASE Refuse(r, "gate")
      BY <1>5, <2>1
    <2>2. CASE req[r].ch # None /\ Goto(r, "gate", "take") /\ UNCHANGED <<req, how, done>>
      BY <1>0, <1>2, <1>4, <2>2 DEF Typed, TypeOK
    <2>3. QED
      BY <1>6, <2>1, <2>2 DEF AskAssertion
  <1>7. CASE /\ req[r].deed.what # "register"
             /\ \E f \in {"software", "password"} : Proceed(r, f)
    BY <1>0, <1>2, <1>3, <1>7 DEF Typed, TypeOK
  <1>8. QED
    BY <1>1, <1>5, <1>6, <1>7

\* Take either goes on with the entry it removed, or refuses.
LEMMA TakeShape ==
    ASSUME Typed, NEW r \in Request, Take(r)
    PROVE  /\ pc[r] = "take"
           /\ UNCHANGED <<store, process, minted, signed, bounds, done>>
           /\ pending' \subseteq pending
           /\ \/ \E p \in pending :
                    /\ p.ch = req[r].ch /\ p.user = req[r].user /\ p.deed = req[r].deed
                    /\ pending' = pending \ {p}
                    /\ Goto(r, "take", "verify") /\ UNCHANGED <<req, how>>
              \/ Answer(r, "take")
  <1>1. CASE \E p \in pending :
             /\ p.ch = req[r].ch
             /\ pending' = pending \ {p}
             /\ IF Redeems(p, req[r])
                THEN Goto(r, "take", "verify") /\ UNCHANGED <<req, how, done>>
                ELSE Refuse(r, "take")
    <2>1. PICK p \in pending :
             /\ p.ch = req[r].ch
             /\ pending' = pending \ {p}
             /\ IF Redeems(p, req[r])
                THEN Goto(r, "take", "verify") /\ UNCHANGED <<req, how, done>>
                ELSE Refuse(r, "take")
      BY <1>1
    <2>2. CASE Redeems(p, req[r])
      BY <2>1, <2>2 DEF Take, Redeems
    <2>3. CASE ~ Redeems(p, req[r])
      BY <2>1, <2>3 DEF Take, Refuse
    <2>4. QED
      BY <2>2, <2>3
  <1>2. CASE /\ \A p \in pending : p.ch # req[r].ch
             /\ Refuse(r, "take") /\ UNCHANGED pending
    BY <1>2 DEF Take, Refuse
  <1>3. QED
    BY <1>1, <1>2 DEF Take

\* The three ways Verify goes.
LEMMA VerifyShape ==
    ASSUME NEW r \in Request, Verify(r)
    PROVE  /\ pc[r] = "verify"
           /\ UNCHANGED <<store, process, ceremony, bounds, done>>
           /\ \/ Goto(r, "verify", "act") /\ Establish(r, "assertion") /\ UNCHANGED req
              \/ Goto(r, "verify", "count") /\ UNCHANGED <<req, how>>
              \/ Answer(r, "verify")
  BY DEF Verify, VerifyRegistration, VerifyAssertion, Refuse

\* The types after a handler's step; an enrolment needs a credential to enrol.
LEMMA HandleTyping ==
    ASSUME Typed, NEW r \in Request, Handle(r),
           pc[r] = "act" /\ req[r].deed.what = "register" => req[r].cred \in Cred
    PROVE  Typed'
  <1>a. "verify" \in Stage /\ "count" \in Stage /\ "act" \in Stage /\ "assertion" \in Factor
    BY DEF Stage, Factor
  <1>1. ASSUME NEW ask \in Ask, Arrive(r, ask) PROVE Typed'
    <2>1. /\ pc' \in [Request -> Stage] /\ req' \in [Request -> Ask \cup {None}]
          /\ req'[r] = ask
          /\ \A s \in Request : s # r => pc'[s] = pc[s] /\ req'[s] = req[s]
      BY <1>1 DEF Arrive, Goto, Stage, Typed, TypeOK
    <2>2. HasRequest'
      BY <2>1 DEF Typed, HasRequest, UnderWay
    <2>3. QED
      BY <1>1, <2>1, <2>2 DEF Arrive, Typed, TypeOK, Stage, store, ceremony, bounds
  <1>2. CASE Gate(r)
    BY <1>2, GateTyping DEF Typed, TypeOK, Stage, store, ceremony, bounds
  <1>3. CASE Take(r)
    <2>1. UnderWay(r)
      BY <1>3 DEF Take, UnderWay
    <2>2. /\ pc' \in [Request -> Stage] /\ req' \in [Request -> Ask \cup {None}]
          /\ how' \in [Request -> Factor] /\ HasRequest'
      <3>1. CASE Answer(r, "take")
        BY <3>1, AnswerTyping
      <3>2. CASE Goto(r, "take", "verify") /\ UNCHANGED <<req, how>>
        BY <1>a, <2>1, <3>2, GotoTyping DEF Typed, TypeOK
      <3>3. QED
        BY <1>3, <3>1, <3>2, TakeShape
    <2>3. QED
      BY <1>3, <2>2, TakeShape DEF Typed, TypeOK, Stage, store, bounds
  <1>4. CASE Verify(r)
    <2>1. UnderWay(r)
      BY <1>4 DEF Verify, UnderWay
    <2>2. /\ pc' \in [Request -> Stage] /\ req' \in [Request -> Ask \cup {None}]
          /\ how' \in [Request -> Factor] /\ HasRequest'
      <3>1. CASE Answer(r, "verify")
        BY <3>1, AnswerTyping
      <3>2. CASE Goto(r, "verify", "count") /\ UNCHANGED <<req, how>>
        BY <1>a, <2>1, <3>2, GotoTyping DEF Typed, TypeOK
      <3>3. CASE Goto(r, "verify", "act") /\ Establish(r, "assertion") /\ UNCHANGED req
        BY <1>a, <2>1, <3>3, GotoTyping DEF Typed, TypeOK, Establish
      <3>4. QED
        BY <1>4, <3>1, <3>2, <3>3, VerifyShape
    <2>3. QED
      BY <1>4, <2>2, VerifyShape DEF Typed, TypeOK, Stage, store, ceremony, bounds
  <1>5. CASE CountUp(r)
    <2>1. UnderWay(r)
      BY <1>5 DEF CountUp, Goto, UnderWay
    <2>2. /\ pc' \in [Request -> Stage] /\ req' \in [Request -> Ask \cup {None}] /\ HasRequest'
      BY <1>a, <1>5, <2>1, GotoTyping DEF CountUp
    <2>3. how' \in [Request -> Factor]
      BY <1>a, <1>5 DEF CountUp, Establish, Typed, TypeOK
    <2>4. /\ disk' \in [User -> SUBSET Cred] /\ file' \in {"whole", "torn"}
          /\ crashes' \in Nat /\ faults' \in Nat
      BY <1>5, PersistTyping DEF CountUp, Typed, TypeOK
    <2>5. QED
      BY <1>5, <2>2, <2>3, <2>4 DEF CountUp, Typed, TypeOK, Stage, ceremony
  <1>6. ASSUME pc[r] = "act", Dispatch(r) PROVE Typed'
    <2>1. UnderWay(r)
      BY <1>6 DEF UnderWay
    <2>2. QED
      BY <1>6, <2>1, SucceedTyping, AnswerTyping
         DEF Dispatch, Typed, TypeOK, Stage, store, ceremony, bounds
  <1>7. ASSUME pc[r] = "act", BeginEnrolment(r) PROVE Typed'
    <2>1. UnderWay(r) /\ req[r] \in Ask
      BY <1>7 DEF UnderWay, Typed, HasRequest
    <2>2. req[r].user \in User /\ [what |-> "register", on |-> None] \in Deed
      BY <2>1, AskFields DEF Deed
    <2>3. pending' \subseteq Pending /\ minted' \in [Challenge -> Minted \cup {None}]
      BY <1>7, <2>2, MintTyping DEF BeginEnrolment, Typed
    <2>4. QED
      BY <1>7, <2>1, <2>3, SucceedTyping, AnswerTyping
         DEF BeginEnrolment, Typed, TypeOK, Stage, store, bounds
  <1>8. ASSUME pc[r] = "act", RemoveKey(r) PROVE Typed'
    <2>1. UnderWay(r) /\ req[r] \in Ask
      BY <1>8 DEF UnderWay, Typed, HasRequest
    <2>2. req[r].user \in User /\ req[r].deed.on \in Cred
      BY <1>8, <2>1, AskFields, DeedOf DEF RemoveKey
    <2>3. CASE Refuse(r, "act") /\ UNCHANGED <<store, bounds>>
      BY <1>8, <2>3, AnswerTyping
         DEF RemoveKey, Refuse, Typed, TypeOK, Stage, store, ceremony, bounds
    <2>4. CASE /\ keys' = [keys EXCEPT ![req[r].user] = @ \ {req[r].deed.on}]
               /\ dropped' = dropped \cup {req[r].deed.on}
               /\ \/ Persist /\ Succeed(r)
                  \/ PersistFails /\ Refuse(r, "act")
      <3>1. keys' \in [User -> SUBSET Cred] /\ dropped' \subseteq Cred
        BY <2>2, <2>4 DEF Typed, TypeOK
      <3>2. /\ disk' \in [User -> SUBSET Cred] /\ file' \in {"whole", "torn"}
            /\ crashes' \in Nat /\ faults' \in Nat
        BY <2>4, <3>1, PersistTyping DEF Typed
      <3>3. Answer(r, "act") /\ done' \subseteq Outcome
        BY <2>1, <2>4, SucceedTyping DEF Refuse, Typed, TypeOK
      <3>4. QED
        BY <1>8, <3>1, <3>2, <3>3, AnswerTyping DEF RemoveKey, Typed, TypeOK, Stage, ceremony
    <2>5. QED
      BY <1>8, <2>3, <2>4 DEF RemoveKey
  <1>9. ASSUME pc[r] = "act", AddKey(r) PROVE Typed'
    <2>1. UnderWay(r) /\ req[r] \in Ask
      BY <1>9 DEF UnderWay, Typed, HasRequest
    <2>2. req[r].user \in User /\ req[r].cred \in Cred
      BY <1>9, <2>1, AskFields DEF AddKey
    <2>3. CASE Refuse(r, "act") /\ UNCHANGED <<keys, disk, file, bounds>>
      BY <1>9, <2>3, AnswerTyping
         DEF AddKey, Refuse, Typed, TypeOK, Stage, ceremony, bounds
    <2>4. CASE /\ keys' = [keys EXCEPT ![req[r].user] = @ \cup {req[r].cred}]
               /\ \/ Persist /\ Succeed(r)
                  \/ PersistFails /\ Refuse(r, "act")
      <3>1. keys' \in [User -> SUBSET Cred]
        BY <2>2, <2>4 DEF Typed, TypeOK
      <3>2. /\ disk' \in [User -> SUBSET Cred] /\ file' \in {"whole", "torn"}
            /\ crashes' \in Nat /\ faults' \in Nat
        BY <2>4, <3>1, PersistTyping DEF Typed
      <3>3. Answer(r, "act") /\ done' \subseteq Outcome
        BY <2>1, <2>4, SucceedTyping DEF Refuse, Typed, TypeOK
      <3>4. QED
        BY <1>9, <3>1, <3>2, <3>3, AnswerTyping DEF AddKey, Typed, TypeOK, Stage, ceremony
    <2>5. QED
      BY <1>9, <2>3, <2>4 DEF AddKey
  <1>10. QED
    BY <1>1, <1>2, <1>3, <1>4, <1>5, <1>6, <1>7, <1>8, <1>9 DEF Handle

\* The types after a step of anyone else.
LEMMA OtherTyping ==
    ASSUME Typed,
           \/ \E u \in User, d \in Deed : ActionStart(u, d)
           \/ \E c \in Challenge, k \in Cred : Sign(c, k)
           \/ \E p \in pending : Expire(p)
           \/ Crash \/ Restart \/ UNCHANGED vars
    PROVE  Typed'
  <1>1. ASSUME NEW u \in User, NEW d \in Deed, ActionStart(u, d) PROVE Typed'
    BY <1>1, MintTyping
       DEF ActionStart, Typed, TypeOK, HasRequest, UnderWay, store, handlers, bounds
  <1>2. ASSUME NEW c \in Challenge, NEW k \in Cred, Sign(c, k) PROVE Typed'
    BY <1>2 DEF Sign, Typed, TypeOK, HasRequest, UnderWay, store, handlers, bounds
  <1>3. ASSUME NEW p \in pending, Expire(p) PROVE Typed'
    <2>1. [p EXCEPT !.age = "expired"] \in Pending
      BY DEF Typed, TypeOK, Pending
    <2>2. pending' \subseteq Pending
      BY <1>3, <2>1 DEF Expire, Typed, TypeOK
    <2>3. QED
      BY <1>3, <2>2 DEF Expire, Typed, TypeOK, HasRequest, UnderWay, store, handlers, bounds
  <1>4. CASE Crash
    <2>1. /\ pc' \in [Request -> {"idle", "over"}] /\ req' \in [Request -> Ask \cup {None}]
          /\ how' \in [Request -> Factor]
      BY <1>4 DEF Crash, Factor
    <2>2. HasRequest'
      BY <2>1 DEF HasRequest, UnderWay
    <2>3. file' \in {"whole", "torn"}
      BY <1>4 DEF Crash, Typed, TypeOK
    <2>4. QED
      BY <1>4, <2>1, <2>2, <2>3 DEF Crash, Typed, TypeOK
  <1>5. CASE Restart
    <2>1. /\ keys' \in [User -> SUBSET Cred] /\ process' \in {"up", "refusing", "down"}
          /\ UNCHANGED <<disk, file, dropped, ceremony, handlers, bounds>>
      BY <1>5 DEF Restart, Typed, TypeOK
    <2>2. QED
      BY <2>1 DEF Typed, TypeOK, HasRequest, UnderWay, ceremony, handlers, bounds
  <1>6. CASE UNCHANGED vars
    BY <1>6 DEF vars, Typed, TypeOK, HasRequest, UnderWay, store, ceremony, handlers, bounds
  <1>7. QED
    BY <1>1, <1>2, <1>3, <1>4, <1>5, <1>6

(***************************************************************************)
(* The life of a challenge.  A challenge is in the table, or in the hands   *)
(* of one handler, or spent on one success.                                 *)
(***************************************************************************)
Holding(r) == pc[r] \in {"verify", "count"} \/ (pc[r] = "act" /\ how[r] = "assertion")
For(c, u, d) == minted[c] = [user |-> u, deed |-> d]

PendingMinted == \A p \in pending : For(p.ch, p.user, p.deed)
PendingOnce   == \A p \in pending : \A q \in pending : p.ch = q.ch => p = q
Held == \A r \in Request : Holding(r) =>
            /\ req[r].ch \in Challenge /\ For(req[r].ch, req[r].user, req[r].deed)
            /\ \A p \in pending : p.ch # req[r].ch
            /\ \A x \in done : x.ch # req[r].ch
HeldApart == \A r \in Request : \A q \in Request :
                 Holding(r) /\ Holding(q) /\ req[r].ch = req[q].ch => r = q
Spent == \A x \in done : x.ch # None => \A p \in pending : p.ch # x.ch

\* What a handler carries.
Proven == \A r \in Request : UnderWay(r) /\ req[r].ch # None => <<req[r].ch, req[r].cred>> \in signed
Carries == \A r \in Request :
             /\ pc[r] = "take" => req[r].ch # None
             /\ pc[r] = "act" /\ req[r].deed.what = "register" => how[r] = "assertion"

Life == /\ PendingMinted /\ PendingOnce /\ Held /\ HeldApart /\ Spent
        /\ OneShot /\ BoundToWhatWasConfirmed
GateInv == Typed /\ Proven /\ Carries /\ Life

\* A step that mints nothing and answers nothing with success, and gives no
\* handler a challenge, keeps the life of every challenge.
LEMMA QuietStep ==
    ASSUME Life, pending' \subseteq pending, minted' = minted, signed \subseteq signed', done' = done,
           \A r \in Request : Holding(r)' => Holding(r) /\ req'[r] = req[r]
    PROVE  Life'
  <1>1. PendingMinted' /\ PendingOnce' /\ Spent' /\ OneShot'
    BY DEF Life, PendingMinted, PendingOnce, Spent, OneShot, For
  <1>2. Held'
    BY DEF Life, Held, For
  <1>3. HeldApart'
    BY DEF Life, HeldApart
  <1>4. BoundToWhatWasConfirmed'
    BY DEF Life, BoundToWhatWasConfirmed
  <1>5. QED
    BY <1>1, <1>2, <1>3, <1>4 DEF Life

\* Minting uses a challenge that nobody has: those in use are minted.
LEMMA MintTable ==
    ASSUME GateInv, NEW u \in User, NEW d \in Deed, Mint(u, d)
    PROVE  /\ PendingMinted' /\ PendingOnce'
           /\ \A p \in pending' : (\E q \in pending : q.ch = p.ch) \/ minted[p.ch] = None
           /\ \A b \in Challenge : minted[b] # None => minted'[b] = minted[b]
  <1>1. PICK c \in Challenge :
           /\ minted[c] = None
           /\ minted' = [minted EXCEPT ![c] = [user |-> u, deed |-> d]]
           /\ pending' = {p \in pending : p.age = "fresh"}
                         \cup {[ch |-> c, user |-> u, deed |-> d, age |-> "fresh"]}
    BY DEF Mint
  <1> DEFINE n == [ch |-> c, user |-> u, deed |-> d, age |-> "fresh"]
  <1>2. minted \in [Challenge -> Minted \cup {None}]
    BY DEF GateInv, Typed, TypeOK
  <1>3. /\ minted'[c] = [user |-> u, deed |-> d]
        /\ \A b \in Challenge : b # c => minted'[b] = minted[b]
    BY <1>1, <1>2
  <1>4. \A v \in User : \A e \in Deed : ~ For(c, v, e)
    BY <1>1, ConstantsAssumption DEF For, Minted
  <1>5. \A p \in pending : p.ch \in Challenge /\ p.user \in User /\ p.deed \in Deed
    BY DEF GateInv, Typed, TypeOK, Pending
  <1>6. \A p \in pending : p.ch # c
    BY <1>4, <1>5 DEF GateInv, Life, PendingMinted
  <1>7. \A p \in pending' : p = n \/ p \in pending
    BY <1>1
  <1>8. PendingMinted'
    <2> SUFFICES ASSUME NEW p \in pending' PROVE minted'[p.ch] = [user |-> p.user, deed |-> p.deed]
      BY DEF PendingMinted, For
    <2>1. CASE p = n
      BY <1>3, <2>1
    <2>2. CASE p \in pending
      BY <1>3, <1>5, <1>6, <2>2 DEF GateInv, Life, PendingMinted, For
    <2>3. QED
      BY <1>7, <2>1, <2>2
  <1>9. PendingOnce'
    BY <1>6, <1>7 DEF GateInv, Life, PendingOnce
  <1>10. \A p \in pending' : (\E q \in pending : q.ch = p.ch) \/ minted[p.ch] = None
    BY <1>1, <1>7
  <1>11. QED
    BY <1>1, <1>3, <1>8, <1>9, <1>10

\* A step that may mint and may answer one request with success, by its own
\* factor or by the challenge its handler held and now lets go.
LEMMA SettleStep ==
    ASSUME GateInv, PendingMinted', PendingOnce', NEW x,
           \A p \in pending' : (\E q \in pending : q.ch = p.ch) \/ minted[p.ch] = None,
           \A b \in Challenge : minted[b] # None => minted'[b] = minted[b],
           signed' = signed, done' \subseteq done \cup {x},
           \A r \in Request : Holding(r)' => Holding(r) /\ req'[r] = req[r],
           x.ch # None => \E r \in Request :
               /\ Holding(r) /\ ~ Holding(r)'
               /\ x.ch = req[r].ch /\ x.user = req[r].user /\ x.deed = req[r].deed
               /\ <<x.ch, x.cred>> \in signed
    PROVE  Life'
  <1>1. ASSUME NEW c, NEW u \in User, NEW d \in Deed, For(c, u, d)
        PROVE  minted[c] # None
    BY <1>1, ConstantsAssumption DEF For, Minted
  <1>2. ASSUME NEW r \in Request, Holding(r)
        PROVE  /\ req[r].ch \in Challenge /\ minted[req[r].ch] # None
               /\ minted[req[r].ch] = [user |-> req[r].user, deed |-> req[r].deed]
               /\ minted'[req[r].ch] = minted[req[r].ch]
               /\ \A p \in pending' : p.ch # req[r].ch
               /\ \A y \in done : y.ch # req[r].ch
    <2>1. req[r] \in Ask
      BY <1>2 DEF GateInv, Typed, HasRequest, UnderWay, Holding
    <2>2. /\ req[r].ch \in Challenge /\ For(req[r].ch, req[r].user, req[r].deed)
          /\ \A p \in pending : p.ch # req[r].ch
          /\ \A y \in done : y.ch # req[r].ch
      BY <1>2 DEF GateInv, Life, Held
    <2>3. minted[req[r].ch] # None
      BY <1>1, <2>1, <2>2, AskFields
    <2>4. \A p \in pending' : p.ch # req[r].ch
      BY <2>2, <2>3
    <2>5. QED
      BY <2>2, <2>3, <2>4 DEF For
  <1>3. ASSUME NEW y \in done, y.ch # None
        PROVE  /\ minted'[y.ch] = [user |-> y.user, deed |-> y.deed]
               /\ \A p \in pending' : p.ch # y.ch
               /\ <<y.ch, y.cred>> \in signed
    <2>1. y.ch \in Challenge /\ y.user \in User /\ y.deed \in Deed
      BY <1>3 DEF GateInv, Typed, TypeOK, Outcome
    <2>2. For(y.ch, y.user, y.deed) /\ <<y.ch, y.cred>> \in signed
      BY <1>3 DEF GateInv, Life, BoundToWhatWasConfirmed, For
    <2>3. minted[y.ch] # None
      BY <1>1, <2>1, <2>2
    <2>4. \A p \in pending : p.ch # y.ch
      BY <1>3 DEF GateInv, Life, Spent
    <2>5. \A p \in pending' : p.ch # y.ch
      BY <2>3, <2>4
    <2>6. QED
      BY <2>1, <2>2, <2>3, <2>5 DEF For
  <1>4. CASE x.ch # None
    <2>1. PICK r \in Request :
               /\ Holding(r) /\ ~ Holding(r)'
               /\ x.ch = req[r].ch /\ x.user = req[r].user /\ x.deed = req[r].deed
               /\ <<x.ch, x.cred>> \in signed
      BY <1>4
    <2>2. \A s \in Request : Holding(s)' => req'[s].ch # x.ch
      BY <2>1 DEF GateInv, Life, HeldApart
    <2>3. Held'
      <3> SUFFICES ASSUME NEW s \in Request, Holding(s)'
                   PROVE  /\ req'[s].ch \in Challenge
                          /\ minted'[req'[s].ch] = [user |-> req'[s].user, deed |-> req'[s].deed]
                          /\ \A p \in pending' : p.ch # req'[s].ch
                          /\ \A y \in done' : y.ch # req'[s].ch
        BY DEF Held, For
      <3>1. Holding(s) /\ req'[s] = req[s]
        OBVIOUS
      <3>2. QED
        BY <1>2, <2>2, <3>1
    <2>4. HeldApart'
      BY DEF GateInv, Life, HeldApart
    <2>5. /\ minted'[x.ch] = [user |-> x.user, deed |-> x.deed]
          /\ \A p \in pending' : p.ch # x.ch
          /\ \A y \in done : y.ch # x.ch
      BY <1>2, <2>1
    <2>6. Spent'
      BY <1>3, <2>5 DEF Spent
    <2>7. OneShot'
      BY <2>5 DEF GateInv, Life, OneShot
    <2>8. BoundToWhatWasConfirmed'
      BY <1>3, <2>1, <2>5 DEF BoundToWhatWasConfirmed
    <2>9. QED
      BY <2>3, <2>4, <2>6, <2>7, <2>8 DEF Life
  <1>5. CASE x.ch = None
    <2>1. \A y \in done' : y.ch # None => y \in done
      BY <1>5
    <2>2. Held'
      <3> SUFFICES ASSUME NEW s \in Request, Holding(s)'
                   PROVE  /\ req'[s].ch \in Challenge
                          /\ minted'[req'[s].ch] = [user |-> req'[s].user, deed |-> req'[s].deed]
                          /\ \A p \in pending' : p.ch # req'[s].ch
                          /\ \A y \in done' : y.ch # req'[s].ch
        BY DEF Held, For
      <3>1. Holding(s) /\ req'[s] = req[s]
        OBVIOUS
      <3>2. req[s].ch # None
        BY <1>2, <3>1, ConstantsAssumption
      <3>3. QED
        BY <1>2, <2>1, <3>1, <3>2
    <2>3. HeldApart' /\ OneShot'
      BY <2>1 DEF GateInv, Life, HeldApart, OneShot
    <2>4. Spent' /\ BoundToWhatWasConfirmed'
      BY <1>3, <2>1 DEF Spent, BoundToWhatWasConfirmed
    <2>5. QED
      BY <2>2, <2>3, <2>4 DEF Life
  <1>6. QED
    BY <1>4, <1>5

\* Taking a challenge moves it from the table into the hands of one handler.
LEMMA TakeStep ==
    ASSUME GateInv, NEW r \in Request, NEW p \in pending,
           pc[r] = "take", p.ch = req[r].ch, p.user = req[r].user, p.deed = req[r].deed,
           pending' = pending \ {p}, Goto(r, "take", "verify"),
           UNCHANGED <<req, how, minted, signed, done>>
    PROVE  Life'
  <1>1. /\ pc'[r] = "verify" /\ ~ Holding(r)
        /\ \A s \in Request : s # r => pc'[s] = pc[s]
    BY DEF Goto, GateInv, Typed, TypeOK, Holding
  <1>2. \A s \in Request : s # r /\ Holding(s)' => Holding(s) /\ req[s].ch # p.ch
    BY <1>1 DEF GateInv, Life, Held, Holding
  <1>3. p.ch \in Challenge /\ For(p.ch, p.user, p.deed) /\ p.ch # None
    BY ConstantsAssumption DEF GateInv, Typed, TypeOK, Pending, Life, PendingMinted
  <1>4. \A q \in pending' : q \in pending /\ q.ch # p.ch
    BY DEF GateInv, Life, PendingOnce
  <1>5. \A x \in done : x.ch # p.ch
    BY <1>3 DEF GateInv, Life, Spent
  <1>6. PendingMinted' /\ PendingOnce' /\ Spent' /\ OneShot' /\ BoundToWhatWasConfirmed'
    BY <1>4 DEF GateInv, Life, PendingMinted, PendingOnce, Spent, OneShot,
                BoundToWhatWasConfirmed, For
  <1>7. Held'
    <2> SUFFICES ASSUME NEW s \in Request, Holding(s)'
                 PROVE  /\ req[s].ch \in Challenge /\ For(req[s].ch, req[s].user, req[s].deed)'
                        /\ \A q \in pending' : q.ch # req[s].ch
                        /\ \A x \in done : x.ch # req[s].ch
      BY DEF Held
    <2>1. CASE s = r
      BY <1>3, <1>4, <1>5, <2>1 DEF For
    <2>2. CASE s # r
      BY <1>2, <1>4, <2>2 DEF GateInv, Life, Held, For
    <2>3. QED
      BY <2>1, <2>2
  <1>8. HeldApart'
    BY <1>2 DEF GateInv, Life, HeldApart
  <1>9. QED
    BY <1>6, <1>7, <1>8 DEF Life

\* What every handler carries, when one of them moves on or answers.
LEMMA CarryStep ==
    ASSUME GateInv, NEW r \in Request, signed' = signed,
           UnderWay(r)' => UnderWay(r) /\ req'[r] = req[r],
           pc'[r] = "take" => req[r].ch # None,
           pc'[r] = "act" /\ req[r].deed.what = "register" => how'[r] = "assertion",
           \A s \in Request : s # r => pc'[s] = pc[s] /\ req'[s] = req[s] /\ how'[s] = how[s]
    PROVE  Proven' /\ Carries'
  <1>1. Proven'
    <2> SUFFICES ASSUME NEW s \in Request, UnderWay(s)', req'[s].ch # None
                 PROVE  <<req'[s].ch, req'[s].cred>> \in signed
      BY DEF Proven
    <2>1. UnderWay(s) /\ req'[s] = req[s]
      BY DEF UnderWay
    <2>2. QED
      BY <2>1 DEF GateInv, Proven
  <1>2. Carries'
    <2> SUFFICES ASSUME NEW s \in Request
                 PROVE  /\ pc'[s] = "take" => req'[s].ch # None
                        /\ pc'[s] = "act" /\ req'[s].deed.what = "register"
                             => how'[s] = "assertion"
      BY DEF Carries
    <2>1. CASE s = r
      BY <2>1 DEF UnderWay
    <2>2. CASE s # r
      BY <2>2 DEF GateInv, Carries
    <2>3. QED
      BY <2>1, <2>2
  <1>3. QED
    BY <1>1, <1>2

\* A refusal lets go of what its handler held.
LEMMA RefuseStep ==
    ASSUME GateInv, NEW r \in Request, NEW from, Answer(r, from),
           pending' \subseteq pending, UNCHANGED <<minted, signed, done>>
    PROVE  Proven' /\ Carries' /\ Life'
  <1>1. /\ pc'[r] = "over"
        /\ \A s \in Request : s # r => pc'[s] = pc[s] /\ req'[s] = req[s] /\ how'[s] = how[s]
    BY AnswerTyping DEF GateInv
  <1>2. Proven' /\ Carries'
    BY <1>1, CarryStep DEF UnderWay
  <1>3. Life'
    BY <1>1, QuietStep DEF GateInv, Holding
  <1>4. QED
    BY <1>2, <1>3

\* A success spends what its handler held.
LEMMA SucceedStep ==
    ASSUME GateInv, NEW r \in Request, pc[r] = "act", Succeed(r), signed' = signed,
           PendingMinted', PendingOnce',
           \A p \in pending' : (\E q \in pending : q.ch = p.ch) \/ minted[p.ch] = None,
           \A b \in Challenge : minted[b] # None => minted'[b] = minted[b]
    PROVE  Proven' /\ Carries' /\ Life'
  <1> DEFINE x == [req |-> r, user |-> req[r].user, deed |-> req[r].deed,
                   ch |-> IF how[r] = "assertion" THEN req[r].ch ELSE None,
                   cred |-> req[r].cred, how |-> how[r]]
  <1>0. UnderWay(r)
    BY DEF UnderWay
  <1>1. Answer(r, "act") /\ done' \subseteq done \cup {x}
    BY <1>0, SucceedTyping DEF GateInv
  <1>2. /\ pc'[r] = "over"
        /\ \A s \in Request : s # r => pc'[s] = pc[s] /\ req'[s] = req[s] /\ how'[s] = how[s]
    BY <1>1, AnswerTyping DEF GateInv
  <1>3. Proven' /\ Carries'
    BY <1>2, CarryStep DEF UnderWay
  <1>4. \A s \in Request : Holding(s)' => Holding(s) /\ req'[s] = req[s]
    BY <1>2 DEF Holding
  <1>5. x.ch # None => \E s \in Request :
               /\ Holding(s) /\ ~ Holding(s)'
               /\ x.ch = req[s].ch /\ x.user = req[s].user /\ x.deed = req[s].deed
               /\ <<x.ch, x.cred>> \in signed
    <2> SUFFICES ASSUME x.ch # None
                 PROVE  /\ Holding(r) /\ ~ Holding(r)' /\ x.ch = req[r].ch
                        /\ <<x.ch, x.cred>> \in signed
      OBVIOUS
    <2>1. how[r] = "assertion" /\ x.ch = req[r].ch
      OBVIOUS
    <2>2. Holding(r) /\ ~ Holding(r)'
      BY <1>2, <2>1 DEF Holding
    <2>3. <<req[r].ch, req[r].cred>> \in signed
      BY <1>0, <2>1 DEF GateInv, Proven
    <2>4. QED
      BY <2>1, <2>2, <2>3
  <1>6. Life'
    <2> HIDE DEF x
    <2> QED
      BY <1>1, <1>4, <1>5, SettleStep
  <1>7. QED
    BY <1>3, <1>6

LEMMA HandleStep ==
    ASSUME GateInv, NEW r \in Request, Handle(r)
    PROVE  GateInv'
  <1>1. Typed'
    <2>1. pc[r] = "act" /\ req[r].deed.what = "register" => req[r].cred \in Cred
      <3> SUFFICES ASSUME pc[r] = "act", req[r].deed.what = "register"
                   PROVE  req[r].cred \in Cred
        OBVIOUS
      <3>1. Holding(r)
        BY DEF GateInv, Carries, Holding
      <3>2. req[r].ch \in Challenge
        BY <3>1 DEF GateInv, Life, Held
      <3>3. <<req[r].ch, req[r].cred>> \in signed
        BY <3>2, ConstantsAssumption DEF GateInv, Proven, UnderWay
      <3>4. QED
        BY <3>3 DEF GateInv, Typed, TypeOK
    <2>2. QED
      BY <2>1, HandleTyping DEF GateInv
  <1>2. ASSUME NEW ask \in Ask, Arrive(r, ask) PROVE Proven' /\ Carries' /\ Life'
    <2>1. /\ pc'[r] = "gate" /\ req'[r] = ask
          /\ \A s \in Request : s # r => pc'[s] = pc[s] /\ req'[s] = req[s]
          /\ UNCHANGED <<how, done, pending, minted, signed>>
      BY <1>2 DEF Arrive, Goto, GateInv, Typed, TypeOK, ceremony
    <2>2. ask.ch # None => <<ask.ch, ask.cred>> \in signed
      BY <1>2 DEF Arrive
    <2>3. Proven' /\ Carries'
      BY <2>1, <2>2 DEF GateInv, Proven, Carries, UnderWay
    <2>4. Life'
      BY <2>1, QuietStep DEF GateInv, Holding
    <2>5. QED
      BY <2>3, <2>4
  <1>3. ASSUME Gate(r) PROVE Proven' /\ Carries' /\ Life'
    <2>1. /\ pc[r] = "gate" /\ pc'[r] \in {"act", "take", "over"}
          /\ pc'[r] = "take" => req'[r] = req[r] /\ req[r].ch # None
          /\ pc'[r] = "act" => /\ req'[r] = req[r] /\ how'[r] \in {"software", "password"}
                               /\ req[r].deed.what # "register"
          /\ \A s \in Request : s # r => pc'[s] = pc[s] /\ req'[s] = req[s] /\ how'[s] = how[s]
          /\ UNCHANGED <<done, pending, minted, signed>>
      BY <1>3, GateTyping DEF GateInv, ceremony
    <2>2. Proven' /\ Carries'
      BY <2>1, CarryStep DEF UnderWay
    <2>3. Life'
      BY <2>1, QuietStep DEF GateInv, Holding
    <2>4. QED
      BY <2>2, <2>3
  <1>4. ASSUME Take(r) PROVE Proven' /\ Carries' /\ Life'
    <2>1. /\ pc[r] = "take" /\ UNCHANGED <<minted, signed, done>> /\ pending' \subseteq pending
      BY <1>4, TakeShape DEF GateInv
    <2>2. CASE Answer(r, "take")
      BY <2>1, <2>2, RefuseStep
    <2>3. ASSUME NEW p \in pending,
                 p.ch = req[r].ch, p.user = req[r].user, p.deed = req[r].deed,
                 pending' = pending \ {p}, Goto(r, "take", "verify"), UNCHANGED <<req, how>>
          PROVE  Proven' /\ Carries' /\ Life'
      <3>1. pc'[r] = "verify" /\ \A s \in Request : s # r => pc'[s] = pc[s]
        BY <2>3 DEF Goto, GateInv, Typed, TypeOK
      <3>2. Proven' /\ Carries'
        BY <2>1, <2>3, <3>1, CarryStep DEF UnderWay
      <3>3. Life'
        BY <2>1, <2>3, TakeStep
      <3>4. QED
        BY <3>2, <3>3
    <2>4. QED
      BY <1>4, <2>2, <2>3, TakeShape DEF GateInv
  <1>5. ASSUME Verify(r) \/ CountUp(r) PROVE Proven' /\ Carries' /\ Life'
    <2>1. /\ pc[r] \in {"verify", "count"} /\ UNCHANGED <<pending, minted, signed, done>>
          /\ \/ Goto(r, pc[r], "act") /\ Establish(r, "assertion") /\ UNCHANGED req
             \/ Goto(r, pc[r], "count") /\ UNCHANGED <<req, how>>
             \/ Answer(r, pc[r])
      BY <1>5, VerifyShape DEF CountUp, Goto, ceremony
    <2>2. CASE Answer(r, pc[r])
      BY <2>1, <2>2, RefuseStep
    <2>3. ASSUME NEW to \in {"act", "count"}, Goto(r, pc[r], to), UNCHANGED req,
                 to = "act" => Establish(r, "assertion"), to = "count" => how' = how
          PROVE  Proven' /\ Carries' /\ Life'
      <3>1. /\ pc'[r] = to /\ (to = "act" => how'[r] = "assertion")
            /\ \A s \in Request : s # r => pc'[s] = pc[s] /\ how'[s] = how[s]
        BY <2>3 DEF Goto, Establish, GateInv, Typed, TypeOK
      <3>2. Proven' /\ Carries'
        BY <2>1, <2>3, <3>1, CarryStep DEF UnderWay
      <3>3. \A s \in Request : Holding(s)' => Holding(s) /\ req'[s] = req[s]
        BY <2>1, <2>3, <3>1 DEF Holding
      <3>4. Life'
        BY <2>1, <3>3, QuietStep DEF GateInv
      <3>5. QED
        BY <3>2, <3>4
    <2>4. QED
      BY <2>1, <2>2, <2>3
  <1>6. ASSUME pc[r] = "act", Dispatch(r) \/ RemoveKey(r) \/ AddKey(r)
        PROVE  Proven' /\ Carries' /\ Life'
    <2>1. /\ UNCHANGED <<pending, minted, signed>>
          /\ Succeed(r) \/ Refuse(r, "act")
      BY <1>6 DEF Dispatch, RemoveKey, AddKey, ceremony
    <2>2. CASE Refuse(r, "act")
      BY <2>1, <2>2, RefuseStep DEF Refuse
    <2>3. CASE Succeed(r)
      <3>1. PendingMinted' /\ PendingOnce'
        BY <2>1 DEF GateInv, Life, PendingMinted, PendingOnce, For
      <3>2. QED
        BY <1>6, <2>1, <2>3, <3>1, SucceedStep
    <2>4. QED
      BY <2>1, <2>2, <2>3
  <1>7. ASSUME pc[r] = "act", BeginEnrolment(r) PROVE Proven' /\ Carries' /\ Life'
    <2>1. req[r].user \in User /\ [what |-> "register", on |-> None] \in Deed
      BY <1>7, AskFields DEF Deed, GateInv, Typed, HasRequest, UnderWay
    <2>2. /\ Mint(req[r].user, [what |-> "register", on |-> None])
          /\ Succeed(r) /\ signed' = signed
      BY <1>7 DEF BeginEnrolment
    <2>3. /\ PendingMinted' /\ PendingOnce'
          /\ \A p \in pending' : (\E q \in pending : q.ch = p.ch) \/ minted[p.ch] = None
          /\ \A b \in Challenge : minted[b] # None => minted'[b] = minted[b]
      BY <2>1, <2>2, MintTable
    <2>4. QED
      BY <1>7, <2>2, <2>3, SucceedStep
  <1>8. Proven' /\ Carries' /\ Life'
    BY <1>2, <1>3, <1>4, <1>5, <1>6, <1>7 DEF Handle
  <1>9. QED
    BY <1>1, <1>8 DEF GateInv

LEMMA OtherStep ==
    ASSUME GateInv,
           \/ \E u \in User, d \in Deed : ActionStart(u, d)
           \/ \E c \in Challenge, k \in Cred : Sign(c, k)
           \/ \E p \in pending : Expire(p)
           \/ Crash \/ Restart \/ UNCHANGED vars
    PROVE  GateInv'
  <1>1. Typed'
    BY OtherTyping DEF GateInv
  <1>2. ASSUME NEW u \in User, NEW d \in Deed, ActionStart(u, d)
        PROVE  Proven' /\ Carries' /\ Life'
    <2>1. Mint(u, d) /\ UNCHANGED <<signed, req, pc, how, done>>
      BY <1>2 DEF ActionStart, handlers
    <2>2. /\ PendingMinted' /\ PendingOnce'
          /\ \A p \in pending' : (\E q \in pending : q.ch = p.ch) \/ minted[p.ch] = None
          /\ \A b \in Challenge : minted[b] # None => minted'[b] = minted[b]
      BY <2>1, MintTable
    <2>3. \A r \in Request : Holding(r)' => Holding(r) /\ req'[r] = req[r]
      BY <2>1 DEF Holding
    <2> DEFINE x == [ch |-> None]
    <2>4. x.ch = None /\ done' \subseteq done \cup {x}
      BY <2>1
    <2>5. Life'
      <3> HIDE DEF x
      <3> QED
        BY <2>1, <2>2, <2>3, <2>4, SettleStep
    <2>6. QED
      BY <2>1, <2>5 DEF GateInv, Proven, Carries, UnderWay
  <1>3. ASSUME NEW c \in Challenge, NEW k \in Cred, Sign(c, k)
        PROVE  Proven' /\ Carries' /\ Life'
    <2>1. signed \subseteq signed' /\ UNCHANGED <<pending, minted, req, pc, how, done>>
      BY <1>3 DEF Sign, handlers
    <2>2. Life'
      BY <2>1, QuietStep DEF GateInv, Holding
    <2>3. QED
      BY <2>1, <2>2 DEF GateInv, Proven, Carries, UnderWay
  <1>4. ASSUME NEW p \in pending, Expire(p)
        PROVE  Proven' /\ Carries' /\ Life'
    <2> DEFINE o == [p EXCEPT !.age = "expired"]
               x == [ch |-> None]
    <2>1. /\ pending' = (pending \ {p}) \cup {o}
          /\ UNCHANGED <<minted, signed, req, pc, how, done>>
      BY <1>4 DEF Expire, handlers
    <2>2. o.ch = p.ch /\ o.user = p.user /\ o.deed = p.deed
      BY DEF GateInv, Typed, TypeOK, Pending
    <2> HIDE DEF o
    <2>3. PendingMinted'
      <3> SUFFICES ASSUME NEW q \in pending'
                   PROVE  minted[q.ch] = [user |-> q.user, deed |-> q.deed]
        BY <2>1 DEF PendingMinted, For
      <3>1. \A s \in pending : minted[s.ch] = [user |-> s.user, deed |-> s.deed]
        BY DEF GateInv, Life, PendingMinted, For
      <3>2. CASE q = o
        BY <2>2, <3>1, <3>2
      <3>3. QED
        BY <2>1, <3>1, <3>2
    <2>4. PendingOnce'
      BY <2>1, <2>2 DEF GateInv, Life, PendingOnce
    <2>5. \A q \in pending' : \E s \in pending : s.ch = q.ch
      BY <2>1, <2>2
    <2>6. \A r \in Request : Holding(r)' => Holding(r) /\ req'[r] = req[r]
      BY <2>1 DEF Holding
    <2>7. x.ch = None /\ done' \subseteq done \cup {x}
      BY <2>1
    <2>8. Life'
      <3> HIDE DEF x
      <3> QED
        BY <2>1, <2>3, <2>4, <2>5, <2>6, <2>7, SettleStep
    <2>9. QED
      BY <2>1, <2>8 DEF GateInv, Proven, Carries, UnderWay
  <1>5. ASSUME Crash PROVE Proven' /\ Carries' /\ Life'
    <2>1. /\ \A r \in Request : pc'[r] \in {"idle", "over"}
          /\ pending' \subseteq pending /\ UNCHANGED <<minted, signed, done>>
      BY <1>5 DEF Crash
    <2>2. Life'
      BY <2>1, QuietStep DEF GateInv, Holding
    <2>3. QED
      BY <2>1, <2>2 DEF Proven, Carries, UnderWay
  <1>6. ASSUME Restart \/ UNCHANGED vars PROVE Proven' /\ Carries' /\ Life'
    <2>1. UNCHANGED <<pending, minted, signed, req, pc, how, done>>
      BY <1>6 DEF Restart, vars, ceremony, handlers
    <2>2. Life'
      BY <2>1, QuietStep DEF GateInv, Holding
    <2>3. QED
      BY <2>1, <2>2 DEF GateInv, Proven, Carries, UnderWay
  <1>7. QED
    BY <1>1, <1>2, <1>3, <1>4, <1>5, <1>6 DEF GateInv

LEMMA InitGate == Init => GateInv
  <1> SUFFICES ASSUME Init PROVE GateInv
    OBVIOUS
  <1>1. TypeOK
    BY ConstantsAssumption DEF Init, TypeOK, Factor
  <1>2. HasRequest /\ Proven /\ Carries
    BY DEF Init, HasRequest, Proven, Carries, UnderWay
  <1>3. Life
    BY DEF Init, Life, PendingMinted, PendingOnce, Held, HeldApart, Spent, OneShot,
           BoundToWhatWasConfirmed, Holding
  <1>4. QED
    BY <1>1, <1>2, <1>3 DEF GateInv, Typed

LEMMA GateStep == GateInv /\ [Next]_vars => GateInv'
  <1> SUFFICES ASSUME GateInv, [Next]_vars PROVE GateInv'
    OBVIOUS
  <1>1. ASSUME NEW r \in Request, Handle(r) PROVE GateInv'
    BY <1>1, HandleStep
  <1>2. CASE \/ \E u \in User, d \in Deed : ActionStart(u, d)
             \/ \E c \in Challenge, k \in Cred : Sign(c, k)
             \/ \E p \in pending : Expire(p)
             \/ Crash \/ Restart \/ UNCHANGED vars
    BY <1>2, OtherStep
  <1>3. QED
    BY <1>1, <1>2 DEF Next

LEMMA GateAlways == Spec => []GateInv
  BY InitGate, GateStep, PTL DEF Spec

\* In every interleaving of handlers, browsers, expiry, failed writes and
\* restarts the state of the ceremony stays well formed.
THEOREM TypeCorrect == Spec => []TypeOK
  <1>1. GateInv => TypeOK
    BY DEF GateInv, Typed
  <1>2. QED
    BY <1>1, GateAlways, PTL

\* One confirmation authorises at most one answer with success: take() removes
\* the challenge under the lock, so no two handlers ever hold the same one.
THEOREM OneShotHolds == Spec => []OneShot
  <1>1. GateInv => OneShot
    BY DEF GateInv, Life
  <1>2. QED
    BY <1>1, GateAlways, PTL

\* What is done on an assertion is, for the same user, exactly what its
\* challenge was minted for, and an authenticator signed it.
THEOREM BoundHolds == Spec => []BoundToWhatWasConfirmed
  <1>1. GateInv => BoundToWhatWasConfirmed
    BY DEF GateInv, Life
  <1>2. QED
    BY <1>1, GateAlways, PTL

\* A step that empties the set of keys of a user of a running console.
Emptied(u) == process # "down" /\ keys[u] # {} /\ keys'[u] = {}
ByPassword(u) == \E r \in Request : /\ pc[r] = "act" /\ pc'[r] # "act"
                                    /\ req[r].user = u /\ how[r] = "password"

LEMMA EmptiedByPassword ==
    ASSUME Typed, [Next]_vars, NEW u \in User, Emptied(u)
    PROVE  ByPassword(u)
  <1>1. keys' # keys /\ process # "down"
    BY DEF Emptied
  <1>2. ASSUME NEW r \in Request, pc[r] = "act", RemoveKey(r) PROVE ByPassword(u)
    <2>1. req[r] \in Ask
      BY <1>2 DEF Typed, HasRequest, UnderWay
    <2>2. req[r].user \in User
      BY <2>1, AskFields
    <2>3. /\ req[r].deed.on \in keys[req[r].user]
          /\ keys[req[r].user] = {req[r].deed.on} => how[r] = "password"
          /\ keys' = [keys EXCEPT ![req[r].user] = @ \ {req[r].deed.on}]
          /\ Answer(r, "act")
      BY <1>1, <1>2 DEF RemoveKey, Refuse, Succeed, store
    <2>4. u = req[r].user
      BY <2>2, <2>3 DEF Emptied, Typed, TypeOK
    <2>5. keys[u] = {req[r].deed.on}
      BY <2>2, <2>3, <2>4 DEF Emptied, Typed, TypeOK
    <2>6. pc'[r] = "over"
      BY <2>3, AnswerTyping
    <2>7. QED
      BY <1>2, <2>3, <2>4, <2>5, <2>6 DEF ByPassword
  <1>3. ASSUME NEW r \in Request, pc[r] = "act", AddKey(r) PROVE FALSE
    <2>1. keys' = [keys EXCEPT ![req[r].user] = @ \cup {req[r].cred}]
      BY <1>1, <1>3 DEF AddKey
    <2>2. keys[u] \subseteq keys'[u]
      BY <2>1 DEF Typed, TypeOK
    <2>3. QED
      BY <2>2 DEF Emptied
  <1>4. ASSUME NEW r \in Request, Handle(r) PROVE ByPassword(u)
    <2>1. pc[r] = "act" /\ (RemoveKey(r) \/ AddKey(r))
      BY <1>1, <1>4 DEF Handle, Arrive, Gate, Take, Verify, CountUp, Dispatch, BeginEnrolment, store
    <2>2. QED
      BY <1>2, <1>3, <2>1
  <1>5. \E r \in Request : Handle(r)
    BY <1>1 DEF Next, ActionStart, Sign, Expire, Crash, Restart, vars, store
  <1>6. QED
    BY <1>4, <1>5

\* Whatever requests interleave, the step that takes the last passkey of a user
\* is the step of a handler that was given the operator password.
THEOREM LastKeyHolds == Spec => LastKeyNeedsPassword
  <1>1. GateInv /\ [Next]_vars =>
           [\A u \in User :
              process # "down" /\ keys[u] # {} /\ keys'[u] = {} =>
                 \E r \in Request : /\ pc[r] = "act" /\ pc'[r] # "act"
                                    /\ req[r].user = u /\ how[r] = "password"]_vars
    BY EmptiedByPassword DEF GateInv, Emptied, ByPassword
  <1>2. QED
    BY <1>1, GateAlways, PTL DEF Spec, LastKeyNeedsPassword

(***************************************************************************)
(* What the file keeps.  A credential that was ever enrolled comes from the *)
(* file or from a registration whose challenge is gone, and an              *)
(* authenticator makes a new credential for every registration: so what was *)
(* removed is never enrolled again.                                         *)
(***************************************************************************)
Registers(c) == minted[c] # None /\ minted[c].deed.what = "register"
Gone(c) == /\ \A p \in pending : p.ch # c
           /\ \A r \in Request : Holding(r) => req[r].ch # c
Origin(k) == \/ \E u \in User : k \in InitialKeys[u]
             \/ \E c \in Challenge : Registers(c) /\ <<c, k>> \in signed /\ Gone(c)

\* A process that is not up serves nobody beyond the gate.
Quiet == process # "up" => \A r \in Request : pc[r] \in {"idle", "gate", "over"}
SignedMinted == \A c \in Challenge, k \in Cred : <<c, k>> \in signed => minted[c] # None
FreshKeys == \A c \in Challenge, k \in Cred :
    <<c, k>> \in signed /\ Registers(c) =>
        /\ \A u \in User : k \notin InitialKeys[u]
        /\ \A b \in Challenge : <<b, k>> \in signed /\ Registers(b) => b = c
Traced == /\ \A u \in User : \A k \in keys[u] \cup disk[u] : Origin(k)
          /\ \A k \in dropped : Origin(k)
Removed == \A x \in done : x.deed.what = "remove" =>
    x.deed.on \in dropped /\ x.deed.on \notin keys[x.user] \cup disk[x.user]
Enrolled == \A x \in done : x.deed.what = "register" =>
    /\ x.cred \in disk[x.user] \cup dropped
    /\ process = "up" => x.cred \in keys[x.user] \cup dropped

Kept == SignedMinted /\ FreshKeys /\ Traced /\ Removed /\ Enrolled
KeptInv == GateInv /\ Quiet /\ Kept

\* A step that gives no handler a challenge that was neither in the table nor
\* its own, and puts none into the table that was minted before.
Onward ==
    /\ \A p \in pending' : (\E q \in pending : q.ch = p.ch) \/ minted[p.ch] = None
    /\ \A r \in Request : Holding(r)' =>
          \/ Holding(r) /\ req'[r] = req[r]
          \/ \E p \in pending : p.ch = req'[r].ch
    /\ \A b \in Challenge : minted[b] # None => minted'[b] = minted[b]

\* Every step is such a step.
LEMMA OnwardStep ==
    ASSUME GateInv, [Next]_vars
    PROVE  Onward
  <1>1. ASSUME NEW r \in Request, pc[r] # "take", Handle(r), ~ BeginEnrolment(r) PROVE Onward
    <2>1. UNCHANGED <<pending, minted>>
      BY <1>1 DEF Handle, Arrive, Gate, Take, Verify, CountUp, Dispatch, RemoveKey, AddKey, ceremony
    <2>2. \A s \in Request : Holding(s)' => Holding(s) /\ req'[s] = req[s]
      <3>1. ASSUME NEW ask \in Ask, Arrive(r, ask) PROVE <2>2!:
        BY <3>1 DEF Arrive, Goto, Holding, GateInv, Typed, TypeOK
      <3>2. CASE Gate(r)
        BY <3>2, GateTyping DEF GateInv, Holding
      <3>3. ASSUME NEW from, Answer(r, from) PROVE <2>2!:
        BY <3>3, AnswerTyping DEF GateInv, Holding
      <3>4. CASE Verify(r) \/ CountUp(r)
        <4>1. /\ pc[r] \in {"verify", "count"}
              /\ \/ Goto(r, pc[r], "act") /\ Establish(r, "assertion") /\ UNCHANGED req
                 \/ Goto(r, pc[r], "count") /\ UNCHANGED <<req, how>>
                 \/ Answer(r, pc[r])
          BY <3>4, VerifyShape DEF CountUp, Goto
        <4>2. CASE Answer(r, pc[r])
          BY <3>3, <4>2
        <4>3. CASE Goto(r, pc[r], "act") /\ Establish(r, "assertion") /\ UNCHANGED req
          BY <4>1, <4>3 DEF Goto, Establish, Holding, GateInv, Typed, TypeOK
        <4>4. CASE Goto(r, pc[r], "count") /\ UNCHANGED <<req, how>>
          BY <4>1, <4>4 DEF Goto, Holding, GateInv, Typed, TypeOK
        <4>5. QED
          BY <4>1, <4>2, <4>3, <4>4
      <3>5. CASE pc[r] = "act" /\ (Dispatch(r) \/ RemoveKey(r) \/ AddKey(r))
        BY <3>3, <3>5 DEF Dispatch, RemoveKey, AddKey, Succeed, Refuse
      <3>6. QED
        BY <1>1, <3>1, <3>2, <3>4, <3>5 DEF Handle, Take
    <2>3. QED
      BY <2>1, <2>2 DEF Onward
  <1>2. ASSUME NEW r \in Request, Take(r) PROVE Onward
    <2>1. UNCHANGED minted /\ pending' \subseteq pending
      BY <1>2, TakeShape DEF GateInv
    <2>2. CASE Answer(r, "take")
      BY <2>1, <2>2, AnswerTyping DEF GateInv, Holding, Onward
    <2>3. CASE \E p \in pending : /\ p.ch = req[r].ch
                                  /\ Goto(r, "take", "verify") /\ UNCHANGED <<req, how>>
      BY <2>1, <2>3 DEF Goto, GateInv, Typed, TypeOK, Holding, Onward
    <2>4. QED
      BY <1>2, <2>2, <2>3, TakeShape DEF GateInv
  <1>3. ASSUME NEW r \in Request, pc[r] = "act", BeginEnrolment(r) PROVE Onward
    <2>1. req[r].user \in User /\ [what |-> "register", on |-> None] \in Deed
      BY <1>3, AskFields DEF Deed, GateInv, Typed, HasRequest, UnderWay
    <2>2. /\ \A p \in pending' : (\E q \in pending : q.ch = p.ch) \/ minted[p.ch] = None
          /\ \A b \in Challenge : minted[b] # None => minted'[b] = minted[b]
      BY <1>3, <2>1, MintTable DEF BeginEnrolment
    <2>3. Answer(r, "act")
      BY <1>3 DEF BeginEnrolment, Succeed
    <2>4. QED
      BY <2>2, <2>3, AnswerTyping DEF GateInv, Holding, Onward
  <1>4. ASSUME NEW u \in User, NEW d \in Deed, ActionStart(u, d) PROVE Onward
    BY <1>4, MintTable DEF ActionStart, handlers, Holding, Onward
  <1>5. ASSUME NEW c \in Challenge, NEW k \in Cred, Sign(c, k) PROVE Onward
    BY <1>5 DEF Sign, handlers, Holding, Onward
  <1>6. ASSUME NEW p \in pending, Expire(p) PROVE Onward
    <2> DEFINE o == [p EXCEPT !.age = "expired"]
    <2>1. pending' = (pending \ {p}) \cup {o} /\ UNCHANGED <<minted, req, pc, how>>
      BY <1>6 DEF Expire, handlers
    <2>2. o.ch = p.ch
      BY DEF GateInv, Typed, TypeOK, Pending
    <2> HIDE DEF o
    <2>3. QED
      BY <2>1, <2>2 DEF Holding, Onward
  <1>7. CASE Crash
    BY <1>7 DEF Crash, Holding, Onward
  <1>8. CASE Restart \/ UNCHANGED vars
    BY <1>8 DEF Restart, vars, ceremony, handlers, Holding, Onward
  <1>9. ASSUME NEW r \in Request, Handle(r) PROVE Onward
    BY <1>1, <1>2, <1>3, <1>9 DEF Handle, Arrive, Goto, Gate, Verify, CountUp, BeginEnrolment, Succeed, Answer
  <1>10. QED
    BY <1>4, <1>5, <1>6, <1>7, <1>8, <1>9 DEF Next

LEMMA SignedGrows ==
    ASSUME [Next]_vars
    PROVE  \/ signed' = signed
           \/ \E c \in Challenge, k \in Cred : Sign(c, k)
  BY DEF Next, ActionStart, Expire, Handle, Arrive, Gate, Take, Verify, CountUp, Dispatch, RemoveKey,
         BeginEnrolment, AddKey, Crash, Restart, vars, ceremony

\* Where a credential comes from stays true.
LEMMA OriginStays ==
    ASSUME GateInv, [Next]_vars, NEW k, Origin(k)
    PROVE  Origin(k)'
  <1>1. CASE \E u \in User : k \in InitialKeys[u]
    BY <1>1 DEF Origin
  <1>2. CASE \E c \in Challenge : Registers(c) /\ <<c, k>> \in signed /\ Gone(c)
    <2>1. PICK c \in Challenge : Registers(c) /\ <<c, k>> \in signed /\ Gone(c)
      BY <1>2
    <2>2. Onward /\ signed \subseteq signed'
      BY OnwardStep, SignedGrows DEF Sign
    <2>3. Registers(c)'
      BY <2>1, <2>2 DEF Registers, Onward
    <2>4. Gone(c)'
      BY <2>1, <2>2 DEF Registers, Gone, Onward
    <2>5. QED
      BY <2>1, <2>2, <2>3, <2>4 DEF Origin
  <1>3. QED
    BY <1>1, <1>2 DEF Origin

\* A registration's credential is new, and stays the only one of its kind.
LEMMA FreshStep ==
    ASSUME GateInv, SignedMinted, FreshKeys, [Next]_vars
    PROVE  SignedMinted' /\ FreshKeys'
  <1>1. Onward
    BY OnwardStep
  <1>2. SignedMinted'
    <2>1. CASE signed' = signed
      BY <1>1, <2>1 DEF SignedMinted, Onward
    <2>2. ASSUME NEW c \in Challenge, NEW k \in Cred, Sign(c, k) PROVE SignedMinted'
      BY <2>2 DEF Sign, SignedMinted
    <2>3. QED
      BY <2>1, <2>2, SignedGrows
  <1>3. FreshKeys'
    <2>1. CASE signed' = signed
      <3>1. ASSUME NEW c \in Challenge, NEW k \in Cred, <<c, k>> \in signed, Registers(c)'
            PROVE  Registers(c)
        BY <1>1, <3>1 DEF SignedMinted, Onward, Registers
      <3>2. QED
        BY <2>1, <3>1 DEF FreshKeys
    <2>2. ASSUME NEW c \in Challenge, NEW k \in Cred, Sign(c, k) PROVE FreshKeys'
      <3>1. signed' = signed \cup {<<c, k>>} /\ minted' = minted
        BY <2>2 DEF Sign
      <3>2. \A b \in Challenge : Registers(b)' <=> Registers(b)
        BY <3>1 DEF Registers
      <3>3. CASE ~ Registers(c)
        BY <3>1, <3>2, <3>3 DEF FreshKeys
      <3>4. CASE Registers(c)
        <4>1. /\ \A u \in User : k \notin InitialKeys[u]
              /\ \A b \in Challenge : <<b, k>> \notin signed
          BY <2>2, <3>4 DEF Sign, Registers
        <4>2. QED
          BY <3>1, <3>2, <4>1 DEF FreshKeys
      <3>5. QED
        BY <3>3, <3>4
    <2>3. QED
      BY <2>1, <2>2, SignedGrows
  <1>4. QED
    BY <1>2, <1>3

LEMMA QuietHolds ==
    ASSUME GateInv, Quiet, [Next]_vars
    PROVE  Quiet'
  <1>1. ASSUME NEW r \in Request, Handle(r) PROVE Quiet'
    <2>1. process' = process
      BY <1>1 DEF Handle, Arrive, Gate, Take, Verify, CountUp, Dispatch, RemoveKey, BeginEnrolment, AddKey
    <2>2. CASE process = "up"
      BY <2>1, <2>2 DEF Quiet
    <2>3. CASE process # "up"
      <3>1. pc[r] \in {"idle", "gate"}
        BY <1>1, <2>3 DEF Handle, Quiet, Arrive, Goto, Gate, Take, Verify, CountUp
      <3>2. \/ Goto(r, "idle", "gate")
            \/ Refuse(r, "gate")
        BY <1>1, <2>3, <3>1 DEF Handle, Arrive, Gate, Take, Verify, CountUp, Goto
      <3>3. QED
        BY <2>1, <2>3, <3>2 DEF Quiet, Refuse, Answer, Goto, GateInv, Typed, TypeOK
    <2>4. QED
      BY <2>2, <2>3
  <1>2. CASE Crash
    BY <1>2 DEF Crash, Quiet
  <1>3. CASE Restart
    BY <1>3 DEF Restart, Quiet, handlers
  <1>4. CASE \/ \E u \in User, d \in Deed : ActionStart(u, d)
             \/ \E c \in Challenge, k \in Cred : Sign(c, k)
             \/ \E p \in pending : Expire(p)
             \/ UNCHANGED vars
    BY <1>4 DEF ActionStart, Sign, Expire, vars, handlers, Quiet
  <1>5. QED
    BY <1>1, <1>2, <1>3, <1>4 DEF Next

\* The ways a step touches what is enrolled: not at all, by answering what is
\* no enrolment and no removal; by writing the file; by a removal; by an
\* enrolment; by a death; by a restart.
Untouched == /\ UNCHANGED <<keys, disk, dropped, process>>
             /\ \A x \in done' : x \in done \/ x.deed.what \notin {"remove", "register"}
Rewritten == /\ UNCHANGED <<keys, dropped, process, done>>
             /\ disk' \in {disk, keys}
             /\ process = "up"
Taken(u, k) == /\ process = "up" /\ process' = "up" /\ k \in keys[u]
               /\ keys' = [keys EXCEPT ![u] = @ \ {k}]
               /\ dropped' = dropped \cup {k}
               /\ \/ disk' = disk /\ done' = done
                  \/ disk' = keys' /\ \A x \in done' : x \in done \/ (x.user = u /\ x.deed.on = k
                                                                  /\ x.deed.what = "remove")
Added(u, k) == /\ process = "up" /\ process' = "up" /\ dropped' = dropped
               /\ keys' = [keys EXCEPT ![u] = @ \cup {k}]
               /\ \/ disk' = disk /\ done' = done
                  \/ disk' = keys' /\ \A x \in done' : x \in done \/ (x.user = u /\ x.cred = k
                                                                  /\ x.deed.what = "register")

\* The challenge of an enrolment was a handler's until now and is nobody's after.
Finishes(c, k) == Registers(c) /\ <<c, k>> \in signed /\ ~ Gone(c) /\ Gone(c)'

LEMMA HandleTouches ==
    ASSUME KeptInv, NEW r \in Request, Handle(r)
    PROVE  \/ Untouched \/ Rewritten
           \/ \E u \in User, k \in Cred : Taken(u, k)
           \/ \E u \in User, k \in Cred, c \in Challenge : Added(u, k) /\ Finishes(c, k)
  <1>1. CASE (\E ask \in Ask : Arrive(r, ask)) \/ Gate(r) \/ Take(r) \/ Verify(r)
    <2>1. UNCHANGED <<keys, disk, dropped, process, done>>
      BY <1>1, GateTyping, TakeShape, VerifyShape DEF Arrive, store, KeptInv, GateInv
    <2>2. QED
      BY <2>1 DEF Untouched
  <1>2. CASE CountUp(r)
    <2>1. process = "up"
      BY <1>2 DEF CountUp, Goto, KeptInv, Quiet
    <2>2. QED
      BY <1>2, <2>1 DEF CountUp, Persist, PersistFails, Rewritten
  <1>3. ASSUME pc[r] = "act" PROVE process = "up" /\ req[r] \in Ask /\ UnderWay(r) /\ Typed
    BY <1>3 DEF KeptInv, GateInv, Quiet, Typed, HasRequest, UnderWay
  <1>4. CASE pc[r] = "act" /\ (Dispatch(r) \/ BeginEnrolment(r))
    BY <1>4 DEF Dispatch, BeginEnrolment, Succeed, store, Untouched
  <1>5. CASE pc[r] = "act" /\ RemoveKey(r)
    <2>1. req[r].user \in User /\ req[r].deed.on \in Cred /\ req[r].deed.what = "remove"
      BY <1>3, <1>5, AskFields, DeedOf DEF RemoveKey
    <2>2. CASE Refuse(r, "act") /\ UNCHANGED <<store, bounds>>
      BY <1>5, <2>2 DEF RemoveKey, Refuse, store, Untouched
    <2>3. CASE /\ req[r].deed.on \in keys[req[r].user]
               /\ keys' = [keys EXCEPT ![req[r].user] = @ \ {req[r].deed.on}]
               /\ dropped' = dropped \cup {req[r].deed.on}
               /\ \/ Persist /\ Succeed(r)
                  \/ PersistFails /\ Refuse(r, "act")
      <3>1. process' = process
        BY <1>5 DEF RemoveKey
      <3>2. Taken(req[r].user, req[r].deed.on)
        BY <1>3, <1>5, <2>1, <2>3, <3>1 DEF Taken, Persist, PersistFails, Succeed, Refuse
      <3>3. QED
        BY <2>1, <3>2
    <2>4. QED
      BY <1>5, <2>2, <2>3 DEF RemoveKey
  <1>6. CASE pc[r] = "act" /\ AddKey(r)
    <2>1. /\ req[r].user \in User /\ req[r].deed \in Deed /\ req[r].deed.what = "register"
          /\ Holding(r)
      BY <1>3, <1>6, AskFields DEF AddKey, KeptInv, GateInv, Carries, Holding
    <2>2. PICK c \in Challenge :
             /\ c = req[r].ch /\ For(c, req[r].user, req[r].deed)
             /\ \A p \in pending : p.ch # c
      BY <2>1 DEF KeptInv, GateInv, Life, Held
    <2>3. <<c, req[r].cred>> \in signed /\ req[r].cred \in Cred
      BY <1>3, <1>6, <2>2, ConstantsAssumption DEF KeptInv, GateInv, Proven, Typed, TypeOK
    <2>4. Registers(c)
      BY <2>1, <2>2, ConstantsAssumption DEF Registers, For, Minted
    <2>5. CASE Refuse(r, "act") /\ UNCHANGED <<keys, disk, file, bounds>>
      BY <1>6, <2>5 DEF AddKey, Refuse, Untouched
    <2>6. CASE /\ keys' = [keys EXCEPT ![req[r].user] = @ \cup {req[r].cred}]
               /\ \/ Persist /\ Succeed(r)
                  \/ PersistFails /\ Refuse(r, "act")
      <3>1. process' = process /\ dropped' = dropped /\ pending' = pending
        BY <1>6 DEF AddKey, ceremony
      <3>2. Added(req[r].user, req[r].cred)
        BY <1>3, <1>6, <2>1, <2>6, <3>1 DEF Added, Persist, PersistFails, Succeed, Refuse
      <3>3. Answer(r, "act")
        BY <2>6 DEF Succeed, Refuse
      <3>4. Gone(c)'
        <4>1. \A s \in Request : Holding(s)' => s # r /\ Holding(s) /\ req'[s] = req[s]
          BY <1>3, <1>6, <3>3, AnswerTyping DEF Holding
        <4>2. \A s \in Request : s # r /\ Holding(s) => req[s].ch # c
          BY <2>1, <2>2 DEF KeptInv, GateInv, Life, HeldApart
        <4>3. QED
          BY <2>2, <3>1, <4>1, <4>2 DEF Gone
      <3>5. ~ Gone(c)
        BY <2>1, <2>2 DEF Gone
      <3>6. QED
        BY <2>1, <2>2, <2>3, <2>4, <3>2, <3>4, <3>5 DEF Finishes
    <2>7. QED
      BY <1>6, <2>5, <2>6 DEF AddKey
  <1>7. QED
    BY <1>1, <1>2, <1>4, <1>5, <1>6 DEF Handle

LEMMA DoneFields ==
    ASSUME TypeOK, NEW x \in done
    PROVE  x.user \in User
  BY DEF TypeOK, Outcome

\* A step that leaves the enrolment alone, or writes it to the file, keeps it.
LEMMA WriteStep ==
    ASSUME KeptInv, [Next]_vars, Untouched \/ Rewritten
    PROVE  Traced' /\ Removed' /\ Enrolled'
  <1>1. /\ keys' = keys /\ dropped' = dropped /\ process' = process
        /\ disk' = disk \/ (disk' = keys /\ process = "up")
        /\ \A x \in done' : x \in done \/ x.deed.what \notin {"remove", "register"}
    BY DEF Untouched, Rewritten
  <1>2. \A k : Origin(k) => Origin(k)'
    BY OriginStays DEF KeptInv
  <1>3. Traced'
    BY <1>1, <1>2 DEF KeptInv, Kept, Traced
  <1>4. Removed'
    BY <1>1 DEF KeptInv, Kept, Removed
  <1>5. Enrolled'
    BY <1>1 DEF KeptInv, Kept, Enrolled
  <1>6. QED
    BY <1>3, <1>4, <1>5

\* A removal takes a credential out for good; what is left was there before.
LEMMA TakenStep ==
    ASSUME KeptInv, [Next]_vars, NEW u \in User, NEW k \in Cred, Taken(u, k)
    PROVE  Traced' /\ Removed' /\ Enrolled'
  <1>1. /\ keys' = [keys EXCEPT ![u] = @ \ {k}] /\ dropped' = dropped \cup {k}
        /\ process = "up" /\ process' = "up" /\ k \in keys[u]
        /\ disk' = disk \/ disk' = keys'
        /\ \A x \in done' :
              x \in done \/ (x.user = u /\ x.deed.on = k /\ x.deed.what = "remove" /\ disk' = keys')
    BY DEF Taken
  <1>2. /\ \A v \in User : keys'[v] \subseteq keys[v]
        /\ k \notin keys'[u]
        /\ \A v \in User : \A j \in keys[v] : j \in keys'[v] \cup dropped'
    BY <1>1 DEF KeptInv, GateInv, Typed, TypeOK
  <1>3. \A j : Origin(j) => Origin(j)'
    BY OriginStays DEF KeptInv
  <1>4. \A x \in done : x.user \in User
    BY DoneFields DEF KeptInv, GateInv, Typed
  <1>5. Traced'
    BY <1>1, <1>2, <1>3 DEF KeptInv, Kept, Traced
  <1>6. Removed'
    BY <1>1, <1>2, <1>4 DEF KeptInv, Kept, Removed
  <1>7. Enrolled'
    BY <1>1, <1>2, <1>4 DEF KeptInv, Kept, Enrolled
  <1>8. QED
    BY <1>5, <1>6, <1>7

\* An enrolment adds a credential that no removal was ever about.
LEMMA AddedStep ==
    ASSUME KeptInv, [Next]_vars, NEW u \in User, NEW k \in Cred, NEW c \in Challenge,
           Added(u, k), Finishes(c, k)
    PROVE  Traced' /\ Removed' /\ Enrolled'
  <1>1. /\ keys' = [keys EXCEPT ![u] = @ \cup {k}] /\ dropped' = dropped
        /\ process = "up" /\ process' = "up"
        /\ disk' = disk \/ disk' = keys'
        /\ \A x \in done' :
              x \in done \/ (x.user = u /\ x.cred = k /\ x.deed.what = "register" /\ disk' = keys')
    BY DEF Added
  <1>2. /\ \A v \in User : keys[v] \subseteq keys'[v] /\ keys'[v] \subseteq keys[v] \cup {k}
        /\ k \in keys'[u]
    BY <1>1 DEF KeptInv, GateInv, Typed, TypeOK
  <1>3. \A j : Origin(j) => Origin(j)'
    BY OriginStays DEF KeptInv
  <1>4. \A x \in done : x.user \in User
    BY DoneFields DEF KeptInv, GateInv, Typed
  <1>5. k \notin dropped
    <2> SUFFICES ASSUME Origin(k) PROVE FALSE
      BY DEF KeptInv, Kept, Traced
    <2>1. \A v \in User : k \notin InitialKeys[v]
      BY DEF KeptInv, Kept, FreshKeys, Finishes
    <2>2. PICK b \in Challenge : Registers(b) /\ <<b, k>> \in signed /\ Gone(b)
      BY <2>1 DEF Origin
    <2>3. b = c
      BY <2>2 DEF KeptInv, Kept, FreshKeys, Finishes
    <2>4. QED
      BY <2>2, <2>3 DEF Finishes
  <1>6. Origin(k)'
    <2>1. Registers(c)' /\ <<c, k>> \in signed'
      BY OnwardStep, SignedGrows DEF KeptInv, Finishes, Registers, Onward, Sign
    <2>2. QED
      BY <2>1 DEF Origin, Finishes
  <1>7. Traced'
    BY <1>1, <1>2, <1>3, <1>6 DEF KeptInv, Kept, Traced
  <1>8. Removed'
    <2> SUFFICES ASSUME NEW x \in done', x.deed.what = "remove"
                 PROVE  x.deed.on \in dropped /\ x.deed.on \notin keys'[x.user] \cup disk'[x.user]
      BY <1>1 DEF Removed
    <2>1. x \in done
      BY <1>1
    <2>2. x.deed.on \in dropped /\ x.deed.on \notin keys[x.user] \cup disk[x.user]
      BY <2>1 DEF KeptInv, Kept, Removed
    <2>3. x.deed.on \notin keys'[x.user]
      BY <1>2, <1>4, <1>5, <2>1, <2>2
    <2>4. QED
      BY <1>1, <2>2, <2>3
  <1>9. Enrolled'
    BY <1>1, <1>2, <1>4 DEF KeptInv, Kept, Enrolled
  <1>10. QED
    BY <1>7, <1>8, <1>9

\* After a death the file says what was enrolled; a restart reads it, or
\* refuses to start with an enrolment it cannot read.
LEMMA RestartStep ==
    ASSUME KeptInv, [Next]_vars, Crash \/ Restart
    PROVE  Traced' /\ Removed' /\ Enrolled'
  <1>1. /\ disk' = disk /\ dropped' = dropped /\ done' = done
        /\ \/ keys' = keys /\ process' # "up"
           \/ keys' = disk
           \/ keys' = [u \in User |-> {}] /\ process' # "up"
    BY DEF Crash, Restart, handlers
  <1>2. \A j : Origin(j) => Origin(j)'
    BY OriginStays DEF KeptInv
  <1>3. \A x \in done : x.user \in User
    BY DoneFields DEF KeptInv, GateInv, Typed
  <1>4. \A u \in User : keys'[u] \subseteq keys[u] \cup disk[u]
    BY <1>1
  <1>5. Traced'
    BY <1>1, <1>2, <1>4 DEF KeptInv, Kept, Traced
  <1>6. Removed'
    BY <1>1, <1>3, <1>4 DEF KeptInv, Kept, Removed
  <1>7. Enrolled'
    BY <1>1 DEF KeptInv, Kept, Enrolled
  <1>8. QED
    BY <1>5, <1>6, <1>7

LEMMA KeptStep == KeptInv /\ [Next]_vars => KeptInv'
  <1> SUFFICES ASSUME KeptInv, [Next]_vars PROVE KeptInv'
    OBVIOUS
  <1>1. GateInv' /\ Quiet' /\ SignedMinted' /\ FreshKeys'
    BY GateStep, QuietHolds, FreshStep DEF KeptInv, Kept
  <1>2. ASSUME NEW r \in Request, Handle(r) PROVE Traced' /\ Removed' /\ Enrolled'
    BY <1>2, HandleTouches, WriteStep, TakenStep, AddedStep
  <1>3. ASSUME \/ \E u \in User, d \in Deed : ActionStart(u, d)
               \/ \E c \in Challenge, k \in Cred : Sign(c, k)
               \/ \E p \in pending : Expire(p)
               \/ UNCHANGED vars
        PROVE  Traced' /\ Removed' /\ Enrolled'
    <2>1. Untouched
      BY <1>3 DEF ActionStart, Sign, Expire, vars, store, handlers, Untouched
    <2>2. QED
      BY <2>1, WriteStep
  <1>4. ASSUME Crash \/ Restart PROVE Traced' /\ Removed' /\ Enrolled'
    BY <1>4, RestartStep
  <1>5. Traced' /\ Removed' /\ Enrolled'
    BY <1>2, <1>3, <1>4 DEF Next
  <1>6. QED
    BY <1>1, <1>5 DEF KeptInv, Kept

LEMMA InitKept == Init => KeptInv
  <1> SUFFICES ASSUME Init PROVE KeptInv
    OBVIOUS
  <1>1. SignedMinted /\ FreshKeys /\ Removed /\ Enrolled /\ Quiet
    BY DEF Init, SignedMinted, FreshKeys, Removed, Enrolled, Quiet
  <1>2. Traced
    BY DEF Init, Traced, Origin
  <1>3. QED
    BY <1>1, <1>2, InitGate DEF KeptInv, Kept

\* Whatever writes of passkeys.json fail or are torn and however often the
\* process dies, a key whose removal was answered with success never comes
\* back, and a key whose enrolment was is still there unless it was removed.
THEOREM AnsweredHolds == Spec => []AnsweredOutlivesRestart
  <1>1. KeptInv => AnsweredOutlivesRestart
    BY DEF KeptInv, Kept, Removed, Enrolled, AnsweredOutlivesRestart
  <1>2. Spec => []KeptInv
    BY InitKept, KeptStep, PTL DEF Spec
  <1>3. QED
    BY <1>1, <1>2, PTL
=============================================================================
