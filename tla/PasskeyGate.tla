----------------------------- MODULE PasskeyGate -----------------------------
(***************************************************************************)
(* The passkey ceremony of the web console: the handlers of                 *)
(* crates/web/src/main.rs (command with webauthn_gate, action/start,        *)
(* register/start, register/finish, passkeys/remove) over PendingCeremonies *)
(* and PasskeyStore (crates/web/src/webauthn.rs).                           *)
(*                                                                          *)
(* Actors: requests, each run by its own handler and interleaved at every   *)
(* lock; the operator's authenticators; the clock that lets a challenge     *)
(* expire; a death and a restart of the process.  A request may be sent     *)
(* again, and may carry a proof that was made for another one.              *)
(*                                                                          *)
(* A deed is what a challenge is bound to and what a request asks for: a    *)
(* command with its arguments, the removal of one credential, the start of  *)
(* an enrolment, or an enrolment (Purpose::Register).  Sessions are live    *)
(* throughout; signatures are abstracted to the pairs <<challenge,          *)
(* credential>> an authenticator really signed; counters are left out.      *)
(*                                                                          *)
(* A definition marked Mutant is a wrong form of the one after it; no       *)
(* action uses it, it shows that a property would notice.                   *)
(***************************************************************************)
EXTENDS Integers

CONSTANTS
    User,            \* the signed-in principals
    Entitled,        \* the ones whose role admits the sensitive commands
    Command,         \* a sensitive command with its exact arguments
    Kinds,           \* bound: which kinds of request are sent
    Cred,            \* credential ids
    InitialKeys,     \* the enrolment passkeys.json starts with
    Challenge,       \* bound: the challenges that can be minted
    Request,         \* bound: the requests that can be sent
    None,
    RequirePasskey,  \* cfg.require_passkey
    MaxCrashes,      \* bound: process deaths
    MaxFaults,       \* bound: failed writes of passkeys.json
    TornWrites       \* may a death or a failure leave passkeys.json truncated

Deed ==
    [what : {"command"}, on : Command] \cup [what : {"remove"}, on : Cred]
    \cup [what : {"enroll", "register"}, on : {None}]

\* What a challenge is minted for, and what a request brings.
Minted == [user : User, deed : Deed]
Ask    == [user : User, deed : Deed, ch : Challenge \cup {None},
           cred : Cred \cup {None}, password : {"none", "right", "wrong"}]

ASSUME ConstantsAssumption ==
    /\ Entitled \subseteq User
    /\ InitialKeys \in [User -> SUBSET Cred]
    /\ \A u, v \in User : u # v => InitialKeys[u] \cap InitialKeys[v] = {}
    /\ None \notin Challenge \cup Cred \cup User
    /\ None \notin Minted /\ None \notin Ask
    /\ Kinds \subseteq {"command", "remove", "enroll", "register"}
    /\ MaxCrashes \in Nat /\ MaxFaults \in Nat
    /\ RequirePasskey \in BOOLEAN /\ TornWrites \in BOOLEAN

VARIABLES
    keys,     \* PasskeyStore.inner: the enrolled credentials of each user
    disk,     \* passkeys.json: what was last written whole
    file,     \* "whole", or "torn" when it does not parse
    process,  \* "up", "refusing" (PasskeyStore::open failed) or "down"
    pending,  \* PendingCeremonies.inner
    minted,   \* history: what each challenge was minted for
    signed,   \* the proofs authenticators have made
    req,      \* the request each handler serves
    pc,       \* where it is
    how,      \* the factor it has established
    done,     \* history: what was answered with success
    dropped,  \* history: the credentials taken out of the store
    crashes, faults   \* counters for the bounds

store    == <<keys, disk, file, dropped>>
ceremony == <<pending, minted, signed>>
handlers == <<req, pc, how, done>>
bounds   == <<crashes, faults>>
vars     == <<store, process, ceremony, handlers, bounds>>

Pending == [ch : Challenge, user : User, deed : Deed, age : {"fresh", "expired"}]
Factor  == {"none", "software", "assertion", "password"}
Outcome == [req : Request, user : User, deed : Deed, ch : Challenge \cup {None},
            cred : Cred \cup {None}, how : Factor]

Init ==
    /\ keys = InitialKeys /\ disk = InitialKeys /\ file = "whole" /\ process = "up"
    /\ pending = {} /\ minted = [c \in Challenge |-> None] /\ signed = {}
    /\ req = [r \in Request |-> None] /\ pc = [r \in Request |-> "idle"]
    /\ how = [r \in Request |-> "none"]
    /\ done = {} /\ dropped = {} /\ crashes = 0 /\ faults = 0

-----------------------------------------------------------------------------
(***************************************************************************)
(* Challenges and proofs.                                                   *)
(***************************************************************************)

\* PendingCeremonies.mint: expired entries go, the new one is inserted.
Mint(u, d) ==
    \E c \in Challenge :
        /\ minted[c] = None
        /\ minted' = [minted EXCEPT ![c] = [user |-> u, deed |-> d]]
        /\ pending' = {p \in pending : p.age = "fresh"}
                      \cup {[ch |-> c, user |-> u, deed |-> d, age |-> "fresh"]}

\* webauthn_action_start: only for a ceremony, and only with a key enrolled.
ActionStart(u, d) ==
    /\ process = "up" /\ keys[u] # {}
    /\ d.what \in Kinds \ {"register"}
    /\ Mint(u, d)
    /\ UNCHANGED <<store, process, signed, handlers, bounds>>

\* The browser answers a challenge its user was given, once: with a credential
\* that is or was enrolled, or, to register, with one that is new.
Sign(c, k) ==
    /\ minted[c] # None
    /\ \A j \in Cred : <<c, j>> \notin signed
    /\ \/ minted[c].deed.what # "register" /\ k \in keys[minted[c].user] \cup dropped
       \/ /\ minted[c].deed.what = "register"
          /\ \A u \in User : k \notin InitialKeys[u]
          /\ \A b \in Challenge : <<b, k>> \notin signed
    /\ signed' = signed \cup {<<c, k>>}
    /\ UNCHANGED <<store, process, pending, minted, handlers, bounds>>

\* CEREMONY_TTL passes.
Expire(p) ==
    /\ p.age = "fresh"
    /\ pending' = (pending \ {p}) \cup {[p EXCEPT !.age = "expired"]}
    /\ UNCHANGED <<store, process, minted, signed, handlers, bounds>>

-----------------------------------------------------------------------------
(***************************************************************************)
(* The handlers.                                                            *)
(***************************************************************************)
Goto(r, from, to) == pc[r] = from /\ pc' = [pc EXCEPT ![r] = to]
Establish(r, f)   == how' = [how EXCEPT ![r] = f]

\* A request comes in with any proof that exists, or none.
Arrive(r, ask) ==
    /\ process # "down" /\ ask.deed.what \in Kinds
    /\ Goto(r, "idle", "gate")
    /\ <<ask.ch, ask.cred>> \in signed \cup {<<None, None>>}
    /\ ask.password # "none" => ask.deed.what \in {"remove", "enroll"}
    /\ req' = [req EXCEPT ![r] = ask]
    /\ UNCHANGED <<store, process, ceremony, how, done, bounds>>

\* The handler has answered; its request and its factor are gone.
Answer(r, from) ==
    /\ Goto(r, from, "over")
    /\ req' = [req EXCEPT ![r] = None] /\ Establish(r, "none")
Refuse(r, from) == Answer(r, from) /\ UNCHANGED done

\* Go on with a factor other than the ceremony, or on to the assertion the
\* request has to carry.
Proceed(r, factor) ==
    /\ Goto(r, "gate", "act") /\ Establish(r, factor)
    /\ UNCHANGED <<req, done>>
AskAssertion(r) ==
    \/ /\ req[r].ch # None
       /\ Goto(r, "gate", "take")
       /\ UNCHANGED <<req, how, done>>
    \/ req[r].ch = None /\ Refuse(r, "gate")

\* command: the role gate, then webauthn_gate.
CommandGate(r) ==
    LET u == req[r].user IN
    /\ req[r].deed.what = "command"
    /\ \/ u \notin Entitled /\ Refuse(r, "gate")
       \/ u \in Entitled /\ keys[u] # {} /\ AskAssertion(r)
       \/ u \in Entitled /\ keys[u] = {} /\ RequirePasskey /\ Refuse(r, "gate")
       \/ u \in Entitled /\ keys[u] = {} /\ ~ RequirePasskey /\ Proceed(r, "software")

\* webauthn_remove up to the removal: a password is answered on its own terms,
\* the last key needs it, any other needs it or an assertion.
RemoveGate(r) ==
    LET u == req[r].user
        k == req[r].deed.on
        p == req[r].password
    IN
    /\ req[r].deed.what = "remove"
    /\ \/ k \notin keys[u] /\ Refuse(r, "gate")
       \/ k \in keys[u] /\ p = "wrong" /\ Refuse(r, "gate")
       \/ k \in keys[u] /\ p = "right" /\ Proceed(r, "password")
       \/ k \in keys[u] /\ p = "none" /\ keys[u] = {k} /\ Refuse(r, "gate")
       \/ k \in keys[u] /\ p = "none" /\ keys[u] # {k} /\ AskAssertion(r)

\* webauthn_register_start: the password for a first key, an assertion for
\* another one.
EnrollGate(r) ==
    LET u == req[r].user IN
    /\ req[r].deed.what = "enroll"
    /\ \/ keys[u] # {} /\ AskAssertion(r)
       \/ keys[u] = {} /\ req[r].password = "right" /\ Proceed(r, "password")
       \/ keys[u] = {} /\ req[r].password # "right" /\ Refuse(r, "gate")

\* Mutant: an enrolment without a challenge is let through.
RegisterGateOpen(r) == req[r].deed.what = "register" /\ Proceed(r, "assertion")

\* webauthn_register_finish goes straight to the challenge.
RegisterGate(r) == req[r].deed.what = "register" /\ AskAssertion(r)

Gate(r) ==
    /\ pc[r] = "gate"
    /\ \/ process = "up" /\ (CommandGate(r) \/ RemoveGate(r) \/ EnrollGate(r) \/ RegisterGate(r))
       \/ process = "refusing" /\ Refuse(r, "gate")
    /\ UNCHANGED <<store, process, ceremony, bounds>>

\* The binding checks of verify_assertion_header and register/finish: in time,
\* the same user, the same purpose with the same arguments.
Redeems(p, ask) == p.age = "fresh" /\ p.user = ask.user /\ p.deed = ask.deed

\* Mutant: the bound arguments are not compared.
TakeUnbound(r) ==
    /\ pc[r] = "take"
    /\ \/ \E p \in pending :
             /\ p.ch = req[r].ch
             /\ pending' = pending \ {p}
             /\ IF p.age = "fresh" /\ p.user = req[r].user /\ p.deed.what = req[r].deed.what
                THEN Goto(r, "take", "verify") /\ UNCHANGED <<req, how, done>>
                ELSE Refuse(r, "take")
       \/ /\ \A p \in pending : p.ch # req[r].ch
          /\ Refuse(r, "take") /\ UNCHANGED pending
    /\ UNCHANGED <<store, process, minted, signed, bounds>>

\* Mutant: the challenge is looked up and left in the table.
TakeAndKeep(r) ==
    /\ pc[r] = "take"
    /\ \/ \E p \in pending :
             /\ p.ch = req[r].ch
             /\ IF Redeems(p, req[r])
                THEN Goto(r, "take", "verify") /\ UNCHANGED <<req, how, done>>
                ELSE Refuse(r, "take")
       \/ /\ \A p \in pending : p.ch # req[r].ch
          /\ Refuse(r, "take")
    /\ UNCHANGED <<store, process, ceremony, bounds>>

\* PendingCeremonies.take, which removes the challenge whatever the verdict of
\* the binding checks.
Take(r) ==
    /\ pc[r] = "take"
    /\ \/ \E p \in pending :
             /\ p.ch = req[r].ch
             /\ pending' = pending \ {p}
             /\ IF Redeems(p, req[r])
                THEN Goto(r, "take", "verify") /\ UNCHANGED <<req, how, done>>
                ELSE Refuse(r, "take")
       \/ /\ \A p \in pending : p.ch # req[r].ch
          /\ Refuse(r, "take") /\ UNCHANGED pending
    /\ UNCHANGED <<store, process, minted, signed, bounds>>

\* What is left to check after the binding, and may fail for any answer: the
\* signature, the origin, the flags, the counter.
VerifyRegistration(r) ==
    /\ req[r].deed.what = "register"
    /\ Goto(r, "verify", "act") /\ Establish(r, "assertion")
    /\ UNCHANGED <<req, done>>
VerifyAssertion(r) ==
    /\ req[r].deed.what # "register" /\ req[r].cred \in keys[req[r].user]
    /\ Goto(r, "verify", "count")
    /\ UNCHANGED <<req, how, done>>

Verify(r) ==
    /\ pc[r] = "verify"
    /\ VerifyRegistration(r) \/ VerifyAssertion(r) \/ Refuse(r, "verify")
    /\ UNCHANGED <<store, process, ceremony, bounds>>

\* persist: the whole map is written over the file.  A failure leaves the old
\* file, or a truncated one.
PersistFails ==
    /\ faults < MaxFaults /\ faults' = faults + 1
    /\ file' \in {file} \cup (IF TornWrites THEN {"torn"} ELSE {})
    /\ UNCHANGED <<disk, crashes>>
Persist == disk' = keys' /\ file' = "whole" /\ UNCHANGED bounds

\* update_sign_count: a failed write is only logged.
CountUp(r) ==
    /\ Goto(r, "count", "act") /\ Establish(r, "assertion")
    /\ keys' = keys
    /\ Persist \/ PersistFails
    /\ UNCHANGED <<dropped, process, ceremony, req, done>>

\* The handler answers with success.
Succeed(r) ==
    /\ Answer(r, "act")
    /\ done' = done \cup {[req |-> r, user |-> req[r].user, deed |-> req[r].deed,
                           ch |-> IF how[r] = "assertion" THEN req[r].ch ELSE None,
                           cred |-> req[r].cred, how |-> how[r]]}

\* dispatch::dispatch under with_signature.
Dispatch(r) ==
    /\ req[r].deed.what = "command"
    /\ Succeed(r)
    /\ UNCHANGED <<store, process, ceremony, bounds>>

\* Mutant: the count the handler read at the start decides.
RemoveKeyAsSeen(r) ==
    LET a == req[r] IN
    /\ a.deed.what = "remove"
    /\ \/ /\ a.deed.on \notin keys[a.user]
          /\ Refuse(r, "act") /\ UNCHANGED <<store, bounds>>
       \/ /\ a.deed.on \in keys[a.user]
          /\ keys' = [keys EXCEPT ![a.user] = @ \ {a.deed.on}]
          /\ dropped' = dropped \cup {a.deed.on}
          /\ \/ Persist /\ Succeed(r)
             \/ PersistFails /\ Refuse(r, "act")
    /\ UNCHANGED <<process, ceremony>>

\* Mutant: the removal is not written to the file.
RemoveKeyInMemory(r) ==
    LET a == req[r] IN
    /\ a.deed.what = "remove"
    /\ \/ /\ \/ a.deed.on \notin keys[a.user]
             \/ keys[a.user] = {a.deed.on} /\ how[r] # "password"
          /\ Refuse(r, "act") /\ UNCHANGED <<store, bounds>>
       \/ /\ a.deed.on \in keys[a.user]
          /\ keys[a.user] = {a.deed.on} => how[r] = "password"
          /\ keys' = [keys EXCEPT ![a.user] = @ \ {a.deed.on}]
          /\ dropped' = dropped \cup {a.deed.on}
          /\ Succeed(r) /\ UNCHANGED <<disk, file, bounds>>
    /\ UNCHANGED <<process, ceremony>>

\* PasskeyStore.remove: the count and the removal are one decision.
RemoveKey(r) ==
    LET a == req[r] IN
    /\ a.deed.what = "remove"
    /\ \/ /\ \/ a.deed.on \notin keys[a.user]
             \/ keys[a.user] = {a.deed.on} /\ how[r] # "password"
          /\ Refuse(r, "act") /\ UNCHANGED <<store, bounds>>
       \/ /\ a.deed.on \in keys[a.user]
          /\ keys[a.user] = {a.deed.on} => how[r] = "password"
          /\ keys' = [keys EXCEPT ![a.user] = @ \ {a.deed.on}]
          /\ dropped' = dropped \cup {a.deed.on}
          /\ \/ Persist /\ Succeed(r)
             \/ PersistFails /\ Refuse(r, "act")
    /\ UNCHANGED <<process, ceremony>>

\* The end of webauthn_register_start: a registration challenge is minted.
BeginEnrolment(r) ==
    /\ req[r].deed.what = "enroll"
    /\ Mint(req[r].user, [what |-> "register", on |-> None])
    /\ Succeed(r)
    /\ UNCHANGED <<store, process, signed, bounds>>

\* PasskeyStore.add: a credential is enrolled once.
AddKey(r) ==
    LET a == req[r] IN
    /\ a.deed.what = "register"
    /\ \/ /\ a.cred \in keys[a.user]
          /\ Refuse(r, "act") /\ UNCHANGED <<keys, disk, file, bounds>>
       \/ /\ a.cred \notin keys[a.user]
          /\ keys' = [keys EXCEPT ![a.user] = @ \cup {a.cred}]
          /\ \/ Persist /\ Succeed(r)
             \/ PersistFails /\ Refuse(r, "act")
    /\ UNCHANGED <<dropped, process, ceremony>>

-----------------------------------------------------------------------------
(***************************************************************************)
(* Death and restart.  Sessions and challenges die with the process.        *)
(***************************************************************************)
\* std::fs::write truncates the file before it writes.
Writing(r) ==
    \/ pc[r] = "count"
    \/ pc[r] = "act" /\ req[r].deed.what \in {"remove", "register"}

Crash ==
    /\ process # "down" /\ crashes < MaxCrashes
    /\ crashes' = crashes + 1
    /\ process' = "down" /\ pending' = {}
    /\ pc' = [r \in Request |-> IF pc[r] = "idle" THEN "idle" ELSE "over"]
    /\ req' = [r \in Request |-> None] /\ how' = [r \in Request |-> "none"]
    /\ \/ file' = file
       \/ TornWrites /\ file' = "torn" /\ \E r \in Request : Writing(r)
    /\ UNCHANGED <<keys, disk, dropped, minted, signed, done, faults>>

\* PasskeyStore::open: a file that does not parse is never an empty store.
Restart ==
    /\ process = "down"
    /\ IF file = "torn"
       THEN process' = "refusing" /\ keys' = [u \in User |-> {}]
       ELSE process' = "up" /\ keys' = disk
    /\ UNCHANGED <<disk, file, dropped, ceremony, handlers, bounds>>

Handle(r) ==
    \/ pc[r] = "idle" /\ \E ask \in Ask : Arrive(r, ask)
    \/ Gate(r) \/ Take(r) \/ Verify(r) \/ CountUp(r)
    \/ pc[r] = "act" /\ (Dispatch(r) \/ RemoveKey(r) \/ BeginEnrolment(r) \/ AddKey(r))

Next ==
    \/ \E u \in User, d \in Deed : ActionStart(u, d)
    \/ \E c \in Challenge, k \in Cred : Sign(c, k)
    \/ \E p \in pending : Expire(p)
    \/ \E r \in Request : Handle(r)
    \/ Crash \/ Restart

Spec == Init /\ [][Next]_vars
-----------------------------------------------------------------------------
(***************************************************************************)
(* Properties.                                                              *)
(***************************************************************************)
\* The shape of the state: keys, challenges and requests are what PasskeyStore,
\* PendingCeremonies and the handlers can hold.
TypeOK ==
    /\ keys \in [User -> SUBSET Cred] /\ disk \in [User -> SUBSET Cred]
    /\ file \in {"whole", "torn"} /\ process \in {"up", "refusing", "down"}
    /\ pending \subseteq Pending
    /\ minted \in [Challenge -> Minted \cup {None}]
    /\ signed \subseteq Challenge \X Cred
    /\ req \in [Request -> Ask \cup {None}]
    /\ pc \in [Request -> {"idle", "gate", "take", "verify", "count", "act", "over"}]
    /\ how \in [Request -> Factor]
    /\ done \subseteq Outcome /\ dropped \subseteq Cred
    /\ crashes \in Nat /\ faults \in Nat

\* One-shot (PendingCeremonies.take): however often a request is sent, one
\* confirmation authorises one thing.
OneShot ==
    \A x \in done : \A y \in done : x.ch # None /\ x.ch = y.ch => x = y

\* What was confirmed is what was done (Purpose): a success that rests on an
\* assertion is for the user and the deed its challenge was minted for, and an
\* authenticator signed that very challenge.
BoundToWhatWasConfirmed ==
    \A x \in done : x.ch # None =>
        /\ minted[x.ch] = [user |-> x.user, deed |-> x.deed]
        /\ <<x.ch, x.cred>> \in signed

\* The last passkey goes only by the operator password (PasskeyStore.remove),
\* even when two removals arrive together.
LastKeyNeedsPassword ==
    [][\A u \in User :
         process # "down" /\ keys[u] # {} /\ keys'[u] = {} =>
             \E r \in Request : /\ pc[r] = "act" /\ pc'[r] # "act"
                                /\ req[r].user = u /\ how[r] = "password"]_vars

\* Enrolments and removals that were answered with success outlive the process,
\* whatever writes failed before or after them.
AnsweredOutlivesRestart ==
    process = "up" =>
        \A x \in done :
            /\ x.deed.what = "remove" => x.deed.on \notin keys[x.user]
            /\ x.deed.what = "register" => x.cred \in keys[x.user] \cup dropped
=============================================================================
