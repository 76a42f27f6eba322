------------------------------- MODULE SignIn -------------------------------
(***************************************************************************)
(* Signing in with the operator password and living on the session: login,  *)
(* logout and guard (crates/web/src/main.rs), LoginThrottle                 *)
(* (crates/web/src/throttle.rs), Sessions (crates/web/src/auth.rs) and      *)
(* Ctx::operator (crates/web/src/ctx.rs).                                   *)
(*                                                                          *)
(* Actors: sign-ins in flight together, interleaved at every lock, with a   *)
(* password hash between the throttle's check and its count; set-password,  *)
(* which writes operator.json while the console runs; requests on sessions; *)
(* the clock.  Time is counted in ticks; an instant captured by a handler   *)
(* may be old when it is used.                                              *)
(*                                                                          *)
(* A password is right for the version of operator.json it was set with.    *)
(* A definition marked Mutant is a wrong form of the one after it; no       *)
(* action uses it.                                                          *)
(***************************************************************************)
EXTENDS Integers, FiniteSets

CONSTANTS
    Login,                     \* bound: the sign-ins in flight at a time
    Owner, OtherNames,         \* the operator's username, and others that are tried
    Addr,                      \* client addresses
    AccountLimit, AddressLimit, Window, MaxKeys,   \* throttle.rs's constants
    IdleTimeout, Lifetime,     \* auth.rs's constants
    Sid,                       \* bound: the session ids that can be drawn
    None, Torn,
    Horizon, MaxVersions       \* bounds: the clock, and set-password calls

Name == {Owner} \cup OtherNames

ASSUME SignInAssumption ==
    /\ AccountLimit \in Nat \ {0} /\ AddressLimit \in Nat \ {0} /\ Window \in Nat \ {0}
    /\ MaxKeys \in Nat \ {0} /\ IdleTimeout \in Nat \ {0} /\ Lifetime \in Nat \ {0}
    /\ Horizon \in Nat /\ MaxVersions \in Nat
    /\ None \notin Nat /\ Torn \notin Nat /\ Torn # None /\ IsFiniteSet(Login)
    /\ Addr # {}

VARIABLES
    now,       \* the clock
    accounts,  \* ctx.sign_in_accounts: the windows of account keys
    addresses, \* ctx.sign_in_addresses
    file,      \* operator.json: a version, Torn while being written, or None
    version,   \* the last version set-password wrote
    operator,  \* ctx.operator: the version held, or None
    login,     \* what each sign-in in flight carries
    pc,        \* where it is
    sessions,  \* Sessions.inner
    born,      \* history: when each session was signed in
    answered   \* history: the operator versions sign-ins were answered from

throttle == <<accounts, addresses>>
account  == <<file, version, operator, answered>>
handlers == <<login, pc>>
table    == <<sessions, born>>
vars     == <<now, throttle, account, handlers, table>>

Time    == 0..Horizon
Wind    == [started : Time, failures : Nat \ {0}]
Version == 1..MaxVersions
\* right: the version the password given belongs to, or None.
Blank   == [name |-> Owner, addr |-> CHOOSE a \in Addr : TRUE, right |-> None, t |-> 0, op |-> None]
Session == [last : Time, created : Time]

Init ==
    /\ now = 0 /\ accounts = [k \in {} |-> 0] /\ addresses = [k \in {} |-> 0]
    /\ file = None /\ version = 0 /\ operator = None /\ answered = {}
    /\ login = [l \in Login |-> Blank] /\ pc = [l \in Login |-> "idle"]
    /\ sessions = [s \in {} |-> 0] /\ born = [s \in {} |-> 0]

Tick == now < Horizon /\ now' = now + 1 /\ UNCHANGED <<throttle, account, handlers, table>>

-----------------------------------------------------------------------------
(***************************************************************************)
(* set-password, and the record a running console picks up.                 *)
(***************************************************************************)
\* std::fs::write: truncated first, whole afterwards.
SetPasswordBegin ==
    /\ version < MaxVersions /\ file # Torn
    /\ file' = Torn /\ version' = version + 1
    /\ UNCHANGED <<now, throttle, operator, answered, handlers, table>>

SetPasswordEnd ==
    /\ file = Torn /\ file' = version
    /\ UNCHANGED <<now, throttle, version, operator, answered, handlers, table>>

Goto(l, from, to) == pc[l] = from /\ pc' = [pc EXCEPT ![l] = to]

\* A sign-in with a username and a password arrives; Ctx::operator reads what is
\* held, and only if nothing is goes to the file.
Arrive(l, n, a, right) ==
    /\ Goto(l, "idle", IF operator = None THEN "load" ELSE "check")
    /\ login' = [login EXCEPT ![l] = [name |-> n, addr |-> a, right |-> right, t |-> now,
                                      op |-> operator]]
    /\ answered' = IF operator = None THEN answered ELSE answered \cup {operator}
    /\ UNCHANGED <<now, throttle, file, version, operator, table>>

\* auth::load: a file that is missing or not valid JSON is no operator (503).
Load(l) ==
    /\ pc[l] = "load"
    /\ IF file \in Version
       THEN Goto(l, "load", "insert") /\ login' = [login EXCEPT ![l].op = file]
       ELSE Goto(l, "load", "idle") /\ login' = [login EXCEPT ![l] = Blank]
    /\ UNCHANGED <<now, throttle, account, table>>

\* Mutant: the record just read replaces the one held.
InsertOver(l) ==
    /\ Goto(l, "insert", "check")
    /\ operator' = login[l].op
    /\ login' = [login EXCEPT ![l].t = now]
    /\ answered' = answered \cup {operator'}
    /\ UNCHANGED <<now, throttle, file, version, table>>

\* get_or_insert: the first record stored wins, and answers.
Insert(l) ==
    /\ Goto(l, "insert", "check")
    /\ operator' = IF operator = None THEN login[l].op ELSE operator
    /\ login' = [login EXCEPT ![l].op = operator', ![l].t = now]
    /\ answered' = answered \cup {operator'}
    /\ UNCHANGED <<now, throttle, file, version, table>>

-----------------------------------------------------------------------------
(***************************************************************************)
(* LoginThrottle.                                                           *)
(***************************************************************************)
\* saturating_duration_since: an instant before the start counts as zero.
Live(w, t) == (IF t > w.started THEN t - w.started ELSE 0) < Window

\* Mutant: one failure more than the limit is let through.
HeldOneLate(tab, k, limit, t) ==
    k \in DOMAIN tab /\ tab[k].failures > limit /\ Live(tab[k], t)

\* check refuses.
Held(tab, k, limit, t) ==
    k \in DOMAIN tab /\ tab[k].failures >= limit /\ Live(tab[k], t)

Keep(tab, ks) == [k \in ks |-> tab[k]]

\* make_room: the expired windows go, then an oldest live one.
MakeRoom(tab, t) ==
    LET live == {k \in DOMAIN tab : Live(tab[k], t)}
        oldest == {k \in live : \A j \in live : tab[k].started <= tab[j].started}
    IN  IF Cardinality(live) < MaxKeys THEN {Keep(tab, live)}
        ELSE {Keep(tab, live \ {k}) : k \in oldest}

\* record_failure: what the table may become (an oldest window is chosen by
\* hash order).
Failed(tab, k, t) ==
    LET fresh == [started |-> t, failures |-> 1]
        with(f) == [j \in DOMAIN f \cup {k} |-> IF j = k THEN fresh ELSE f[j]]
    IN  IF k \in DOMAIN tab
        THEN {[tab EXCEPT ![k] = IF Live(tab[k], t) THEN [tab[k] EXCEPT !.failures = @ + 1] ELSE fresh]}
        ELSE IF Cardinality(DOMAIN tab) >= MaxKeys
        THEN {with(f) : f \in MakeRoom(tab, t)}
        ELSE {with(tab)}

\* login: both keys are checked before the password is tried; 429 if one is held.
Check(l) ==
    LET me == login[l]
        held == \/ Held(accounts, me.name, AccountLimit, me.t)
                \/ Held(addresses, me.addr, AddressLimit, me.t)
    IN  /\ Goto(l, "check", IF held THEN "idle" ELSE "hash")
        /\ login' = IF held THEN [login EXCEPT ![l] = Blank] ELSE login
        /\ UNCHANGED <<now, throttle, account, table>>

\* auth::verify, the slow part: the password and the name, both.
Right(me) == me.right = me.op /\ me.name = Owner

\* A wrong one is counted against the account, then against the address, at the
\* instant captured before the hash.
CountAccount(l) ==
    /\ ~Right(login[l]) /\ Goto(l, "hash", "address")
    /\ accounts' \in Failed(accounts, login[l].name, login[l].t)
    /\ UNCHANGED <<now, addresses, account, login, table>>

CountAddress(l) ==
    /\ Goto(l, "address", "idle")
    /\ addresses' \in Failed(addresses, login[l].addr, login[l].t)
    /\ login' = [login EXCEPT ![l] = Blank]
    /\ UNCHANGED <<now, accounts, account, table>>

\* record_success on both tables (two locks; nothing is awaited in between and
\* neither looks at the other).
Clear(l) ==
    /\ Right(login[l]) /\ Goto(l, "hash", "create")
    /\ accounts' = Keep(accounts, DOMAIN accounts \ {login[l].name})
    /\ addresses' = Keep(addresses, DOMAIN addresses \ {login[l].addr})
    /\ UNCHANGED <<now, account, login, table>>

-----------------------------------------------------------------------------
(***************************************************************************)
(* Sessions.                                                                *)
(***************************************************************************)
IsLive(s) == now - s.last < IdleTimeout /\ now - s.created < Lifetime
Rows(ss)  == [s \in ss |-> sessions[s]]

\* Sessions::create: the dead rows are swept, a fresh id is inserted.
Create(l, s) ==
    /\ Goto(l, "create", "idle") /\ s \notin DOMAIN born
    /\ sessions' = [i \in {j \in DOMAIN sessions : IsLive(sessions[j])} \cup {s} |->
                        IF i = s THEN [last |-> now, created |-> now] ELSE sessions[i]]
    /\ born' = [i \in DOMAIN born \cup {s} |-> IF i = s THEN now ELSE born[i]]
    /\ login' = [login EXCEPT ![l] = Blank]
    /\ UNCHANGED <<now, throttle, account>>

\* Mutant: use renews the whole session.
TouchRenews(s) ==
    /\ s \in DOMAIN sessions
    /\ sessions' = IF IsLive(sessions[s])
                   THEN [sessions EXCEPT ![s] = [last |-> now, created |-> now]]
                   ELSE Rows(DOMAIN sessions \ {s})
    /\ UNCHANGED <<now, throttle, account, handlers, born>>

\* guard and session: touch moves last_seen of a live row, and drops a dead one.
Touch(s) ==
    /\ s \in DOMAIN sessions
    /\ sessions' = IF IsLive(sessions[s]) THEN [sessions EXCEPT ![s].last = now]
                   ELSE Rows(DOMAIN sessions \ {s})
    /\ UNCHANGED <<now, throttle, account, handlers, born>>

\* logout.
Revoke(s) ==
    /\ s \in DOMAIN sessions
    /\ sessions' = Rows(DOMAIN sessions \ {s})
    /\ UNCHANGED <<now, throttle, account, handlers, born>>

LoginStep(l) ==
    \/ Load(l) \/ Insert(l) \/ Check(l) \/ CountAccount(l) \/ CountAddress(l) \/ Clear(l)
    \/ \E s \in Sid : Create(l, s)

Next ==
    \/ Tick \/ SetPasswordBegin \/ SetPasswordEnd
    \/ \E l \in Login, n \in Name, a \in Addr, right \in {version, None} : Arrive(l, n, a, right)
    \/ \E l \in Login : LoginStep(l)
    \/ \E s \in Sid : Touch(s) \/ Revoke(s)

Spec == Init /\ [][Next]_vars

-----------------------------------------------------------------------------
(***************************************************************************)
(* Properties.                                                              *)
(***************************************************************************)
Tables == {accounts, addresses}

\* Types of the clock, the tables, the record and the sign-ins; the tables stay
\* within MaxKeys.
SignInTypeOK ==
    /\ now \in Time
    /\ \A t \in Tables : \A k \in DOMAIN t : t[k] \in Wind
    /\ \A t \in Tables : Cardinality(DOMAIN t) <= MaxKeys
    /\ file \in Version \cup {Torn, None} /\ operator \in Version \cup {None}
    /\ \A l \in Login : pc[l] \in {"idle", "load", "insert", "check", "hash", "address", "create"}
    /\ \A s \in DOMAIN sessions : sessions[s] \in Session

\* However many sign-ins are in flight, the passwords tried against one account
\* in one window are at most the limit and the others in flight: the check and
\* the count are separate, but a key at its limit admits nobody (throttle.rs:4).
OvershootBounded ==
    /\ \A k \in DOMAIN accounts : accounts[k].failures < AccountLimit + Cardinality(Login)
    /\ \A k \in DOMAIN addresses : addresses[k].failures < AddressLimit + Cardinality(Login)

\* Sign-ins that race for the first record, or with set-password, are all
\* answered from one record: two first sign-ins never disagree, and a password
\* changed on a running console takes a restart (ctx.rs:207).
OneOperator == Cardinality(answered) <= 1

\* No session is kept alive past its lifetime by use: a row that touch would
\* still accept was signed in less than Lifetime ago, however often it was used.
SessionsEnd ==
    \A s \in DOMAIN sessions : IsLive(sessions[s]) => now - born[s] < Lifetime

\* Sign-in as a whole: sign-ins and set-password that race agree on one operator, the
\* passwords tried in a window are bounded, and no session outlives its lifetime
\* (throttle.rs, auth.rs, ctx.rs).
SignInIsSound ==
    /\ OneOperator
    /\ OvershootBounded
    /\ SessionsEnd
=============================================================================
