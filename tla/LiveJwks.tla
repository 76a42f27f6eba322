------------------------------ MODULE LiveJwks ------------------------------
(***************************************************************************)
(* The live JWKS cache behind OIDC sign-in (crates/web/src/oidc.rs:         *)
(* LiveJwks, validate_jwks_bytes, verify).                                  *)
(*                                                                          *)
(* Actors: verifications, each resolving one kid; the startup warm-up; the  *)
(* identity provider, which rotates its keys, also between its answer and   *)
(* its arrival, and whose answers may fail or be refused; the browser,      *)
(* which may go away under a verification that is fetching; the clock,      *)
(* which runs on while a fetch is in progress (up to FetchTimeout).  One    *)
(* lock is held from the decision to the end of the fetch.                  *)
(*                                                                          *)
(* A published key is a kid and a class: "signing" (RSA or EC, public       *)
(* only), "other" (a type that cannot verify, dropped) or "secret" (a       *)
(* symmetric key or a private member, which refuses the whole set).         *)
(* Signatures, exp, iss and aud are left out: verify asks for a key first   *)
(* and fails without one.                                                   *)
(*                                                                          *)
(* A definition marked Mutant is a wrong form of the one after it; no       *)
(* action uses it.                                                          *)
(***************************************************************************)
EXTENDS Integers

CONSTANTS
    Kid,             \* key ids
    Finder,          \* bound: the verifications in flight at a time
    Sets,            \* bound: the sets the provider may publish
    Nobody,
    MaxAge, Cooldown, FetchTimeout,   \* oidc.rs's constants, in ticks
    LastTick,        \* bound: the clock
    MaxRotations, MaxFailedFetches    \* bounds

Published == [kid : Kid, class : {"signing", "other", "secret"}]
Ticks     == 0..LastTick
Never     == -1

VARIABLES
    tick,         \* the clock
    idp,          \* the set the provider publishes
    gone,         \* history: when each kid last stopped being published
    keys,         \* LiveState.keys
    fetchedAt,    \* LiveState.fetched_at
    lastAttempt,  \* LiveState.last_attempt
    holder,       \* who holds the lock and is fetching, or Nobody
    body,         \* the set the provider answered that fetch with
    since,        \* when that fetch began
    want,         \* the kid each verification resolves
    where,        \* "idle", "wait", "fetch" or, once the provider answered, "reply"
    accepted,     \* history: the last <<kid, tick>> a verification was given
    attempts,     \* history: the ticks attempts began at, the warm-up's apart
    trusted,      \* history: the kids published for signing beside no secret
    missed,       \* history: has a fetch failed, been refused or been given up
    rotations, failed   \* counters for the bounds

provider == <<idp, gone, trusted, rotations>>
cache    == <<keys, fetchedAt, lastAttempt>>
flight   == <<holder, body, since, want, where>>
record   == <<accepted, attempts, missed>>
jwksVars == <<tick, provider, cache, flight, record, failed>>

WarmUp == "warm-up"
Task   == Finder \cup {WarmUp}

\* The cooldown is no longer than the age a set may reach: five minutes and an
\* hour (oidc.rs:89).  A verification inside it is answered from the cache
\* whatever the cache's age.
ASSUME JwksAssumption ==
    /\ Sets \subseteq SUBSET Published /\ Kid # {}
    /\ WarmUp \notin Finder /\ Nobody \notin Task
    /\ MaxAge \in Nat \ {0} /\ Cooldown \in Nat /\ FetchTimeout \in Nat /\ LastTick \in Nat
    /\ Cooldown <= MaxAge

\* What a set vouches for: its signing keys, unless it also carries a secret.
Clean(set) ==
    {p.kid : p \in {q \in set : q.class = "signing" /\ \A r \in set : r.class # "secret"}}

JwksInit ==
    /\ tick = 0 /\ rotations = 0 /\ failed = 0
    /\ idp \in Sets
    /\ gone = [k \in Kid |-> Never]
    /\ keys = {} /\ fetchedAt = Never /\ lastAttempt = Never
    /\ holder = Nobody /\ body = {} /\ since = 0
    /\ want = [f \in Finder |-> CHOOSE k \in Kid : TRUE]
    /\ where = [f \in Task |-> IF f = WarmUp THEN "wait" ELSE "idle"]
    /\ accepted = <<>> /\ attempts = {} /\ missed = FALSE
    /\ trusted = Clean(idp)

-----------------------------------------------------------------------------
\* Time passes; a fetch in progress ends within FetchTimeout.
Pass ==
    /\ tick < LastTick /\ (holder # Nobody => tick - since < FetchTimeout)
    /\ tick' = tick + 1
    /\ UNCHANGED <<provider, cache, flight, record, failed>>

\* The provider publishes another set.
Rotate(set) ==
    /\ rotations < MaxRotations /\ rotations' = rotations + 1
    /\ idp' = set /\ trusted' = trusted \cup Clean(set)
    /\ gone' = [k \in Kid |-> IF k \in {p.kid : p \in idp} \ {p.kid : p \in set} THEN tick ELSE gone[k]]
    /\ UNCHANGED <<tick, cache, flight, record, failed>>

\* verify is called with a token whose header names kid k.
Ask(f, k) ==
    /\ where[f] = "idle"
    /\ where' = [where EXCEPT ![f] = "wait"] /\ want' = [want EXCEPT ![f] = k]
    /\ UNCHANGED <<tick, provider, cache, holder, body, since, record, failed>>

\* attempt_locked up to the request.
AttemptLocked(f) ==
    /\ holder' = f /\ since' = tick /\ lastAttempt' = tick
    /\ where' = [where EXCEPT ![f] = "fetch"]
    /\ attempts' = IF f = WarmUp THEN attempts ELSE attempts \cup {tick}
    /\ UNCHANGED <<tick, provider, keys, fetchedAt, body, want, accepted, missed, failed>>

\* find's answer: the key, or nothing.
Answer(f, set) ==
    /\ accepted' = IF want[f] \in set THEN <<want[f], tick>> ELSE accepted
    /\ where' = [where EXCEPT ![f] = "idle"]

\* Mutant: only an unknown kid waits for the cooldown.
DueByAgeAlways(k) ==
    \/ fetchedAt = Never \/ tick - fetchedAt >= MaxAge
    \/ k \notin keys /\ (lastAttempt = Never \/ tick - lastAttempt >= Cooldown)

\* Mutant: a set is refreshed for an unknown kid only.
DueByKid(k) ==
    k \notin keys /\ (lastAttempt = Never \/ tick - lastAttempt >= Cooldown)

\* find: due by age or by kid, and cooled down.
Due(k) ==
    /\ \/ fetchedAt = Never \/ tick - fetchedAt >= MaxAge
       \/ k \notin keys
    /\ lastAttempt = Never \/ tick - lastAttempt >= Cooldown

\* LiveJwks::find, under the lock; an attempt keeps it until the fetch ends.
Find(f) ==
    /\ where[f] = "wait" /\ holder = Nobody /\ f # WarmUp
    /\ IF Due(want[f]) THEN AttemptLocked(f)
       ELSE /\ Answer(f, keys)
            /\ UNCHANGED <<tick, provider, cache, holder, body, since, want, attempts, missed, failed>>

\* warm_up: only when nothing has been fetched yet, whatever the cooldown says.
Warm ==
    /\ where[WarmUp] = "wait" /\ holder = Nobody
    /\ IF fetchedAt = Never THEN AttemptLocked(WarmUp)
       ELSE /\ where' = [where EXCEPT ![WarmUp] = "idle"]
            /\ UNCHANGED <<tick, provider, cache, holder, body, since, want, record, failed>>

\* Mutant: a set is refused only when nothing in it can be used.
UsableLenient(set) == {p.kid : p \in {q \in set : q.class # "other"}}

\* validate_jwks_bytes: refused if empty, if any key is secret, or if nothing
\* that can verify is left; the empty set stands for a refusal.
Usable(set) ==
    IF \E p \in set : p.class = "secret" THEN {}
    ELSE {p.kid : p \in {q \in set : q.class = "signing"}}

\* The provider answers with the set it publishes at that moment.
Reply(f) ==
    /\ where[f] = "fetch"
    /\ where' = [where EXCEPT ![f] = "reply"] /\ body' = idp
    /\ UNCHANGED <<tick, provider, cache, holder, since, want, record, failed>>

Leave(f, set) ==
    /\ holder' = Nobody /\ body' = {}
    /\ IF f = WarmUp
       THEN where' = [where EXCEPT ![f] = "idle"] /\ UNCHANGED accepted
       ELSE Answer(f, set)
    /\ UNCHANGED <<tick, provider, lastAttempt, since, want, attempts>>

\* Mutant: the set is dated from the end of the fetch.
FetchedDatedLate(f) ==
    /\ where[f] = "reply" /\ Usable(body) # {}
    /\ keys' = Usable(body) /\ fetchedAt' = tick
    /\ Leave(f, keys')
    /\ UNCHANGED <<missed, failed>>

\* The answer arrives: a usable set replaces the cache, dated from the fetch's start.
Fetched(f) ==
    /\ where[f] = "reply" /\ Usable(body) # {}
    /\ keys' = Usable(body) /\ fetchedAt' = since
    /\ Leave(f, keys')
    /\ UNCHANGED <<missed, failed>>

\* The transport fails or the body is refused: the last good set stays.
FetchFailed(f) ==
    /\ \/ where[f] = "reply" /\ Usable(body) = {} /\ UNCHANGED failed
       \/ where[f] \in {"fetch", "reply"} /\ failed < MaxFailedFetches /\ failed' = failed + 1
    /\ Leave(f, keys)
    /\ missed' = TRUE
    /\ UNCHANGED <<keys, fetchedAt>>

\* The browser goes away under a verification that is fetching: its handler is
\* dropped and the lock with it, and only the attempt's instant stays.
GivenUp(f) ==
    /\ where[f] \in {"fetch", "reply"} /\ f # WarmUp
    /\ failed < MaxFailedFetches /\ failed' = failed + 1
    /\ holder' = Nobody /\ body' = {} /\ where' = [where EXCEPT ![f] = "idle"]
    /\ missed' = TRUE
    /\ UNCHANGED <<tick, provider, cache, since, want, accepted, attempts>>

JwksNext ==
    \/ Pass
    \/ \E set \in Sets : Rotate(set)
    \/ \E f \in Finder, k \in Kid : Ask(f, k)
    \/ \E f \in Task : Find(f) \/ Reply(f) \/ Fetched(f) \/ FetchFailed(f) \/ GivenUp(f)
    \/ Warm

JwksSpec == JwksInit /\ [][JwksNext]_jwksVars

-----------------------------------------------------------------------------
(***************************************************************************)
(* Properties.                                                              *)
(***************************************************************************)
\* Types of the cache and of the verifications.
JwksTypeOK ==
    /\ keys \subseteq Kid /\ fetchedAt \in Ticks \cup {Never}
    /\ lastAttempt \in Ticks \cup {Never}
    /\ where \in [Task -> {"idle", "wait", "fetch", "reply"}]
    /\ \A f \in Task : where[f] \in {"fetch", "reply"} <=> holder = f

\* Verifications cost the provider at most one request per cooldown, whatever
\* kids they bring, however many wait for the lock and whatever fails
\* (oidc.rs:29); only the warm-up's own attempt may come in between.
OneFetchPerCooldown ==
    \A s, t \in attempts : s < t => t - s >= Cooldown

\* A withdrawn key stops being accepted: as long as every fetch succeeds, a kid
\* is accepted less than MaxAge after it was withdrawn, or by the verification
\* whose own fetch it was withdrawn under.
WithdrawnKeyAges ==
    LET ago == accepted[2] - gone[accepted[1]]
    IN  ~missed /\ accepted # <<>> =>
            \/ accepted[1] \in {p.kid : p \in idp}
            \/ gone[accepted[1]] # Never /\ (ago < MaxAge \/ ago <= FetchTimeout)

\* Nothing is accepted on the word of a set that carried a secret, not even when
\* every later fetch fails: a cached kid was once published for signing in a set
\* without one.
NothingFromASecretSet == keys \subseteq trusted

\* What LiveJwks hands a verification is the provider's: asked for at most once per
\* cooldown, aged out once withdrawn, and never out of a set that carried a secret
\* (oidc.rs: find, attempt_locked, validate_jwks_bytes).
KeysAreTheProviders ==
    /\ OneFetchPerCooldown
    /\ WithdrawnKeyAges
    /\ NothingFromASecretSet
=============================================================================
