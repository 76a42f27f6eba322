------------------------------ MODULE MCAccess ------------------------------
(***************************************************************************)
(* Instances of an operator's way in and of what is done with it: SignIn    *)
(* (throttle, operator record, sessions), LiveJwks (the keys an ID token is *)
(* verified with) and OperatorCommands (a command from the call to its row  *)
(* in the journal).  They share no state, so a behaviour is of one of them: *)
(* `part` is chosen at the start and the state of the others stands still.  *)
(***************************************************************************)
EXTENDS SignIn, LiveJwks, OperatorCommands, TLC

CONSTANTS k1, k2

VARIABLE part

\* One key; the other key; both with one that cannot verify; one with a secret.
PublishedSets ==
    LET key(k, c) == [kid |-> k, class |-> c]
    IN  {{key(k1, "signing")}, {key(k2, "signing"), key(k1, "other")},
         {key(k1, "signing"), key(k2, "secret")}, {}}

\* The planes come up while the first commands are made; a console with the closure secret
\* has an approver key, usable or not.
MCInit ==
    /\ Init /\ JwksInit /\ CommandsInit
    /\ part \in {"signin", "jwks", "commands"}
    /\ part # "jwks" => idp = {}
    /\ ready = {} /\ (secret <=> approver # "none")
    /\ part # "commands" => ~secret

\* At most one of the attempts is cut short: by a failed write, a death or its browser.
OneCutShort == Cardinality(unwritten' \cup hungUp' \cup cut') <= 1 /\ ends' + Cardinality(hungUp') <= 1

MCNext ==
    \/ part = "signin" /\ Next /\ UNCHANGED <<jwksVars, commandVars, part>>
    \/ part = "jwks" /\ JwksNext /\ UNCHANGED <<vars, commandVars, part>>
    \/ part = "commands" /\ CommandsNext /\ OneCutShort /\ UNCHANGED <<vars, jwksVars, part>>

MCSpec == MCInit /\ [][MCNext]_<<vars, jwksVars, commandVars, part>>

Symmetric == Permutations(Login) \cup Permutations(Finder) \cup Permutations(Attempt)
=============================================================================
