--------------------------- MODULE MCPasskeyGate ---------------------------
(***************************************************************************)
(* Instances of PasskeyGate for TLC, in three scenes over one set of        *)
(* variables:                                                               *)
(*   "binding"   two users with a key each, two commands, proofs presented  *)
(*               out of place, late and twice;                              *)
(*   "removals"  two removals of one user's two keys, by assertion or by    *)
(*               password, with a failed write;                             *)
(*   "enrolment" a key is removed, another enrolled, the process dies and a *)
(*               write of passkeys.json fails or is torn.                   *)
(***************************************************************************)
EXTENDS PasskeyGate, TLC, FiniteSets

CONSTANTS alice, bob, key1, key2, kill, freeze

VARIABLE scene

TwoUsers  == (alice :> {key1}) @@ (bob :> {key2})
Symmetric == Permutations(Challenge) \cup Permutations(Request)

Binding == INSTANCE PasskeyGate WITH
    Kinds <- {"command"}, MaxCrashes <- 0, MaxFaults <- 0, TornWrites <- FALSE

Removals == INSTANCE PasskeyGate WITH
    User <- {alice}, Command <- {kill}, Kinds <- {"remove"},
    InitialKeys <- (alice :> {key1, key2}) @@ (bob :> {}),
    MaxCrashes <- 0, TornWrites <- FALSE

Enrolment == INSTANCE PasskeyGate WITH
    User <- {alice}, Command <- {kill},
    InitialKeys <- (alice :> {key1}) @@ (bob :> {}), RequirePasskey <- FALSE

\* At most so many requests are sent and challenges minted.
Within(requests, challenges) ==
    /\ Cardinality({r \in Request : pc'[r] # "idle"}) <= requests
    /\ Cardinality({c \in Challenge : minted'[c] # None}) <= challenges

ScenesInit ==
    \/ scene = "binding" /\ Binding!Init
    \/ scene = "removals" /\ Removals!Init
    \/ scene = "enrolment" /\ Enrolment!Init

ScenesNext ==
    /\ UNCHANGED scene
    /\ \/ scene = "binding" /\ Binding!Next /\ Within(2, 2)
       \/ scene = "removals" /\ Removals!Next /\ Within(2, 2)
       \/ scene = "enrolment" /\ process # "down" /\ Enrolment!Next /\ Within(3, 1)
       \/ scene = "enrolment" /\ Restart

ScenesSpec == ScenesInit /\ [][ScenesNext]_<<vars, scene>>
=============================================================================
