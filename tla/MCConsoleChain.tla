--------------------------- MODULE MCConsoleChain ---------------------------
(***************************************************************************)
(* Two instances of ConsoleChain in one run; a behaviour is of one of them  *)
(* and the variables of the other stand still.  In "restart" the file is    *)
(* the console's own and a failed write leaves nothing behind; in "chaos"   *)
(* writes are torn, the tail is unreadable, another producer appends and    *)
(* stack-up truncates.  The justified calls are interchangeable; the        *)
(* unjustified one is kept apart.                                           *)
(***************************************************************************)
EXTENDS ConsoleChain, TLC

VARIABLES scene, file2, frag2, rows2, sink2, next2, pc2,
          foreigns2, truncates2, crashes2, faults2

CallSymmetry == Permutations(Call \ Unjustified)

Chaos == INSTANCE ConsoleChain WITH
    Unjustified <- {}, MaxForeign <- 1, MaxTruncate <- 1,
    FaultKinds <- {"write", "torn", "unterminated", "unreadable"},
    file <- file2, frag <- frag2, rows <- rows2, sink <- sink2, next <- next2, pc <- pc2,
    foreigns <- foreigns2, truncates <- truncates2, crashes <- crashes2, faults <- faults2

vars2 == <<file2, frag2, rows2, sink2, next2, pc2, foreigns2, truncates2, crashes2, faults2>>

ScenesInit == Init /\ Chaos!Init /\ scene \in {"restart", "chaos"}

ScenesNext ==
    \/ scene = "restart" /\ Next /\ UNCHANGED <<scene, vars2>>
    \/ scene = "chaos" /\ Chaos!Next /\ UNCHANGED <<scene, vars>>

ScenesSpec == ScenesInit /\ [][ScenesNext]_<<scene, vars, vars2>>

\* The chain never forks, whatever is done to the file: NoFork of ConsoleChain under
\* torn writes, an unreadable tail, another producer, a truncation and restarts.
NeverForks == NoFork /\ Chaos!NoFork
=============================================================================
