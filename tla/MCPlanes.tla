------------------------------ MODULE MCPlanes ------------------------------
(***************************************************************************)
(* Instances of the components that own something outside the console: the  *)
(* tunnel's peers (WgPeers), the tunnel and the tail of a box (RemotePlane),*)
(* the scoped memory servers (MemoryServers), the files and runs of the     *)
(* onboarding wizard (Onboarding) and the store's schema (StoreMigration).  *)
(* They share no state, so a behaviour is of one of them: `part` is chosen  *)
(* at the start and the state of the others stands still.                   *)
(***************************************************************************)
EXTENDS StoreMigration, WgPeers, MemoryServers, RemotePlane, Onboarding, TLC

CONSTANTS a1, a2, a3, j1, j2, j3, w1, w2

VARIABLE part

\* Two agents' paths flatten to one file name.
Flattened == (a1 :> "f1") @@ (a2 :> "f1") @@ (a3 :> "f2")

\* The parts that are not chosen start in one of their initial states.
Still ==
    /\ part # "wg" => deploy = [socket |-> "path", pinned |-> FALSE, host |-> TRUE,
                                daemon |-> TRUE, wg |-> TRUE, bus |-> TRUE]
    /\ part # "remote" => hasBinary
    /\ part \notin {"wizards", "baselines"} => mapState = "good"
    /\ part # "store" => userVersion = SchemaVersion

MCInit ==
    /\ WgInit /\ RemoteInit /\ MemoryInit /\ OnboardInit /\ StoreInit
    /\ part \in {"wg", "remote", "memory", "wizards", "baselines", "store"} /\ Still

InOnboarding == UNCHANGED <<wgState, remoteVars, memoryVars, storeVars, part>>

\* Commands differ in nothing but what they do, and so do wizards: they begin in one order.
InOrder == /\ job[j2].at # "new" => job[j1].at # "new"
           /\ job[j3].at # "new" => job[j2].at # "new"
           /\ wizard[w2] # "idle" => wizard[w1] # "idle"

MCNext ==
    \/ /\ part = "wg" /\ WgNext
       /\ UNCHANGED <<remoteVars, memoryVars, onboardVars, storeVars, part>> /\ InOrder'
    \/ /\ part = "remote" /\ RemoteNext
       /\ UNCHANGED <<wgState, memoryVars, onboardVars, storeVars, part>>
    \/ /\ part = "memory" /\ MemoryNext
       /\ UNCHANGED <<wgState, remoteVars, onboardVars, storeVars, part>>
    \/ part = "wizards" /\ (WizardStep \/ Lose) /\ InOnboarding /\ InOrder'
    \/ part = "baselines" /\ (BaselineStep \/ Lose) /\ InOnboarding
    \/ /\ part = "store" /\ StoreNext
       /\ UNCHANGED <<wgState, remoteVars, memoryVars, onboardVars, part>>

MCSpec ==
    MCInit /\ [][MCNext]_<<wgState, remoteVars, memoryVars, onboardVars, storeVars, part>>

Symmetric == Permutations(Read) \cup Permutations(Scope)
=============================================================================
