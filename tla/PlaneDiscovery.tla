--------------------------- MODULE PlaneDiscovery ---------------------------
(***************************************************************************)
(* How the console finds and connects its planes: every plane's env.rs     *)
(* scans the same directory of `taipan up` descriptors on its own, newest  *)
(* first, and takes the first one it can use; its state.rs then probes     *)
(* what it found once, under a deadline, and Ctx::resolve swaps the result *)
(* in.  The planes resolve concurrently, with each other and with a        *)
(* `taipan up` that is still writing its descriptor and its keys.          *)
(***************************************************************************)
EXTENDS Naturals, FiniteSets

CONSTANTS Plane,        \* the planes of this instance, of DOMAIN Service
          Env,          \* environment names
          MaxChanges,   \* steps of `taipan up` and `taipan down`
          MaxStarts     \* starts of the console

VARIABLES disk,         \* descriptors: when made, whole, keyed, what they serve
          byHand,       \* planes whose environment variables are set
          wellKnown,    \* planes whose store lies at its fixed path under HOME
          found,        \* what each plane resolved
          settled,      \* each plane's progress
          journaled,    \* environments whose console.ndjson has been created
          loads,        \* environments whose console.ndjson the Agent-BOM loads
          bom,          \* the last Agent-BOM
          quiet,        \* history: the descriptors have not changed since start
          changes, starts

discoveryVars == <<disk, byHand, wellKnown, found, settled, journaled, loads, bom,
                   quiet, changes, starts>>

NoEnv == "none"
Hand == "by hand"
Fixed == "well known"

(* The descriptor entry each plane looks for; evidence takes any descriptor,
   crypto and remote look for none. *)
Service == [money |-> "cloud", policy |-> "wardryx", identity |-> "idryx",
            credentials |-> "gateway", admission |-> "gateway",
            drills |-> "gateway", quality |-> "verdryx", memory |-> "engram",
            bus |-> "events"]

Offered == {Service[p] : p \in Plane \cap DOMAIN Service}

Absent == [made |-> 0, whole |-> FALSE, keyed |-> FALSE, serves |-> {}]

(* try_load_descriptor, plane by plane: parsed, with the plane's entry, and
   with what that plane cannot do without. *)
Entry(e, service) == disk[e].whole /\ service \in disk[e].serves
MoneyEnv(e) == Entry(e, "cloud") /\ disk[e].keyed
PolicyEnv(e) == Entry(e, "wardryx") /\ disk[e].keyed
IdentityEnv(e) == Entry(e, "idryx")
CredentialsEnv(e) == Entry(e, "gateway")
AdmissionEnv(e) == Entry(e, "gateway")
DrillsEnv(e) == Entry(e, "gateway")            \* its key is optional
QualityEnv(e) == Entry(e, "verdryx")           \* names a file that is there
MemoryEnv(e) == Entry(e, "engram")
BusEnv(e) == Entry(e, "events")
EvidenceEnv(e) == disk[e].whole                \* its name is enough

Usable(p, e) ==
    CASE p = "money" -> MoneyEnv(e)
      [] p = "policy" -> PolicyEnv(e)
      [] p = "identity" -> IdentityEnv(e)
      [] p = "credentials" -> CredentialsEnv(e)
      [] p = "admission" -> AdmissionEnv(e)
      [] p = "drills" -> DrillsEnv(e)
      [] p = "quality" -> QualityEnv(e)
      [] p = "memory" -> MemoryEnv(e)
      [] p = "bus" -> BusEnv(e)
      [] p = "evidence" -> EvidenceEnv(e)
      [] OTHER -> FALSE

(* env_fallback_from: the key, not the URL, opens it; a fixed path needs its
   file there. *)
WellKnownPlanes == {"quality", "memory", "crypto", "remote"}
MoneyByHand == "money" \in byHand
PolicyByHand == "policy" \in byHand
Fallback(p) ==
    IF p = "money" /\ MoneyByHand THEN Hand
    ELSE IF p = "policy" /\ PolicyByHand THEN Hand
    ELSE IF p \in wellKnown THEN Fixed
    ELSE NoEnv

(* discover_taipan_in, then the fallback. *)
Discovered(p) ==
    LET usable == {e \in Env : Usable(p, e)}
    IN  IF usable = {} THEN Fallback(p)
        ELSE CHOOSE e \in usable : \A f \in usable : disk[f].made <= disk[e].made

DiscoveryInit ==
    /\ \E old \in Env, serves \in SUBSET Offered :
           disk = [e \in Env |-> IF e = old /\ serves # {}
                               THEN [made |-> 1, whole |-> TRUE, keyed |-> TRUE,
                                     serves |-> serves]
                               ELSE Absent]
    /\ byHand \in SUBSET (Plane \cap {"money", "policy"})
    /\ wellKnown \in SUBSET (Plane \cap WellKnownPlanes)
    /\ found = [p \in Plane |-> NoEnv]
    /\ settled = [p \in Plane |-> "down"]
    /\ journaled = {} /\ loads = {} /\ bom = [loaded |-> {}, owed |-> {}]
    /\ quiet = TRUE /\ changes = 0 /\ starts = 0

(***************************************************************************)
(* External: taipan up writes the descriptor, then the keys.               *)
(***************************************************************************)
Taipan(e, descriptor) ==
    /\ changes < MaxChanges /\ changes' = changes + 1
    /\ disk' = [disk EXCEPT ![e] = descriptor]
    /\ quiet' = FALSE
    /\ UNCHANGED <<byHand, wellKnown, found, settled, journaled, loads, bom, starts>>

TaipanUp(e) ==
    /\ disk[e] = Absent
    /\ \E serves \in SUBSET Offered :
           Taipan(e, [made |-> changes + 2, whole |-> FALSE, keyed |-> FALSE,
                      serves |-> serves])

TaipanWrites(e) ==
    /\ disk[e] # Absent
    /\ IF disk[e].whole THEN ~disk[e].keyed /\ Taipan(e, [disk[e] EXCEPT !.keyed = TRUE])
       ELSE Taipan(e, [disk[e] EXCEPT !.whole = TRUE])

TaipanDown(e) == disk[e] # Absent /\ Taipan(e, Absent)

(***************************************************************************)
(* The console.                                                            *)
(***************************************************************************)
(* main resolves the bus first; Ctx::bootstrap leaves every other plane
   pending, and Ctx::resolve spawns each. *)
Start ==
    /\ starts < MaxStarts /\ starts' = starts + 1
    /\ found' = [p \in Plane |-> IF p = "bus" THEN Discovered(p) ELSE NoEnv]
    /\ settled' = [p \in Plane |-> IF p # "bus" THEN "bootstrapping"
                                   ELSE IF Discovered(p) = NoEnv THEN "no_environment"
                                   ELSE "ready"]
    /\ loads' = {} /\ quiet' = TRUE
    /\ UNCHANGED <<disk, byHand, wellKnown, journaled, bom, changes>>

(* What a plane's bootstrap may see of the far end: pairing, healthz,
   get_keys, opening a store, a handshake; the planes without one are ready
   once found. *)
MoneyProbe == {"ready", "unreachable", "hung"}
PolicyProbe == {"ready", "unreachable", "hung"}
IdentityProbe == {"ready", "unreachable", "hung"}
CredentialsProbe == {"ready", "unreachable", "hung"}
AdmissionProbe == {"ready", "unreachable", "hung"}
QualityProbe == {"ready", "unreachable"}
MemoryProbe == {"ready", "unreachable", "hung"}
Probe == [money |-> MoneyProbe, policy |-> PolicyProbe, identity |-> IdentityProbe,
          credentials |-> CredentialsProbe, admission |-> AdmissionProbe,
          quality |-> QualityProbe, memory |-> MemoryProbe]

(* Nothing found is NoEnvironment, except for evidence, whose sources may
   each be missing. *)
ReadyOnceFound == {"drills", "crypto", "remote", "bus", "evidence"}
Settle(p, e) ==
    IF e = NoEnv /\ p # "evidence" THEN "no_environment"
    ELSE IF p \in ReadyOnceFound THEN "ready" ELSE "connecting"

(* agent_bom_loads: the console's file, if it is there now; kept in the
   evidence plane's state for the life of the process. *)
BomFiles(e) == {e} \cap journaled
Loads(p, e) == IF p = "evidence" THEN BomFiles(e) ELSE loads

Discover(p) ==
    /\ settled[p] = "bootstrapping"
    /\ LET e == Discovered(p)
       IN  /\ found' = [found EXCEPT ![p] = e]
           /\ settled' = [settled EXCEPT ![p] = Settle(p, e)]
           /\ loads' = Loads(p, e)
    /\ UNCHANGED <<disk, byHand, wellKnown, journaled, bom, quiet, changes, starts>>

Connect(p) ==
    /\ settled[p] = "connecting"
    /\ \E outcome \in Probe[p] :
           settled' = [settled EXCEPT ![p] = outcome]
    /\ UNCHANGED <<disk, byHand, wellKnown, found, journaled, loads, bom, quiet,
                   changes, starts>>

\* Mutant: only the money plane gives up.
TimeOutPairing(p) ==
    /\ settled[p] = "hung" /\ p = "money"
    /\ settled' = [settled EXCEPT ![p] = "unreachable"]
    /\ UNCHANGED <<disk, byHand, wellKnown, found, journaled, loads, bom, quiet,
                   changes, starts>>

(* PAIRING_TIMEOUT, CONNECT_TIMEOUT, the handshake's deadline. *)
TimeOut(p) ==
    /\ settled[p] = "hung"
    /\ settled' = [settled EXCEPT ![p] = "unreachable"]
    /\ UNCHANGED <<disk, byHand, wellKnown, found, journaled, loads, bom, quiet,
                   changes, starts>>

(* A command journals into console.ndjson of the events directory the bus
   tails, and creates it. *)
Command ==
    /\ settled["bus"] = "ready"
    /\ journaled' = journaled \cup {found["bus"]}
    /\ UNCHANGED <<disk, byHand, wellKnown, found, settled, loads, bom, quiet,
                   changes, starts>>

(* evidence_build runs idryx agent-bom over the loads resolved at start. *)
BuildBom ==
    /\ settled["evidence"] = "ready"
    /\ bom' = [loaded |-> loads, owed |-> journaled \cap {found["bus"]}]
    /\ UNCHANGED <<disk, byHand, wellKnown, found, settled, journaled, loads, quiet,
                   changes, starts>>

Resolve(p) == Discover(p) \/ Connect(p) \/ TimeOut(p)
Resolving == \E p \in Plane : Resolve(p)

DiscoveryNext ==
    \/ \E e \in Env : TaipanUp(e) \/ TaipanWrites(e) \/ TaipanDown(e)
    \/ Start
    \/ Resolving
    \/ Command \/ BuildBom

DiscoverySpec == DiscoveryInit /\ [][DiscoveryNext]_discoveryVars

(* Each plane has a task of its own on the runtime, and its probe a deadline.
   The tasks end, so fairness to all of them together is fairness to each. *)
FairDiscoverySpec == DiscoverySpec /\ WF_discoveryVars(Resolving)

(***************************************************************************)
(* Properties.                                                             *)
(***************************************************************************)
\* The type of the state; a plane that is ready or was probed has something it
\* was found in.
DiscoveryTypeOK ==
    /\ found \in [Plane -> Env \cup {NoEnv, Hand, Fixed}]
    /\ settled \in [Plane -> {"down", "bootstrapping", "no_environment",
                              "connecting", "hung", "ready", "unreachable"}]
    /\ \A p \in Plane : settled[p] \in {"connecting", "hung", "ready", "unreachable"}
                        => found[p] # NoEnv \/ p = "evidence"
    /\ loads \cup journaled \subseteq Env

\* Over a directory that did not change since the console started, a plane is
\* on an older environment than another only when the newer one has no entry
\* or no key for it: every env.rs sorts the same candidates the same way
\* (money/env.rs 117-121 and its siblings), whatever order the tasks ran in.
QuietPlanesFollowTheNewest ==
    quiet => \A p, q \in Plane :
        found[p] \in Env /\ found[q] \in Env
            => disk[found[p]].made >= disk[found[q]].made \/ ~Usable(p, found[q])

\* No plane of a started console is left connecting, also when what it found
\* accepts the connection and never answers: the deadline of its bootstrap
\* ends it (money/state.rs 176-212 and its siblings).
EveryPlaneSettles ==
    (\E p \in Plane : settled[p] \in {"bootstrapping", "connecting", "hung"})
        ~> \A p \in Plane : settled[p] \in {"no_environment", "ready", "unreachable"}

\* Discovery comes to an end for every plane, and what it ends on is the newest
\* environment that has something for the plane.
PlanesSettleOnTheNewest == []QuietPlanesFollowTheNewest /\ EveryPlaneSettles

\* Two planes are never both ready on two different environments
\* (core/src/taipan_home.rs 5-8).  It does not hold: each plane looks at the
\* directory when its own task runs, and takes the newest that serves it.
OneEnvironment ==
    \A p, q \in Plane :
        settled[p] = "ready" /\ settled[q] = "ready" /\ found[p] \in Env
            /\ found[q] \in Env => found[p] = found[q]

\* An Agent-BOM loads the console's own file once a command has created it
\* (evidence/env.rs 252-256).  It does not hold: the loads are resolved at
\* start, before the first command creates the file.
BomHoldsOwnActions == bom.owed \subseteq bom.loaded
=============================================================================
