---------------------------- MODULE PlanesProofs ----------------------------
(***************************************************************************)
(* Proofs about what the console owns outside itself: the schema of its    *)
(* store (StoreMigration), for any number of deaths; the devices of its    *)
(* WireGuard server (WgPeers), for any commands, any subnet, any number of *)
(* failed exchanges and restarts; its memory servers (MemoryServers), for  *)
(* any reads and scopes, any size of the pool and any clock; its way out   *)
(* to a remote box (RemotePlane), for any calls and environments; and what *)
(* the onboarding wizards stage and commit (Onboarding), for any sessions, *)
(* agents and baselines.                                                   *)
(***************************************************************************)
EXTENDS StoreMigration, WgPeers, MemoryServers, RemotePlane, Onboarding, FiniteSetTheorems, TLAPS

-----------------------------------------------------------------------------
(***************************************************************************)
(* StoreMigration: the statements and what they leave.                     *)
(***************************************************************************)
Made(i) == Migrations[i].makes
Rollup  == "rollup_spend_1m"
\* All statements but the last, which drops the rollup.
Making  == 1..(Last - 1)

StoreTypeOK ==
    /\ userVersion \in 0..SchemaVersion /\ current \in 0..SchemaVersion
    /\ at \in 0..(Last + 1)
    /\ bus \in {"none", "up", "mock"}
    /\ objects \subseteq {Made(i) : i \in Making}

\* What the version claims is there, the rollup aside; at the last version nothing else is.
VersionIsMade ==
    /\ Schema(userVersion) \ {Rollup} \subseteq objects
    /\ userVersion = SchemaVersion => objects = Needed
    /\ bus = "up" => userVersion = SchemaVersion

\* A process that is migrating read the version that is on disk, and whatever a statement
\* before its own makes is there, made by itself or by the store's past.
RunIsMade ==
    at > 0 =>
        /\ bus = "none" /\ current = userVersion
        /\ \A i \in Making : i < at => Made(i) \in objects \cup {Rollup}
        /\ at = Last + 1 => Rollup \notin objects

StoreInv == StoreTypeOK /\ VersionIsMade /\ RunIsMade

\* The statements: only the last is of version 7.
LEMMA Statements15 ==
    /\ Last = 15
    /\ \A i \in 1..Last : /\ Migrations[i].gate \in 1..7
                          /\ Migrations[i].gate = 7 <=> i = Last
  <1>1. Last = 15
    BY DEF Last, Migrations
  <1>2. \A i \in 1..15 : \/ i = 1 \/ i = 2 \/ i = 3 \/ i = 4 \/ i = 5 \/ i = 6 \/ i = 7 \/ i = 8
                        \/ i = 9 \/ i = 10 \/ i = 11 \/ i = 12 \/ i = 13 \/ i = 14 \/ i = 15
    OBVIOUS
  <1>3. /\ Migrations[1].gate = 1 /\ Migrations[2].gate = 1 /\ Migrations[3].gate = 1
        /\ Migrations[4].gate = 1 /\ Migrations[5].gate = 1 /\ Migrations[6].gate = 2
        /\ Migrations[7].gate = 2 /\ Migrations[8].gate = 3 /\ Migrations[9].gate = 3
        /\ Migrations[10].gate = 3 /\ Migrations[11].gate = 3 /\ Migrations[12].gate = 4
        /\ Migrations[13].gate = 5 /\ Migrations[14].gate = 6 /\ Migrations[15].gate = 7
    BY DEF Migrations, Make, Add
  <1>4. QED
    BY <1>1, <1>2, <1>3

LEMMA NeededIsMade == Needed = {Made(i) : i \in Making} \ {Rollup}
  <1>1. \A i \in Making : Migrations[i].gate <= 7
    BY Statements15 DEF Making
  <1>2. QED
    BY <1>1 DEF Needed, Schema, SchemaVersion, Made, Making, Rollup

LEMMA SchemaIsMade ==
    ASSUME NEW v \in 0..SchemaVersion
    PROVE  /\ Schema(v) \subseteq {Made(i) : i \in Making}
           /\ \A i \in Making : Migrations[i].gate <= v => Made(i) \in Schema(v) \cup {Rollup}
  BY DEF Schema, Made, Making, Rollup

LEMMA StoreStarts ==
    ASSUME StoreInit
    PROVE  StoreInv
  <1>1. Schema(userVersion) \subseteq {Made(i) : i \in Making}
    BY SchemaIsMade DEF StoreInit
  <1>2. StoreTypeOK
    BY <1>1, Statements15 DEF StoreInit, StoreTypeOK, SchemaVersion
  <1>3. VersionIsMade /\ RunIsMade
    BY DEF StoreInit, VersionIsMade, RunIsMade, Needed
  <1>4. QED
    BY <1>2, <1>3 DEF StoreInv

\* One statement: it makes what it makes unless the store's past did.
LEMMA StepKeeps ==
    ASSUME StoreInv, Step
    PROVE  StoreInv'
  <1>1. /\ at \in 1..Last /\ at' = at + 1 /\ UNCHANGED <<userVersion, current, bus>>
        /\ objects' = IF Skipped(at) THEN objects ELSE Effect(at)
    BY DEF Step
  <1>2. Last = 15 /\ (Migrations[at].gate = 7 <=> at = Last)
    BY <1>1, Statements15
  <1>3. /\ bus = "none" /\ current = userVersion
        /\ \A i \in Making : i < at => Made(i) \in objects \cup {Rollup}
    BY <1>1 DEF StoreInv, RunIsMade
  <1>4. CASE Skipped(at)
    <2>1. objects' = objects
      BY <1>1, <1>4
    <2>2. StoreTypeOK'
      BY <1>1, <1>2, <2>1 DEF StoreInv, StoreTypeOK, Made
    <2>3. VersionIsMade'
      BY <1>1, <2>1 DEF StoreInv, VersionIsMade
    <2>4. at \in Making => Made(at) \in objects \cup {Rollup}
      <3>1. at \in Making => Made(at) \in Schema(userVersion) \cup {Rollup}
        BY <1>3, <1>4, SchemaIsMade DEF Skipped, StoreInv, StoreTypeOK, Making
      <3>2. QED
        BY <3>1 DEF StoreInv, VersionIsMade
    <2>5. at = Last => Rollup \notin objects
      <3>1. SUFFICES ASSUME at = Last
                     PROVE  objects = Needed
        BY NeededIsMade
      <3>2. userVersion = SchemaVersion
        BY <1>2, <1>3, <1>4, <3>1 DEF Skipped, StoreInv, StoreTypeOK, SchemaVersion
      <3>3. QED
        BY <3>2 DEF StoreInv, VersionIsMade
    <2>6. RunIsMade'
      BY <1>1, <1>2, <1>3, <2>1, <2>4, <2>5 DEF RunIsMade, Making
    <2>7. QED
      BY <2>2, <2>3, <2>6 DEF StoreInv
  <1>5. CASE ~Skipped(at)
    <2>1. objects' = IF at = Last THEN objects \ {Rollup} ELSE objects \cup {Made(at)}
      BY <1>1, <1>2, <1>5 DEF Effect, Made, Rollup
    <2>2. userVersion # SchemaVersion
      BY <1>1, <1>2, <1>3, <1>5, Statements15 DEF Skipped, SchemaVersion
    <2>3. at # Last => at \in Making
      BY <1>1, <1>2 DEF Making
    <2>4. StoreTypeOK'
      BY <1>1, <1>2, <2>1, <2>3 DEF StoreInv, StoreTypeOK, Made
    <2>5. VersionIsMade'
      BY <1>1, <1>3, <2>1, <2>2 DEF StoreInv, VersionIsMade
    <2>6. RunIsMade'
      BY <1>1, <1>2, <1>3, <2>1 DEF RunIsMade, Making
    <2>7. QED
      BY <2>4, <2>5, <2>6 DEF StoreInv
  <1>6. QED
    BY <1>4, <1>5

\* The version is written when every statement has run.
LEMMA SetVersionKeeps ==
    ASSUME StoreInv, SetVersion
    PROVE  StoreInv'
  <1>1. /\ at = Last + 1 /\ Last = 15 /\ userVersion' = SchemaVersion /\ at' = 0 /\ bus' = "up"
        /\ UNCHANGED <<objects, current>>
    BY Statements15 DEF SetVersion
  <1>2. objects = Needed
    <2>1. \A i \in Making : Made(i) \in objects \cup {Rollup}
      BY <1>1 DEF StoreInv, RunIsMade, Making
    <2>2. Rollup \notin objects /\ objects \subseteq {Made(i) : i \in Making}
      BY <1>1 DEF StoreInv, RunIsMade, StoreTypeOK
    <2>3. QED
      BY <2>1, <2>2, NeededIsMade
  <1>3. StoreTypeOK'
    BY <1>1 DEF StoreInv, StoreTypeOK, SchemaVersion, Made
  <1>4. VersionIsMade' /\ RunIsMade'
    BY <1>1, <1>2 DEF VersionIsMade, RunIsMade, Needed
  <1>5. QED
    BY <1>3, <1>4 DEF StoreInv

LEMMA StoreStep ==
    ASSUME StoreInv, [StoreNext]_storeVars
    PROVE  StoreInv'
  <1>1. Last = 15
    BY Statements15
  <1>2. CASE Open
    BY <1>1, <1>2 DEF Open, StoreInv, StoreTypeOK, VersionIsMade, RunIsMade, Making
  <1>3. CASE Step
    BY <1>3, StepKeeps
  <1>4. CASE SetVersion
    BY <1>4, SetVersionKeeps
  <1>5. CASE Fail \/ Die
    BY <1>1, <1>5 DEF Fail, Die, StoreInv, StoreTypeOK, VersionIsMade, RunIsMade
  <1>6. CASE Relaunch
    BY <1>6 DEF Relaunch, StoreInv, StoreTypeOK, VersionIsMade, RunIsMade
  <1>7. CASE UNCHANGED storeVars
    BY <1>7 DEF storeVars, StoreInv, StoreTypeOK, VersionIsMade, RunIsMade
  <1>8. QED
    BY <1>2, <1>3, <1>4, <1>5, <1>6, <1>7 DEF StoreNext, Migrate

\* The version on disk never claims more than the file holds, for any number of deaths
\* between any two statements (store.rs: migrate).
THEOREM VersionMeansSchemaHolds == StoreSpec => []VersionMeansSchema
  <1>1. StoreInit => StoreInv
    BY StoreStarts
  <1>2. StoreInv /\ [StoreNext]_storeVars => StoreInv'
    BY StoreStep
  <1>3. StoreInv => VersionMeansSchema
    BY DEF StoreInv, VersionIsMade, VersionMeansSchema, Rollup
  <1>4. QED
    BY <1>1, <1>2, <1>3, PTL DEF StoreSpec

-----------------------------------------------------------------------------
(***************************************************************************)
(* Numbers: a finite set of them has a least one.                          *)
(***************************************************************************)
LEMMA LeastOfFinite ==
    ASSUME NEW T, IsFiniteSet(T), T \subseteq Int, T # {}
    PROVE  \E x \in T : \A y \in T : x <= y
  <1> DEFINE Below(x) == {y \in T : y < x}
             Belows == {Below(x) : x \in T}
             R == StrictSubsetOrdering(T)
  <1>1. Belows \subseteq FiniteSubsetsOf(T)
    <2>1. ASSUME NEW x \in T
          PROVE  Below(x) \subseteq T /\ IsFiniteSet(Below(x))
      BY FS_Subset
    <2>2. QED
      BY <2>1 DEF FiniteSubsetsOf
  <1>2. Belows # {}
    OBVIOUS
  <1>3. IsWellFoundedOn(R, FiniteSubsetsOf(T))
    BY FS_StrictSubsetOrderingWellFounded
  <1> HIDE DEF Belows, R
  <1>4. PICK b \in Belows : \A c \in Belows : ~(<<c, b>> \in R)
    BY <1>1, <1>2, <1>3, WFMin
  <1>5. PICK x \in T : b = Below(x)
    BY <1>4 DEF Belows
  <1>6. ASSUME NEW y \in T, y < x
        PROVE  FALSE
    <2>1. Below(y) \in Belows
      BY DEF Belows
    <2>2. Below(y) \subseteq Below(x) /\ y \in Below(x) /\ y \notin Below(y)
      <3>1. x \in Int /\ y \in Int
        OBVIOUS
      <3>2. ASSUME NEW z \in T, z < y
            PROVE  z < x
        <4>1. z \in Int
          OBVIOUS
        <4>2. QED
          BY <1>6, <3>1, <3>2, <4>1
      <3>3. ~(y < y)
        BY <3>1
      <3>4. QED
        BY <1>6, <3>2, <3>3
    <2>3. <<Below(y), b>> \in R
      <3> DEFINE p == <<Below(y), Below(x)>>
      <3>1. p \in (SUBSET T) \X (SUBSET T) /\ p[1] = Below(y) /\ p[2] = Below(x)
        OBVIOUS
      <3>2. Below(y) # Below(x)
        BY <2>2
      <3> HIDE DEF p, Below
      <3>3. p \in R
        BY <2>2, <3>1, <3>2 DEF R, StrictSubsetOrdering
      <3>4. QED
        BY <1>5, <3>3 DEF p
    <2>4. QED
      BY <1>4, <2>1, <2>3
  <1>7. QED
    BY <1>6

-----------------------------------------------------------------------------
(***************************************************************************)
(* WgPeers: what every command, the tunnel and the file agree on.          *)
(***************************************************************************)
\* A command; what it saw is addresses for an issue and keys for a revoke.
IsJob(r) ==
    /\ r = [op |-> r.op, at |-> r.at, seen |-> r.seen, host |-> r.host, key |-> r.key]
    /\ r.op \in {"none", "issue", "revoke"}
    /\ r.at \in {"new", "read", "added", "removed", "over"}
    /\ r.host \in Host \cup {NoHost}
Told  == {"none", "misconfigured", "server_not_configured", "subnet_exhausted", "exec",
          "issued", "revoked"}

\* Peers, in the tunnel or in its file: an address each, none twice.
Addresses(f) ==
    /\ f = [k \in DOMAIN f |-> f[k]] /\ DOMAIN f \subseteq Key
    /\ \A k \in DOMAIN f : f[k] \in Host \cup {NoHost}
    /\ \A k, l \in DOMAIN f : k # l => f[k] = NoHost \/ f[k] # f[l]

\* How far a command is, and what it may have been answered by then.
JobsAreInOrder ==
    /\ job = [j \in Job |-> job[j]] /\ told \in [Job -> Told]
    /\ \A j \in Job :
         /\ IsJob(job[j])
         /\ told[j] # "none" => job[j].at = "over"
         /\ job[j].op = "none" => job[j].at \in {"new", "over"}
         /\ job[j].op = "issue" => job[j].at \in {"read", "added", "over"} /\ deploy.host
         /\ job[j].op = "revoke" => job[j].at \in {"read", "removed", "over"} /\ job[j].key \in Key
         /\ told[j] = "issued" => job[j].op = "issue"
         /\ told[j] = "revoked" => job[j].op = "revoke"

\* The device has its config, or is about to.
Granted(j) == job[j].op = "issue" /\ (job[j].at = "added" \/ told[j] = "issued")
Reading(j) == job[j].op = "issue" /\ job[j].at = "read"
Excused    == Removing \cup overtaken \cup shed

\* A granted device is in the tunnel under its address, and whoever is choosing an
\* address has read it there.
GrantsStand ==
    /\ \A j \in Job : Granted(j) /\ j \notin Excused =>
         /\ j \in Live /\ peer[j] = job[j].host /\ job[j].host # NoHost
         /\ \A i \in Job : Reading(i) => job[j].host \in job[i].seen
    /\ \A i, j \in Job : i # j /\ Reading(i) /\ Reading(j) => i \in overtaken /\ j \in overtaken

\* A revoke is of a key whose issue has read the list long ago; once it is removed only a
\* restart brings it back.
RevokesStand ==
    \A j \in Job : job[j].op = "revoke" =>
        /\ job[job[j].key].op = "issue" /\ job[job[j].key].at # "read"
        /\ (job[j].at = "removed" \/ told[j] = "revoked") /\ job[j].key \notin shed
             => job[j].key \notin Live

\* Only an issue that passed every check is in the tunnel or in its file.
OnlyIssued ==
    \A k \in Live \cup DOMAIN kept :
        job[k].op = "issue" /\ job[k].at # "read" /\ told[k] \in {"none", "exec", "issued"}

RowsStand ==
    /\ \A k \in Key : <<"issue", k>> \in Recorded <=> told[k] = "issued"
    /\ \A k \in Key : Granted(k) /\ k \notin Live \cup shed =>
         \/ <<"revoke", k>> \in Recorded
         \/ \E j \in Job : job[j].op = "revoke" /\ job[j].key = k /\ told[j] \in Unrecorded

WgInv ==
    /\ deploy \in Deployment
    /\ Addresses(peer) /\ Addresses(kept)
    /\ JobsAreInOrder
    /\ GrantsStand
    /\ RevokesStand
    /\ OnlyIssued
    /\ RowsStand

-----------------------------------------------------------------------------
(***************************************************************************)
(* What a step of one command changes.                                     *)
(***************************************************************************)
\* Command j becomes r and its caller is answered v; the others are as they were.
Becomes(j, r, v) ==
    /\ IsJob(r) /\ v \in Told
    /\ \A i \in Job : job'[i] = IF i = j THEN r ELSE job[i]
    /\ \A i \in Job : told'[i] = IF i = j THEN v ELSE told[i]
    /\ job' = [i \in Job |-> job'[i]] /\ told' \in [Job -> Told]

Over(j) == [job[j] EXCEPT !.at = "over"]

LEMMA EndBecomes ==
    ASSUME JobsAreInOrder, NEW j \in Job, NEW v \in Told, End(j, v)
    PROVE  /\ Becomes(j, Over(j), v)
           /\ Over(j).op = job[j].op /\ Over(j).at = "over" /\ Over(j).seen = job[j].seen
           /\ Over(j).host = job[j].host /\ Over(j).key = job[j].key
  <1> DEFINE r == Over(j)
  <1>1. IsJob(job[j]) /\ job = [i \in Job |-> job[i]] /\ told \in [Job -> Told]
    BY DEF JobsAreInOrder
  <1>2. /\ r.op = job[j].op /\ r.at = "over" /\ r.seen = job[j].seen /\ r.host = job[j].host
        /\ r.key = job[j].key /\ IsJob(r)
    BY <1>1 DEF IsJob, Over
  <1>3. job' = [job EXCEPT ![j] = r] /\ told' = [told EXCEPT ![j] = v]
    BY <1>1 DEF End, Over
  <1> HIDE DEF r
  <1>4. Becomes(j, r, v)
    BY <1>1, <1>2, <1>3 DEF Becomes
  <1>5. QED
    BY <1>2, <1>4 DEF r

LEMMA MoveBecomes ==
    ASSUME JobsAreInOrder, NEW j \in Job, NEW r, IsJob(r), job' = [job EXCEPT ![j] = r],
           told' = told
    PROVE  Becomes(j, r, told[j])
  BY DEF JobsAreInOrder, Becomes

\* The order of the commands, after a step of one of them.
LEMMA OrderAfter ==
    ASSUME JobsAreInOrder, NEW j \in Job, NEW r, NEW v, Becomes(j, r, v), deploy' = deploy,
           v # "none" => r.at = "over",
           r.op = "none" => r.at \in {"new", "over"},
           r.op = "issue" => r.at \in {"read", "added", "over"} /\ deploy.host,
           r.op = "revoke" => r.at \in {"read", "removed", "over"} /\ r.key \in Key,
           v = "issued" => r.op = "issue",
           v = "revoked" => r.op = "revoke"
    PROVE  JobsAreInOrder'
  <1>1. \A i \in Job : IsJob(job'[i])
    BY DEF Becomes, JobsAreInOrder
  <1>2. QED
    BY <1>1 DEF JobsAreInOrder, Becomes, IsJob, Host

\* Once asked away, always asked away.
LEMMA RemovingIs ==
    ASSUME JobsAreInOrder
    PROVE  \A k : k \in Removing <=> \E j \in Job : job[j].op = "revoke" /\ job[j].key = k
  BY DEF Removing, JobsAreInOrder

LEMMA RemovingGrows ==
    ASSUME JobsAreInOrder, JobsAreInOrder', NEW j \in Job, NEW r, NEW v, Becomes(j, r, v),
           job[j].op # "none" => r.op = job[j].op /\ r.key = job[j].key
    PROVE  /\ Removing \subseteq Removing'
           /\ r.op = "revoke" => r.key \in Removing'
  <1>1. \A k : k \in Removing <=> \E i \in Job : job[i].op = "revoke" /\ job[i].key = k
    BY RemovingIs
  <1>2. \A k : k \in Removing' <=> \E i \in Job : job'[i].op = "revoke" /\ job'[i].key = k
    BY DEF Removing, JobsAreInOrder
  <1>3. QED
    BY <1>1, <1>2 DEF Becomes

\* Grants stand where none is new, those that stay lose nothing, and no command that reads
\* is new.
LEMMA GrantsKeep ==
    ASSUME GrantsStand, Excused \subseteq Excused', overtaken \subseteq overtaken',
           \A j \in Job : Granted(j)' /\ j \notin Excused' =>
               /\ Granted(j) /\ job'[j].host = job[j].host
               /\ j \in Live => j \in Live' /\ peer'[j] = peer[j],
           \A j \in Job : Reading(j)' => Reading(j) /\ job'[j].seen = job[j].seen
    PROVE  GrantsStand'
  <1>1. ASSUME NEW j \in Job, Granted(j)', j \notin Excused'
        PROVE  /\ j \in Live' /\ peer'[j] = job'[j].host /\ job'[j].host # NoHost
               /\ \A i \in Job : Reading(i)' => job'[j].host \in job'[i].seen
    BY <1>1 DEF GrantsStand
  <1>2. \A i, j \in Job : i # j /\ Reading(i)' /\ Reading(j)' => i \in overtaken' /\ j \in overtaken'
    BY DEF GrantsStand
  <1>3. QED
    BY <1>1, <1>2 DEF GrantsStand

LEMMA RevokesKeep ==
    ASSUME JobsAreInOrder, RevokesStand,
           \A j \in Job : job'[j].op = "revoke" =>
               /\ job[j].op = "revoke" /\ job'[j].key = job[j].key
               /\ job'[j].at = "removed" \/ told'[j] = "revoked" =>
                     job[j].at = "removed" \/ told[j] = "revoked",
           \A k \in Job : job[k].op = "issue" /\ job[k].at # "read" =>
               /\ job'[k].op = "issue" /\ job'[k].at # "read"
               /\ k \in Live' => k \in Live \cup shed',
           shed \subseteq shed'
    PROVE  RevokesStand'
  <1>1. \A j \in Job : job[j].op = "revoke" => job[j].key \in Job
    BY DEF JobsAreInOrder, Key
  <1>2. QED
    BY <1>1 DEF RevokesStand

LEMMA OnlyIssuedKeeps ==
    ASSUME OnlyIssued, JobsAreInOrder, Addresses(peer), Addresses(kept),
           Live' \cup DOMAIN kept' \subseteq Live \cup DOMAIN kept,
           \A k \in Job : job[k].op = "issue" /\ job[k].at # "read" =>
               /\ job'[k].op = "issue" /\ job'[k].at # "read"
               /\ told[k] \in {"none", "exec", "issued"} => told'[k] \in {"none", "exec", "issued"}
    PROVE  OnlyIssued'
  <1>1. Live \cup DOMAIN kept \subseteq Job
    BY DEF Addresses, Key, Live
  <1>2. QED
    BY <1>1 DEF OnlyIssued

LEMMA RowsKeep ==
    ASSUME RowsStand, UNCHANGED <<peerRows, stderr>>, shed \subseteq shed',
           \A k \in Job : told'[k] = "issued" <=> told[k] = "issued",
           \A k \in Job : Granted(k)' =>
               /\ Granted(k)
               /\ k \in Live =>
                    \/ k \in Live' \cup shed'
                    \/ \E j \in Job : /\ job'[j].op = "revoke" /\ job'[j].key = k
                                       /\ told'[j] \in Unrecorded,
           \A j \in Job : job[j].op = "revoke" =>
               /\ job'[j].op = "revoke" /\ job'[j].key = job[j].key
               /\ told[j] \in Unrecorded => told'[j] \in Unrecorded
    PROVE  RowsStand'
  <1>4. Recorded' = Recorded
    BY DEF Recorded
  <1>1. \A k \in Key : <<"issue", k>> \in Recorded' <=> told'[k] = "issued"
    BY <1>4 DEF RowsStand, Key
  <1>2. ASSUME NEW k \in Key, Granted(k)', k \notin Live' \cup shed', <<"revoke", k>> \notin Recorded
        PROVE  \E j \in Job : /\ job'[j].op = "revoke" /\ job'[j].key = k
                               /\ told'[j] \in Unrecorded
    <2>1. SUFFICES ASSUME k \notin Live
                   PROVE  \E j \in Job : /\ job'[j].op = "revoke" /\ job'[j].key = k
                                          /\ told'[j] \in Unrecorded
      BY <1>2 DEF Key
    <2>4. Granted(k) /\ k \notin Live \cup shed
      BY <1>2, <2>1 DEF Key
    <2>2. PICK j \in Job : job[j].op = "revoke" /\ job[j].key = k /\ told[j] \in Unrecorded
      BY <1>2, <2>4 DEF RowsStand
    <2>3. QED
      BY <2>2
  <1>3. QED
    BY <1>1, <1>2, <1>4 DEF RowsStand

\* List f is the daemon's after key k took address h: out of whoever had it.
TakenInto(f, k, h) ==
    /\ Addresses(f) /\ DOMAIN f = Live \cup {k} /\ f[k] = h
    /\ \A x \in Live : x # k => f[x] = IF peer[x] = h THEN NoHost ELSE peer[x]

\* The daemon's list after it took a peer: an address of its own, out of whoever had it.
LEMMA ClaimIs ==
    ASSUME Addresses(peer), NEW k \in Key, NEW h \in Host, NEW f, f = Claim(k, h)
    PROVE  TakenInto(f, k, h)
  <1>1. DOMAIN f = Live \cup {k}
    BY DEF Claim
  <1>2. \A x \in Live \cup {k} : f[x] = IF x = k THEN h ELSE IF peer[x] = h THEN NoHost ELSE peer[x]
    BY DEF Claim
  <1>3. f = [x \in DOMAIN f |-> f[x]]
    BY DEF Claim
  <1>4. ASSUME NEW x \in DOMAIN f, NEW y \in DOMAIN f, x # y, f[x] # NoHost
        PROVE  f[x] # f[y]
    BY <1>1, <1>2, <1>4 DEF Addresses, Live
  <1>5. h # NoHost /\ \A x \in Live : peer[x] \in Host \cup {NoHost}
    BY WgAssumption DEF Addresses, Live, Host, NoHost
  <1>6. \A x \in DOMAIN f : f[x] \in Host \cup {NoHost}
    BY <1>1, <1>2, <1>5
  <1>7. DOMAIN f \subseteq Key
    BY <1>1 DEF Addresses, Live
  <1>8. Addresses(f)
    BY <1>3, <1>4, <1>6, <1>7 DEF Addresses
  <1>9. QED
    BY <1>1, <1>2, <1>8 DEF TakenInto

LEMMA LeftIs ==
    ASSUME Addresses(peer), NEW k, NEW f, f = [x \in Live \ {k} |-> peer[x]]
    PROVE  Addresses(f) /\ DOMAIN f = Live \ {k} /\ \A x \in Live \ {k} : f[x] = peer[x]
  <1>1. DOMAIN f = Live \ {k} /\ \A x \in Live \ {k} : f[x] = peer[x]
    OBVIOUS
  <1>2. f = [x \in DOMAIN f |-> f[x]]
    OBVIOUS
  <1>3. QED
    BY <1>1, <1>2 DEF Addresses, Live

LEMMA SaveIs ==
    ASSUME NEW f, Save(f)
    PROVE  kept' \in {kept, f}
  BY DEF Save

\* An address that is chosen is one of the subnet nobody was listed with.
LEMMA NextFreeIsFree ==
    ASSUME NEW seen, NextFree(seen) # NoHost
    PROVE  NextFree(seen) \in Host \ seen
  <1> DEFINE left == Host \ seen
  <1>1. ~(Host \subseteq seen) /\ NextFree(seen) = Min(left)
    BY DEF NextFree
  <1>2. Host \subseteq Int /\ IsFiniteSet(Host)
    BY WgAssumption, FS_Interval DEF Host
  <1>3. IsFiniteSet(left) /\ left \subseteq Int /\ left # {}
    BY <1>1, <1>2, FS_Subset
  <1>4. \E x \in left : \A y \in left : x <= y
    BY <1>3, LeastOfFinite
  <1>5. Min(left) \in left
    BY <1>4 DEF Min
  <1>6. QED
    BY <1>1, <1>5

-----------------------------------------------------------------------------
(***************************************************************************)
(* What every command does to the story.                                   *)
(***************************************************************************)
LEMMA AddressesAfter == ASSUME Addresses(peer'), Addresses(kept') PROVE (Addresses(peer) /\ Addresses(kept))'
  BY DEF Addresses

\* A command that ends with an error and leaves the tunnel as it is.
LEMMA EndKeeps ==
    ASSUME WgInv, NEW j \in Job,
           NEW v \in {"misconfigured", "server_not_configured", "subnet_exhausted", "exec"},
           End(j, v), job[j].at # "over",
           \/ v = "exec"
           \/ job[j].op = "revoke" /\ v = "server_not_configured"
           \/ job[j].at = "new"
           \/ job[j].op = "issue" /\ job[j].at = "read",
           UNCHANGED <<deploy, peer, kept, peerRows, stderr, overtaken, shed>>
    PROVE  WgInv'
  <1> DEFINE r == Over(j)
  <1>1. /\ Becomes(j, r, v) /\ r.op = job[j].op /\ r.at = "over" /\ r.seen = job[j].seen
        /\ r.host = job[j].host /\ r.key = job[j].key
    BY EndBecomes DEF WgInv, Told
  <1> HIDE DEF r
  <1>2. JobsAreInOrder /\ told[j] = "none"
    BY DEF WgInv, JobsAreInOrder
  <1>3. JobsAreInOrder'
    BY <1>1, <1>2, OrderAfter DEF JobsAreInOrder
  <1>4. Removing \subseteq Removing' /\ Excused \subseteq Excused'
    BY <1>1, <1>2, <1>3, RemovingGrows DEF Excused
  <1>5. \A i \in Job : /\ Granted(i)' => Granted(i) /\ job'[i].host = job[i].host
                       /\ Reading(i)' => Reading(i) /\ job'[i].seen = job[i].seen
    BY <1>1, <1>2 DEF Granted, Reading, Becomes
  <1>6. GrantsStand'
    BY <1>4, <1>5, GrantsKeep DEF WgInv, Live
  <1>7. RevokesStand'
    BY <1>1, <1>2, RevokesKeep DEF WgInv, Live, Becomes
  <1>8. OnlyIssued'
    <2>1. \A k \in Job : job[k].op = "issue" /\ job[k].at # "read" =>
               /\ job'[k].op = "issue" /\ job'[k].at # "read"
               /\ told[k] \in {"none", "exec", "issued"} => told'[k] \in {"none", "exec", "issued"}
      BY <1>1, <1>2 DEF Becomes, JobsAreInOrder
    <2>2. QED
      BY <1>2, <2>1, OnlyIssuedKeeps DEF WgInv, Live
  <1>9. RowsStand'
    <2>1. \A i \in Job : job[i].op = "revoke" =>
               /\ job'[i].op = "revoke" /\ job'[i].key = job[i].key
               /\ told[i] \in Unrecorded => told'[i] \in Unrecorded
      BY <1>1, <1>2 DEF Becomes, JobsAreInOrder, Unrecorded
    <2>2. \A k \in Job : told'[k] = "issued" <=> told[k] = "issued"
      BY <1>1, <1>2 DEF Becomes
    <2>3. QED
      BY <1>2, <1>5, <2>1, <2>2, RowsKeep DEF WgInv, Live
  <1>10. (deploy \in Deployment)' /\ (Addresses(peer) /\ Addresses(kept))'
    BY AddressesAfter DEF WgInv, Deployment, Addresses
  <1>11. QED
    BY <1>3, <1>6, <1>7, <1>8, <1>9, <1>10 DEF WgInv

\* An issue that has just read the list: whoever is granted is on it.
LEMMA BeginIssueKeeps ==
    ASSUME WgInv, NEW j \in Job, BeginIssue(j)
    PROVE  WgInv'
  <1>1. CASE IssueRefusal # "none" /\ End(j, IssueRefusal) /\ UNCHANGED <<overtaken, broken>>
    <2>1. IssueRefusal \in {"misconfigured", "server_not_configured"}
      BY <1>1 DEF IssueRefusal, ResolveBackend, Backends
    <2>2. QED
      BY <1>1, <2>1, EndKeeps DEF BeginIssue
  <1>2. ASSUME NEW e \in ReadFailure, End(j, e), UNCHANGED overtaken PROVE WgInv'
    BY <1>2, EndKeeps DEF BeginIssue, ReadFailure
  <1>3. ASSUME IssueRefusal = "none",
               job' = [job EXCEPT ![j] = Reads("issue", Taken, j)],
               LET others == {i \in Job : job[i].op = "issue" /\ job[i].at = "read"}
               IN  overtaken' = overtaken \cup others \cup (IF others = {} THEN {} ELSE {j}),
               UNCHANGED told
        PROVE  WgInv'
    <2> DEFINE r == Reads("issue", Taken, j)
    <2>1. IsJob(r) /\ r.op = "issue" /\ r.at = "read" /\ r.seen = Taken /\ r.key = j
      BY DEF IsJob, Reads
    <2>2. job' = [job EXCEPT ![j] = r]
      BY <1>3
    <2> HIDE DEF r
    <2>15. JobsAreInOrder /\ job[j].at = "new"
      BY DEF WgInv, BeginIssue
    <2>3. /\ JobsAreInOrder /\ job[j].at = "new" /\ job[j].op = "none" /\ told[j] = "none"
          /\ deploy.host /\ UNCHANGED <<deploy, peer, kept, peerRows, stderr, shed, reboots>>
      <3>1. job[j].op = "none" /\ told[j] = "none"
        BY <2>15 DEF JobsAreInOrder, IsJob
      <3>2. deploy.host
        BY <1>3 DEF IssueRefusal, ResolveBackend, WgInv, Deployment
      <3>3. UNCHANGED <<deploy, peer, kept, peerRows, stderr, shed, reboots>>
        BY DEF BeginIssue
      <3>4. QED
        BY <2>15, <3>1, <3>2, <3>3
    <2>16. Becomes(j, r, told[j])
      BY <1>3, <2>1, <2>2, <2>15, MoveBecomes
    <2>4. Becomes(j, r, "none")
      BY <2>16, <2>3
    <2>5. JobsAreInOrder'
      BY <2>1, <2>3, <2>4, OrderAfter
    <2>6. Removing \subseteq Removing' /\ overtaken \subseteq overtaken' /\ Excused \subseteq Excused'
      BY <1>3, <2>1, <2>3, <2>4, <2>5, RemovingGrows DEF Excused
    <2>7. \A i \in Job : /\ Granted(i)' => Granted(i) /\ job'[i].host = job[i].host
                         /\ Reading(i)' /\ i # j => Reading(i) /\ job'[i].seen = job[i].seen
      BY <2>1, <2>3, <2>4 DEF Granted, Reading, Becomes
    <2>8. GrantsStand'
      <3>1. ASSUME NEW i \in Job, Granted(i)', i \notin Excused', NEW q \in Job
            PROVE  /\ i \in Live' /\ peer'[i] = job'[i].host /\ job'[i].host # NoHost
                   /\ Reading(q)' => job'[i].host \in job'[q].seen
        <4>1. /\ i \in Live /\ peer[i] = job[i].host /\ job[i].host # NoHost
              /\ job'[i].host = job[i].host
              /\ Reading(q) => job[i].host \in job[q].seen
          BY <2>6, <2>7, <3>1 DEF WgInv, GrantsStand
        <4>2. job[i].host \in Taken
          BY <4>1 DEF Taken
        <4>3. CASE q = j
          BY <2>1, <2>3, <2>4, <4>1, <4>2, <4>3 DEF Becomes, Live
        <4>4. CASE q # j
          BY <2>3, <2>7, <4>1, <4>4 DEF Live
        <4>5. QED
          BY <4>3, <4>4
      <3>2. ASSUME NEW i \in Job, NEW q \in Job, i # q, Reading(i)', Reading(q)'
            PROVE  i \in overtaken' /\ q \in overtaken'
        BY <1>3, <2>6, <2>7, <3>2 DEF WgInv, GrantsStand, Reading
      <3>3. QED
        BY <3>1, <3>2 DEF GrantsStand
    <2>9. RevokesStand'
      BY <2>1, <2>3, <2>4, RevokesKeep DEF WgInv, Live, Becomes
    <2>10. OnlyIssued'
      <3>1. \A k \in Job : job[k].op = "issue" /\ job[k].at # "read" =>
               /\ job'[k].op = "issue" /\ job'[k].at # "read"
               /\ told[k] \in {"none", "exec", "issued"} => told'[k] \in {"none", "exec", "issued"}
        BY <2>1, <2>3, <2>4 DEF Becomes
      <3>2. QED
        BY <2>3, <3>1, OnlyIssuedKeeps DEF WgInv, Live
    <2>11. RowsStand'
      <3>1. \A i \in Job : job[i].op = "revoke" =>
               /\ job'[i].op = "revoke" /\ job'[i].key = job[i].key
               /\ told[i] \in Unrecorded => told'[i] \in Unrecorded
        BY <2>3, <2>4 DEF Becomes
      <3>2. \A k \in Job : told'[k] = "issued" <=> told[k] = "issued"
        BY <1>3
      <3>3. QED
        BY <2>3, <2>7, <3>1, <3>2, RowsKeep DEF WgInv, Live
    <2>12. (deploy \in Deployment)' /\ (Addresses(peer) /\ Addresses(kept))'
      BY <2>3, AddressesAfter DEF WgInv, Deployment, Addresses
    <2>13. QED
      BY <2>5, <2>8, <2>9, <2>10, <2>11, <2>12 DEF WgInv
  <1>4. QED
    BY <1>1, <1>2, <1>3 DEF BeginIssue

\* The daemon takes the key of an issue that read the list: the address it chose belongs
\* to nobody it read, so it is taken from nobody who is granted.
LEMMA ClaimKeeps ==
    ASSUME WgInv, NEW j \in Job, NEW r, NEW v, NEW h \in Host,
           Reading(j), h \notin job[j].seen, h # NoHost,
           Becomes(j, r, v), r.op = "issue", r.key = job[j].key,
           \/ r.at = "added" /\ r.host = h /\ v = "none" /\ peer' = Claim(j, h)
           \/ r.at = "over" /\ v = "exec" /\ peer' \in {peer, Claim(j, h)},
           kept' \in {kept, peer'},
           UNCHANGED <<deploy, peerRows, stderr, overtaken, shed>>
    PROVE  WgInv'
  <1> DEFINE c == Claim(j, h)
  <1>15. c = Claim(j, h) /\ j \in Key /\ Addresses(peer)
    BY DEF WgInv, Key
  <1> HIDE DEF c
  <1>1. /\ Addresses(c) /\ DOMAIN c = Live \cup {j} /\ c[j] = h
        /\ \A x \in Live : x # j => c[x] = IF peer[x] = h THEN NoHost ELSE peer[x]
    <2>1. TakenInto(c, j, h)
      BY <1>15, ClaimIs, Zenon
    <2>2. QED
      BY <2>1 DEF TakenInto
  <1>2. /\ JobsAreInOrder /\ job[j].op = "issue" /\ job[j].at = "read" /\ told[j] = "none"
        /\ deploy.host /\ peer' \in {peer, c}
    BY DEF WgInv, JobsAreInOrder, Reading, c
  <1>3. JobsAreInOrder'
    BY <1>2, OrderAfter
  <1>4. Removing \subseteq Removing' /\ Excused \subseteq Excused'
    BY <1>2, <1>3, RemovingGrows DEF Excused
  <1>5. \A i \in Job : Reading(i)' => i # j /\ Reading(i) /\ job'[i].seen = job[i].seen
    BY <1>2 DEF Reading, Becomes
  <1>6. \A i \in Job : i # j /\ Granted(i)' => Granted(i) /\ job'[i].host = job[i].host
    BY <1>2 DEF Granted, Becomes
  <1>7. Addresses(peer') /\ Addresses(kept')
    BY <1>1, <1>2 DEF WgInv
  <1>8. Live \subseteq Live' /\ Live' \subseteq Live \cup {j}
    BY <1>1, <1>2 DEF Live
  <1>9. GrantsStand'
    <2>1. ASSUME NEW i \in Job, Granted(i)', i \notin Excused', i # j
          PROVE  /\ i \in Live' /\ peer'[i] = job'[i].host /\ job'[i].host # NoHost
                 /\ \A q \in Job : Reading(q)' => job'[i].host \in job'[q].seen
      <3>1. /\ i \in Live /\ peer[i] = job[i].host /\ job[i].host # NoHost
            /\ \A q \in Job : Reading(q) => job[i].host \in job[q].seen
        BY <1>4, <1>6, <2>1 DEF WgInv, GrantsStand
      <3>2. peer'[i] = peer[i]
        BY <1>1, <1>2, <2>1, <3>1
      <3>3. QED
        BY <1>5, <1>6, <1>8, <2>1, <3>1, <3>2
    <2>2. ASSUME Granted(j)', j \notin Excused'
          PROVE  /\ j \in Live' /\ peer'[j] = job'[j].host /\ job'[j].host # NoHost
                 /\ \A q \in Job : Reading(q)' => job'[j].host \in job'[q].seen
      <3>1. r.at = "added" /\ r.host = h /\ peer' = c /\ job'[j] = r
        BY <2>2 DEF Granted, Becomes, c
      <3>2. ASSUME NEW q \in Job, Reading(q)'
            PROVE  FALSE
        <4>1. j \in overtaken
          BY <1>5, <3>2 DEF WgInv, GrantsStand
        <4>2. QED
          BY <2>2, <4>1 DEF Excused
      <3>3. QED
        BY <1>1, <3>1, <3>2 DEF Live
    <2>3. \A i, q \in Job : i # q /\ Reading(i)' /\ Reading(q)' => i \in overtaken' /\ q \in overtaken'
      BY <1>5 DEF WgInv, GrantsStand
    <2>4. \A i \in Job : Granted(i)' /\ i \notin Excused' =>
                 /\ i \in Live' /\ peer'[i] = job'[i].host /\ job'[i].host # NoHost
                 /\ \A q \in Job : Reading(q)' => job'[i].host \in job'[q].seen
      BY <2>1, <2>2
    <2>5. QED
      BY <2>3, <2>4 DEF GrantsStand
  <1>10. RevokesStand'
    <2>1. \A i \in Job : job'[i].op = "revoke" =>
               /\ job[i].op = "revoke" /\ job'[i].key = job[i].key
               /\ job'[i].at = "removed" \/ told'[i] = "revoked" =>
                     job[i].at = "removed" \/ told[i] = "revoked"
      BY DEF Becomes
    <2>2. \A k \in Job : job[k].op = "issue" /\ job[k].at # "read" =>
               /\ job'[k].op = "issue" /\ job'[k].at # "read"
               /\ k \in Live' => k \in Live \cup shed'
      BY <1>2, <1>8 DEF Becomes
    <2>3. QED
      BY <1>2, <2>1, <2>2, RevokesKeep DEF WgInv
  <1>11. OnlyIssued'
    <2>1. \A k \in Live' \cup DOMAIN kept' : k = j \/ k \in Live \cup DOMAIN kept
      BY <1>8 DEF Live
    <2>2. job'[j] = r /\ told'[j] = v /\ \A k \in Job \ {j} : job'[k] = job[k] /\ told'[k] = told[k]
      BY DEF Becomes
    <2>3. \A k \in Live \cup DOMAIN kept : k \in Job
      BY DEF WgInv, Addresses, Key, Live
    <2>4. QED
      BY <2>1, <2>2, <2>3 DEF WgInv, OnlyIssued
  <1>12. RowsStand'
    <2>5. Recorded' = Recorded
      BY DEF Recorded
    <2>4. \A k \in Job : told'[k] = "issued" <=> told[k] = "issued"
      BY <1>2 DEF Becomes
    <2>1. \A k \in Key : <<"issue", k>> \in Recorded' <=> told'[k] = "issued"
      BY <2>4, <2>5 DEF WgInv, RowsStand, Key
    <2>2. ASSUME NEW k \in Key, Granted(k)', k \notin Live' \cup shed', <<"revoke", k>> \notin Recorded
          PROVE  \E i \in Job : job'[i].op = "revoke" /\ job'[i].key = k
                                  /\ told'[i] \in Unrecorded
      <3>1. k # j
        <4>1. Granted(j)' => j \in Live'
          BY <1>1 DEF Granted, Becomes, Live, c
        <4>2. QED
          BY <2>2, <4>1
      <3>2. Granted(k) /\ k \notin Live \cup shed
        BY <1>6, <1>8, <2>2, <3>1 DEF Key
      <3>3. PICK i \in Job : job[i].op = "revoke" /\ job[i].key = k /\ told[i] \in Unrecorded
        BY <2>2, <3>2 DEF WgInv, RowsStand
      <3>4. QED
        BY <1>2, <3>3 DEF Becomes
    <2>3. QED
      BY <2>1, <2>2, <2>5 DEF RowsStand
  <1>13. (deploy \in Deployment)' /\ (Addresses(peer) /\ Addresses(kept))'
    BY <1>7, AddressesAfter DEF WgInv, Deployment
  <1>14. QED
    BY <1>3, <1>9, <1>10, <1>11, <1>12, <1>13 DEF WgInv

LEMMA AuthorizeKeeps ==
    ASSUME WgInv, NEW j \in Job, Authorize(j)
    PROVE  WgInv'
  <1> DEFINE h == NextFree(job[j].seen)
             s == [job[j] EXCEPT !.at = "added", !.host = h]
  <1>1. JobsAreInOrder /\ Reading(j) /\ UNCHANGED <<deploy, peerRows, stderr, overtaken, shed>>
    BY DEF Authorize, WgInv, Reading
  <1>2. told[j] = "none" /\ told \in [Job -> Told] /\ job = [i \in Job |-> job[i]] /\ IsJob(job[j])
    BY <1>1 DEF JobsAreInOrder, Reading
  <1>3. h # NoHost => h \in Host /\ h \notin job[j].seen
    BY NextFreeIsFree
  <1>4. CASE h = NoHost /\ End(j, "subnet_exhausted") /\ UNCHANGED <<peer, kept, broken>>
    BY <1>1, <1>4, EndKeeps DEF Reading
  <1>5. CASE /\ h # NoHost /\ peer' = Claim(j, h)
             /\ job' = [job EXCEPT ![j].at = "added", ![j].host = h]
             /\ Save(peer') /\ UNCHANGED told
    <2>1. /\ s.op = "issue" /\ s.at = "added" /\ s.host = h /\ s.key = job[j].key /\ IsJob(s)
      <3> HIDE DEF h
      <3>1. PICK a, b, c, d, e : job[j] = [op |-> a, at |-> b, seen |-> c, host |-> d, key |-> e]
        BY <1>2 DEF IsJob
      <3> DEFINE t == [job[j] EXCEPT !.at = "added"]
      <3>5. t = [op |-> a, at |-> "added", seen |-> c, host |-> d, key |-> e]
        BY <3>1
      <3>6. s = [t EXCEPT !.host = h]
        OBVIOUS
      <3> HIDE DEF t, s
      <3>2. s = [op |-> a, at |-> "added", seen |-> c, host |-> h, key |-> e]
        BY <3>5, <3>6
      <3>3. a = "issue" /\ job[j].key = e
        BY <1>1, <3>1 DEF Reading
      <3>4. QED
        BY <1>3, <1>5, <3>2, <3>3 DEF IsJob
    <2>2. job' = [job EXCEPT ![j] = s]
      BY <1>2, <1>5
    <2> HIDE DEF s, h
    <2>3. Becomes(j, s, told[j])
      BY <1>1, <1>5, <2>1, <2>2, MoveBecomes
    <2>4. kept' \in {kept, peer'}
      BY <1>5, SaveIs
    <2>5. Becomes(j, s, "none")
      BY <1>2, <2>3
    <2>6. h \in Host /\ h \notin job[j].seen /\ h # NoHost /\ peer' = Claim(j, h)
      BY <1>3, <1>5
    <2>7. QED
      BY <1>1, <2>1, <2>4, <2>5, <2>6, ClaimKeeps
  <1>8. CASE End(j, "server_not_configured") /\ UNCHANGED <<peer, kept>>
    BY <1>1, <1>8, EndKeeps DEF Reading
  <1>6. CASE h # NoHost /\ End(j, "exec") /\ peer' \in {peer, Claim(j, h)} /\ UNCHANGED kept
    <2> DEFINE r == Over(j)
    <2>1. Becomes(j, r, "exec") /\ r.op = job[j].op /\ r.at = "over" /\ r.key = job[j].key
      BY <1>1, <1>6, EndBecomes DEF Told
    <2> HIDE DEF r, h
    <2>2. r.op = "issue" /\ kept' \in {kept, peer'}
      BY <1>1, <1>6, <2>1 DEF Reading
    <2>3. h \in Host /\ h \notin job[j].seen /\ h # NoHost /\ peer' \in {peer, Claim(j, h)}
      BY <1>3, <1>6
    <2>4. QED
      BY <1>1, <2>1, <2>2, <2>3, ClaimKeeps
  <1>7. QED
    BY <1>4, <1>5, <1>6, <1>8 DEF Authorize

\* What is recorded is in a row or on stderr.
LEMMA RecordPeerIs ==
    ASSUME NEW action, NEW k, RecordPeer(action, k)
    PROVE  Recorded' = Recorded \cup {<<action, k>>}
  BY DEF RecordPeer, Recorded

\* The config is handed over and recorded; an issue past its checks has its endpoint.
LEMMA HandOverKeeps ==
    ASSUME WgInv, NEW j \in Job, HandOver(j)
    PROVE  WgInv'
  <1> DEFINE r == Over(j)
  <1>1. /\ JobsAreInOrder /\ job[j].op = "issue" /\ job[j].at = "added" /\ told[j] = "none"
        /\ deploy.host /\ Granted(j)
    BY DEF WgInv, HandOver, JobsAreInOrder, Granted
  <1>2. /\ End(j, "issued") /\ Recorded' = Recorded \cup {<<"issue", j>>}
        /\ UNCHANGED <<deploy, peer, kept, overtaken, shed, reboots>>
    BY <1>1, RecordPeerIs DEF HandOver
  <1>3. /\ Becomes(j, r, "issued") /\ r.op = job[j].op /\ r.at = "over" /\ r.seen = job[j].seen
        /\ r.host = job[j].host /\ r.key = job[j].key
    BY <1>1, <1>2, EndBecomes DEF Told
  <1> HIDE DEF r
  <1>4. JobsAreInOrder'
    BY <1>1, <1>2, <1>3, OrderAfter
  <1>5. Removing \subseteq Removing' /\ Excused \subseteq Excused'
    BY <1>1, <1>2, <1>3, <1>4, RemovingGrows DEF Excused
  <1>6. \A i \in Job : /\ Granted(i)' => Granted(i) /\ job'[i].host = job[i].host
                       /\ Reading(i)' => Reading(i) /\ job'[i].seen = job[i].seen
    BY <1>1, <1>3 DEF Granted, Reading, Becomes
  <1>7. GrantsStand'
    BY <1>2, <1>5, <1>6, GrantsKeep DEF WgInv, Live
  <1>8. RevokesStand'
    BY <1>1, <1>2, <1>3, RevokesKeep DEF WgInv, Live, Becomes
  <1>9. OnlyIssued'
    <2>1. \A k \in Job : job[k].op = "issue" /\ job[k].at # "read" =>
               /\ job'[k].op = "issue" /\ job'[k].at # "read"
               /\ told[k] \in {"none", "exec", "issued"} => told'[k] \in {"none", "exec", "issued"}
      BY <1>1, <1>3 DEF Becomes
    <2>2. QED
      BY <1>1, <1>2, <2>1, OnlyIssuedKeeps DEF WgInv, Live
  <1>10. RowsStand'
    <2>1. told'[j] = "issued" /\ \A k \in Job \ {j} : told'[k] = told[k]
      BY <1>3 DEF Becomes
    <2>2. \A k \in Key : <<"issue", k>> \in Recorded' <=> k = j \/ <<"issue", k>> \in Recorded
      BY <1>2
    <2>3. \A k \in Key : <<"issue", k>> \in Recorded' <=> told'[k] = "issued"
      BY <2>1, <2>2 DEF WgInv, RowsStand, Key
    <2>4. \A i \in Job : job[i].op = "revoke" =>
             job'[i].op = "revoke" /\ job'[i].key = job[i].key /\ told'[i] = told[i]
      BY <1>1, <1>3 DEF Becomes
    <2>5. ASSUME NEW k \in Key, Granted(k)', k \notin Live' \cup shed'
          PROVE  \/ <<"revoke", k>> \in Recorded'
                 \/ \E i \in Job : job'[i].op = "revoke" /\ job'[i].key = k
                                     /\ told'[i] \in Unrecorded
      <3>1. \/ <<"revoke", k>> \in Recorded
            \/ \E i \in Job : job[i].op = "revoke" /\ job[i].key = k /\ told[i] \in Unrecorded
        BY <1>2, <1>6, <2>5 DEF WgInv, RowsStand, Key, Live
      <3>2. QED
        BY <1>2, <2>4, <3>1
    <2>6. QED
      BY <2>3, <2>5 DEF RowsStand
  <1>11. (deploy \in Deployment)' /\ (Addresses(peer) /\ Addresses(kept))'
    BY <1>2, AddressesAfter DEF WgInv, Deployment, Addresses
  <1>12. QED
    BY <1>4, <1>7, <1>8, <1>9, <1>10, <1>11 DEF WgInv

\* A revoke that has just listed the interface: its key is asked away from here on.
LEMMA BeginRevokeKeeps ==
    ASSUME WgInv, NEW j \in Job, NEW k \in Key, BeginRevoke(j, k)
    PROVE  WgInv'
  <1>1. /\ JobsAreInOrder /\ job[j].at = "new" /\ job[j].op = "none" /\ told[j] = "none"
        /\ job[k].op = "issue" /\ job[k].at # "read" /\ k # j /\ k \in Job
        /\ UNCHANGED <<deploy, peer, kept, peerRows, stderr, overtaken, shed, reboots>>
    <2>1. JobsAreInOrder /\ job[j].at = "new"
      BY DEF WgInv, BeginRevoke
    <2>2. job[j].op = "none" /\ told[j] = "none"
      BY <2>1 DEF JobsAreInOrder, IsJob
    <2>3. QED
      BY <2>1, <2>2 DEF BeginRevoke, Key
  <1>2. CASE ResolveBackend \notin Backends /\ End(j, ResolveBackend) /\ UNCHANGED broken
    <2>1. ResolveBackend \in {"misconfigured", "server_not_configured"}
      BY <1>2 DEF ResolveBackend, Backends
    <2>2. QED
      BY <1>1, <1>2, <2>1, EndKeeps
  <1>3. ASSUME NEW e \in ReadFailure, End(j, e) PROVE WgInv'
    BY <1>1, <1>3, EndKeeps DEF ReadFailure
  <1>4. CASE /\ ResolveBackend \in Backends /\ UNCHANGED <<told, broken>>
             /\ job' = [job EXCEPT ![j] = Reads("revoke", Live, k)]
    <2> DEFINE r == Reads("revoke", Live, k)
    <2>1. IsJob(r) /\ r.op = "revoke" /\ r.at = "read" /\ r.key = k
      BY DEF IsJob, Reads
    <2>2. job' = [job EXCEPT ![j] = r]
      BY <1>4
    <2> HIDE DEF r
    <2>3. Becomes(j, r, told[j])
      BY <1>1, <1>4, <2>1, <2>2, MoveBecomes
    <2>4. Becomes(j, r, "none")
      BY <1>1, <2>3
    <2>5. JobsAreInOrder'
      BY <1>1, <2>1, <2>4, OrderAfter
    <2>6. Removing \subseteq Removing' /\ Excused \subseteq Excused'
      BY <1>1, <2>1, <2>4, <2>5, RemovingGrows DEF Excused
    <2>7. \A i \in Job : /\ Granted(i)' => Granted(i) /\ job'[i].host = job[i].host
                         /\ Reading(i)' => Reading(i) /\ job'[i].seen = job[i].seen
      BY <1>1, <2>1, <2>4 DEF Granted, Reading, Becomes
    <2>8. GrantsStand'
      BY <1>1, <2>6, <2>7, GrantsKeep DEF WgInv, Live
    <2>9. RevokesStand'
      <3>1. ASSUME NEW i \in Job, job'[i].op = "revoke"
            PROVE  /\ job'[job'[i].key].op = "issue" /\ job'[job'[i].key].at # "read"
                   /\ (job'[i].at = "removed" \/ told'[i] = "revoked") /\ job'[i].key \notin shed'
                        => job'[i].key \notin Live'
        <4>1. CASE i = j
          BY <1>1, <2>1, <2>4, <4>1 DEF Becomes
        <4>2. CASE i # j
          <5>1. job'[i] = job[i] /\ told'[i] = told[i] /\ job[i].key \in Job
            BY <1>1, <2>4, <3>1, <4>2 DEF Becomes, JobsAreInOrder, Key
          <5>2. job[job[i].key].op = "issue" /\ job'[job[i].key] = job[job[i].key]
            BY <1>1, <2>4, <3>1, <5>1 DEF WgInv, RevokesStand, Becomes
          <5>3. QED
            BY <1>1, <3>1, <5>1, <5>2 DEF WgInv, RevokesStand, Live
        <4>3. QED
          BY <4>1, <4>2
      <3>2. QED
        BY <3>1 DEF RevokesStand
    <2>10. OnlyIssued'
      <3>1. \A i \in Job : job[i].op = "issue" /\ job[i].at # "read" =>
               /\ job'[i].op = "issue" /\ job'[i].at # "read"
               /\ told[i] \in {"none", "exec", "issued"} => told'[i] \in {"none", "exec", "issued"}
        BY <1>1, <1>4, <2>4 DEF Becomes
      <3>2. QED
        BY <1>1, <3>1, OnlyIssuedKeeps DEF WgInv, Live
    <2>11. RowsStand'
      <3>1. \A i \in Job : job[i].op = "revoke" =>
               /\ job'[i].op = "revoke" /\ job'[i].key = job[i].key
               /\ told[i] \in Unrecorded => told'[i] \in Unrecorded
        BY <1>1, <1>4, <2>4 DEF Becomes
      <3>2. \A i \in Job : told'[i] = "issued" <=> told[i] = "issued"
        BY <1>4
      <3>3. QED
        BY <1>1, <2>7, <3>1, <3>2, RowsKeep DEF WgInv, Live
    <2>12. (deploy \in Deployment)' /\ (Addresses(peer) /\ Addresses(kept))'
      BY <1>1, AddressesAfter DEF WgInv, Deployment, Addresses
    <2>13. QED
      BY <2>5, <2>8, <2>9, <2>10, <2>11, <2>12 DEF WgInv
  <1>5. QED
    BY <1>2, <1>3, <1>4 DEF BeginRevoke

\* The key leaves the interface, or the exchange fails and nobody knows.
LEMMA RemoveKeeps ==
    ASSUME WgInv, NEW j \in Job, Remove(j)
    PROVE  WgInv'
  <1> DEFINE k == job[j].key
             left == [x \in Live \ {k} |-> peer[x]]
             r == [job[j] EXCEPT !.at = "removed"]
  <1>1. /\ JobsAreInOrder /\ job[j].op = "revoke" /\ job[j].at = "read" /\ told[j] = "none"
        /\ job = [i \in Job |-> job[i]] /\ IsJob(job[j]) /\ told \in [Job -> Told]
        /\ UNCHANGED <<deploy, peerRows, stderr, overtaken, shed, reboots>>
    BY DEF Remove, WgInv, JobsAreInOrder
  <1>2. Addresses(left) /\ DOMAIN left = Live \ {k} /\ \A x \in Live \ {k} : left[x] = peer[x]
    BY LeftIs DEF WgInv
  <1>3. r.op = "revoke" /\ r.at = "removed" /\ r.key = k /\ IsJob(r)
    BY <1>1 DEF IsJob
  <1>4. \/ /\ peer' = left /\ job' = [job EXCEPT ![j].at = "removed"]
           /\ Save(left) /\ UNCHANGED told
        \/ /\ \E e \in {"exec", "server_not_configured"} : End(j, e)
           /\ peer' \in {peer, left} /\ UNCHANGED kept
    BY DEF Remove
  <1> HIDE DEF left, r
  <1>5. \E s, v : /\ Becomes(j, s, v) /\ s.op = "revoke" /\ s.key = k /\ v \in Unrecorded
                  /\ v # "none" => s.at = "over"
                  /\ s.at \in {"removed", "over"} /\ peer' \in {peer, left} /\ kept' \in {kept, left}
                  /\ s.at = "removed" => peer' = left
    <2>1. CASE /\ peer' = left /\ job' = [job EXCEPT ![j].at = "removed"]
               /\ Save(left) /\ UNCHANGED told
      <3>1. job' = [job EXCEPT ![j] = r]
        BY <2>1 DEF r
      <3>2. Becomes(j, r, told[j])
        BY <1>1, <1>3, <2>1, <3>1, MoveBecomes
      <3>3. kept' \in {kept, left}
        BY <2>1, SaveIs
      <3>4. Becomes(j, r, "none")
        BY <1>1, <3>2
      <3>5. QED
        BY <1>3, <2>1, <3>3, <3>4 DEF Unrecorded
    <2>2. CASE /\ \E e \in {"exec", "server_not_configured"} : End(j, e)
               /\ peer' \in {peer, left} /\ UNCHANGED kept
      <3>3. PICK e \in {"exec", "server_not_configured"} : End(j, e)
        BY <2>2
      <3>1. /\ Becomes(j, Over(j), e) /\ Over(j).op = job[j].op /\ Over(j).at = "over"
            /\ Over(j).key = job[j].key
        BY <1>1, <3>3, EndBecomes DEF Told
      <3>2. QED
        BY <1>1, <2>2, <3>1 DEF Unrecorded
    <2>3. QED
      BY <1>4, <2>1, <2>2
  <1>6. PICK s, v : /\ Becomes(j, s, v) /\ s.op = "revoke" /\ s.key = k /\ v \in Unrecorded
                    /\ v # "none" => s.at = "over"
                    /\ s.at \in {"removed", "over"} /\ peer' \in {peer, left} /\ kept' \in {kept, left}
                    /\ s.at = "removed" => peer' = left
    BY <1>5
  <1>7. k \in Job /\ k # j /\ job[k].op = "issue" /\ job[k].at # "read"
    BY <1>1 DEF JobsAreInOrder, Key, WgInv, RevokesStand
  <1>8. JobsAreInOrder'
    BY <1>1, <1>6, <1>7, OrderAfter DEF Key, Unrecorded
  <1>9. Removing \subseteq Removing' /\ Excused \subseteq Excused' /\ k \in Removing'
    BY <1>1, <1>6, <1>8, RemovingGrows DEF Excused
  <1>10. \A i \in Job : /\ Granted(i)' => Granted(i) /\ job'[i].host = job[i].host
                        /\ Reading(i)' => Reading(i) /\ job'[i].seen = job[i].seen
    BY <1>1, <1>6 DEF Granted, Reading, Becomes, Unrecorded
  <1>11. /\ Live' \subseteq Live /\ DOMAIN kept' \subseteq Live \cup DOMAIN kept
         /\ \A i \in Live : i # k => i \in Live' /\ peer'[i] = peer[i]
         /\ s.at = "removed" => k \notin Live'
    BY <1>2, <1>6 DEF Live
  <1>12. GrantsStand'
    <2>1. \A i \in Job : Granted(i)' /\ i \notin Excused' =>
               /\ Granted(i) /\ job'[i].host = job[i].host
               /\ i \in Live => i \in Live' /\ peer'[i] = peer[i]
      BY <1>9, <1>10, <1>11 DEF Excused
    <2>2. QED
      BY <1>1, <1>9, <1>10, <2>1, GrantsKeep DEF WgInv
  <1>13. RevokesStand'
    <2>1. ASSUME NEW i \in Job, job'[i].op = "revoke"
          PROVE  /\ job'[job'[i].key].op = "issue" /\ job'[job'[i].key].at # "read"
                 /\ (job'[i].at = "removed" \/ told'[i] = "revoked") /\ job'[i].key \notin shed'
                      => job'[i].key \notin Live'
      <3>1. CASE i = j
        BY <1>1, <1>6, <1>7, <1>11, <3>1 DEF Becomes, Unrecorded
      <3>2. CASE i # j
        <4>1. job'[i] = job[i] /\ told'[i] = told[i] /\ job[i].key \in Job
          BY <1>1, <1>6, <2>1, <3>2 DEF Becomes, JobsAreInOrder, Key
        <4>2. job[job[i].key].op = "issue" /\ job'[job[i].key] = job[job[i].key]
          BY <1>1, <1>6, <2>1, <4>1 DEF WgInv, RevokesStand, Becomes
        <4>3. QED
          BY <1>1, <1>11, <2>1, <4>1, <4>2 DEF WgInv, RevokesStand
      <3>3. QED
        BY <3>1, <3>2
    <2>2. QED
      BY <2>1 DEF RevokesStand
  <1>14. OnlyIssued'
    <2>1. \A i \in Job : job[i].op = "issue" /\ job[i].at # "read" =>
               /\ job'[i].op = "issue" /\ job'[i].at # "read"
               /\ told[i] \in {"none", "exec", "issued"} => told'[i] \in {"none", "exec", "issued"}
      BY <1>1, <1>6 DEF Becomes
    <2>2. Live' \cup DOMAIN kept' \subseteq Live \cup DOMAIN kept
      BY <1>11
    <2>3. QED
      BY <1>1, <2>1, <2>2, OnlyIssuedKeeps DEF WgInv
  <1>15. RowsStand'
    <2>1. \A i \in Job : job[i].op = "revoke" =>
               /\ job'[i].op = "revoke" /\ job'[i].key = job[i].key
               /\ told[i] \in Unrecorded => told'[i] \in Unrecorded
      BY <1>1, <1>6 DEF Becomes
    <2>2. \A i \in Job : told'[i] = "issued" <=> told[i] = "issued"
      BY <1>1, <1>6 DEF Becomes, Unrecorded
    <2>3. job'[j].op = "revoke" /\ job'[j].key = k /\ told'[j] \in Unrecorded
      BY <1>6 DEF Becomes
    <2> HIDE DEF k
    <2>4. ASSUME NEW i \in Job, i \in Live, i \notin Live'
          PROVE  \E q \in Job : /\ job'[q].op = "revoke" /\ job'[q].key = i
                                /\ told'[q] \in Unrecorded
      BY <1>11, <2>3, <2>4
    <2>5. QED
      BY <1>1, <1>10, <2>1, <2>2, <2>4, RowsKeep DEF WgInv
  <1>16. Addresses(peer') /\ Addresses(kept')
    BY <1>2, <1>6 DEF WgInv
  <1>17. (deploy \in Deployment)' /\ (Addresses(peer) /\ Addresses(kept))'
    BY <1>1, <1>16, AddressesAfter DEF WgInv, Deployment
  <1>18. QED
    BY <1>8, <1>12, <1>13, <1>14, <1>15, <1>17 DEF WgInv

\* The last answer of a revoke that was done, with its row, unless the count failed.
LEMMA AnswerKeeps ==
    ASSUME WgInv, NEW j \in Job, Answer(j)
    PROVE  WgInv'
  <1> DEFINE r == Over(j)
             k == job[j].key
  <1>1. /\ JobsAreInOrder /\ job[j].op = "revoke" /\ job[j].at = "removed" /\ told[j] = "none"
        /\ UNCHANGED <<deploy, peer, kept, overtaken, shed, reboots>>
    BY DEF WgInv, Answer, JobsAreInOrder
  <1>2. ASSUME NEW e \in ReadFailure, End(j, e), UNCHANGED <<peerRows, stderr>>
        PROVE  WgInv'
    BY <1>1, <1>2, EndKeeps DEF ReadFailure
  <1>3. CASE End(j, "revoked") /\ RecordPeer("revoke", k)
    <2>1. /\ Becomes(j, r, "revoked") /\ r.op = job[j].op /\ r.at = "over" /\ r.seen = job[j].seen
          /\ r.host = job[j].host /\ r.key = k
      BY <1>1, <1>3, EndBecomes DEF Told
    <2> HIDE DEF r
    <2>2. JobsAreInOrder'
      BY <1>1, <2>1, OrderAfter DEF JobsAreInOrder
    <2>3. Removing \subseteq Removing' /\ Excused \subseteq Excused'
      BY <1>1, <2>1, <2>2, RemovingGrows DEF Excused
    <2>4. \A i \in Job : /\ Granted(i)' => Granted(i) /\ job'[i].host = job[i].host
                         /\ Reading(i)' => Reading(i) /\ job'[i].seen = job[i].seen
      BY <1>1, <2>1 DEF Granted, Reading, Becomes
    <2>5. GrantsStand'
      BY <1>1, <2>3, <2>4, GrantsKeep DEF WgInv, Live
    <2>6. RevokesStand'
      <3>1. \A i \in Job : job'[i].op = "revoke" =>
               /\ job[i].op = "revoke" /\ job'[i].key = job[i].key
               /\ job'[i].at = "removed" \/ told'[i] = "revoked" =>
                     job[i].at = "removed" \/ told[i] = "revoked"
        BY <1>1, <2>1 DEF Becomes
      <3>2. \A i \in Job : job[i].op = "issue" /\ job[i].at # "read" =>
               /\ job'[i].op = "issue" /\ job'[i].at # "read"
               /\ i \in Live' => i \in Live \cup shed'
        BY <1>1, <2>1 DEF Becomes, Live
      <3>3. QED
        BY <1>1, <3>1, <3>2, RevokesKeep DEF WgInv
    <2>7. OnlyIssued'
      <3>1. \A i \in Job : job[i].op = "issue" /\ job[i].at # "read" =>
               /\ job'[i].op = "issue" /\ job'[i].at # "read"
               /\ told[i] \in {"none", "exec", "issued"} => told'[i] \in {"none", "exec", "issued"}
        BY <1>1, <2>1 DEF Becomes
      <3>2. QED
        BY <1>1, <3>1, OnlyIssuedKeeps DEF WgInv, Live
    <2>8. RowsStand'
      <3>1. \A i \in Job : told'[i] = "issued" <=> told[i] = "issued"
        BY <1>1, <2>1 DEF Becomes
      <3>2. \A i \in Key : /\ <<"issue", i>> \in Recorded' <=> <<"issue", i>> \in Recorded
                           /\ <<"revoke", i>> \in Recorded' <=> i = k \/ <<"revoke", i>> \in Recorded
        <4>1. Recorded' = Recorded \cup {<<"revoke", k>>}
          BY <1>3, RecordPeerIs
        <4>2. QED
          BY <4>1
      <3>3. \A i \in Key : <<"issue", i>> \in Recorded' <=> told'[i] = "issued"
        BY <3>1, <3>2 DEF WgInv, RowsStand, Key
      <3>4. \A i \in Job : i # j => job'[i] = job[i] /\ told'[i] = told[i]
        BY <2>1 DEF Becomes
      <3> HIDE DEF k
      <3>5. ASSUME NEW i \in Key, Granted(i)', i \notin Live' \cup shed', i # k
            PROVE  \/ <<"revoke", i>> \in Recorded'
                   \/ \E q \in Job : /\ job'[q].op = "revoke" /\ job'[q].key = i
                                     /\ told'[q] \in Unrecorded
        <4>1. \/ <<"revoke", i>> \in Recorded
              \/ \E q \in Job : job[q].op = "revoke" /\ job[q].key = i /\ told[q] \in Unrecorded
          BY <1>1, <2>4, <3>5 DEF WgInv, RowsStand, Key, Live
        <4>2. QED
          BY <3>2, <3>4, <3>5, <4>1 DEF k
      <3>6. QED
        BY <3>2, <3>3, <3>5 DEF RowsStand
    <2>9. (deploy \in Deployment)' /\ (Addresses(peer) /\ Addresses(kept))'
      BY <1>1, AddressesAfter DEF WgInv, Deployment, Addresses
    <2>10. QED
      BY <2>2, <2>5, <2>6, <2>7, <2>8, <2>9 DEF WgInv
  <1>4. QED
    BY <1>2, <1>3 DEF Answer

\* The daemon comes back with its file: whoever that moves is shed.
LEMMA RebootKeeps ==
    ASSUME WgInv, Reboot
    PROVE  WgInv'
  <1>1. /\ JobsAreInOrder /\ peer' = kept /\ kept' = kept /\ job' = job /\ told' = told
        /\ UNCHANGED <<deploy, peerRows, stderr, overtaken>>
        /\ shed' = shed \cup {k \in Key : (k \in Live) # (k \in DOMAIN kept)}
                      \cup {k \in Live \cap DOMAIN kept : peer[k] # kept[k]}
    BY DEF WgInv, Reboot
  <1>2. /\ shed \subseteq shed' /\ Live' = DOMAIN kept
        /\ \A k \in Key \ shed' : (k \in Live <=> k \in Live') /\ (k \in Live => peer'[k] = peer[k])
    BY <1>1 DEF Live
  <1>3. JobsAreInOrder'
    BY <1>1 DEF JobsAreInOrder, IsJob, Host
  <1>4. Removing' = Removing /\ Excused \subseteq Excused'
    BY <1>1, <1>2 DEF Removing, Excused
  <1>5. \A i \in Job : (Granted(i)' <=> Granted(i)) /\ (Reading(i)' <=> Reading(i))
    BY <1>1 DEF Granted, Reading
  <1>6. GrantsStand'
    <2>1. \A j \in Job : Granted(j)' /\ j \notin Excused' =>
               /\ Granted(j) /\ job'[j].host = job[j].host
               /\ j \in Live => j \in Live' /\ peer'[j] = peer[j]
      BY <1>1, <1>2, <1>5 DEF Excused, Key
    <2>2. QED
      BY <1>1, <1>4, <1>5, <2>1, GrantsKeep DEF WgInv
  <1>7. RevokesStand'
    BY <1>1, <1>2, RevokesKeep DEF WgInv, Key
  <1>8. OnlyIssued'
    BY <1>1, <1>2, OnlyIssuedKeeps DEF WgInv
  <1>9. RowsStand'
    BY <1>1, <1>2, <1>5, RowsKeep DEF WgInv, Key
  <1>10. (deploy \in Deployment)' /\ (Addresses(peer) /\ Addresses(kept))'
    BY <1>1, AddressesAfter DEF WgInv, Deployment
  <1>11. QED
    BY <1>3, <1>6, <1>7, <1>8, <1>9, <1>10 DEF WgInv

\* The console falls: what was under way ends unanswered, what it did stays.
LEMMA FallKeeps ==
    ASSUME WgInv, Fall
    PROVE  WgInv'
  <1>1. /\ JobsAreInOrder /\ UNCHANGED <<deploy, peer, kept, told, peerRows, stderr, overtaken, shed>>
        /\ job' = [j \in Job |-> IF job[j].at = "new" THEN job[j] ELSE Over(j)]
    BY DEF WgInv, Fall, Over
  <1>2. ASSUME NEW j \in Job
        PROVE  /\ IsJob(job'[j]) /\ job'[j].op = job[j].op /\ job'[j].key = job[j].key
               /\ job'[j].host = job[j].host /\ job'[j].seen = job[j].seen
               /\ job'[j].at = IF job[j].at = "new" THEN "new" ELSE "over"
    <2>1. IsJob(job[j])
      BY <1>1 DEF JobsAreInOrder
    <2>2. job'[j] = IF job[j].at = "new" THEN job[j] ELSE Over(j)
      BY <1>1
    <2>3. /\ IsJob(Over(j)) /\ Over(j).op = job[j].op /\ Over(j).key = job[j].key
          /\ Over(j).host = job[j].host /\ Over(j).seen = job[j].seen /\ Over(j).at = "over"
      BY <2>1 DEF Over, IsJob
    <2>4. QED
      BY <2>1, <2>2, <2>3
  <1>3. JobsAreInOrder'
    <2>1. job' = [j \in Job |-> job'[j]] /\ told' \in [Job -> Told]
      BY <1>1 DEF JobsAreInOrder
    <2>2. \A j \in Job :
         /\ told'[j] # "none" => job'[j].at = "over"
         /\ job'[j].op = "none" => job'[j].at \in {"new", "over"}
         /\ job'[j].op = "issue" => job'[j].at \in {"read", "added", "over"} /\ deploy'.host
         /\ job'[j].op = "revoke" => job'[j].at \in {"read", "removed", "over"} /\ job'[j].key \in Key
         /\ told'[j] = "issued" => job'[j].op = "issue"
         /\ told'[j] = "revoked" => job'[j].op = "revoke"
      BY <1>1, <1>2 DEF JobsAreInOrder
    <2>3. QED
      BY <1>2, <2>1, <2>2 DEF JobsAreInOrder, IsJob, Host
  <1>4. Removing' = Removing /\ Excused' = Excused
    BY <1>1, <1>2, <1>3 DEF Removing, Excused, JobsAreInOrder
  <1>5. \A i \in Job : /\ Granted(i)' => Granted(i) /\ job'[i].host = job[i].host
                       /\ ~Reading(i)'
    BY <1>1, <1>2 DEF Granted, Reading
  <1>6. GrantsStand'
    BY <1>1, <1>4, <1>5, GrantsKeep DEF WgInv, Live
  <1>7. RevokesStand'
    BY <1>1, <1>2, RevokesKeep DEF WgInv, Live
  <1>8. OnlyIssued'
    <2>1. \A i \in Job : job[i].op = "issue" /\ job[i].at # "read" =>
               /\ job'[i].op = "issue" /\ job'[i].at # "read"
               /\ told[i] \in {"none", "exec", "issued"} => told'[i] \in {"none", "exec", "issued"}
      BY <1>1, <1>2
    <2>2. QED
      BY <1>1, <2>1, OnlyIssuedKeeps DEF WgInv, Live
  <1>9. RowsStand'
    BY <1>1, <1>2, <1>5, RowsKeep DEF WgInv, Live
  <1>10. (deploy \in Deployment)' /\ (Addresses(peer) /\ Addresses(kept))'
    BY <1>1, AddressesAfter DEF WgInv, Deployment, Addresses
  <1>11. QED
    BY <1>3, <1>6, <1>7, <1>8, <1>9, <1>10 DEF WgInv

LEMMA WgStarts == WgInit => WgInv
  <1> SUFFICES ASSUME WgInit PROVE WgInv
    OBVIOUS
  <1>1. /\ deploy \in Deployment /\ Live = {} /\ DOMAIN kept = {} /\ Recorded = {}
        /\ \A j \in Job : job[j] = Idle /\ told[j] = "none"
        /\ job = [j \in Job |-> job[j]] /\ told \in [Job -> Told]
    BY DEF WgInit, Live, Told, Recorded
  <1>2. Addresses(peer) /\ Addresses(kept)
    <2>1. <<>> = [k \in {} |-> <<>>[k]]
      OBVIOUS
    <2>2. QED
      BY <2>1 DEF WgInit, Addresses
  <1>3. JobsAreInOrder
    BY <1>1 DEF JobsAreInOrder, IsJob, Idle
  <1>4. \A j \in Job : ~Granted(j) /\ ~Reading(j) /\ job[j].op # "revoke"
    BY <1>1 DEF Granted, Reading, Idle
  <1>5. GrantsStand /\ RevokesStand
    BY <1>4 DEF GrantsStand, RevokesStand
  <1>6. OnlyIssued
    BY <1>1 DEF OnlyIssued
  <1>7. RowsStand
    BY <1>1, <1>4 DEF RowsStand, Key
  <1>8. QED
    BY <1>1, <1>2, <1>3, <1>5, <1>6, <1>7 DEF WgInv

LEMMA WgStep == WgInv /\ [WgNext]_wgState => WgInv'
  <1> SUFFICES ASSUME WgInv, [WgNext]_wgState PROVE WgInv'
    OBVIOUS
  <1>1. CASE UNCHANGED wgState
    <2>1. UNCHANGED <<deploy, peer, kept, job, told, peerRows, stderr, overtaken, shed>>
      BY <1>1 DEF wgState
    <2>2. (deploy \in Deployment)' /\ (Addresses(peer) /\ Addresses(kept))'
      BY <2>1, AddressesAfter DEF WgInv, Deployment, Addresses
    <2>3. JobsAreInOrder'
      BY <2>1 DEF WgInv, JobsAreInOrder, IsJob, Host
    <2>4. GrantsStand'
      BY <2>1 DEF WgInv, GrantsStand, Granted, Reading, Excused, Removing, Live
    <2>5. RevokesStand' /\ OnlyIssued' /\ RowsStand'
      BY <2>1 DEF WgInv, RevokesStand, OnlyIssued, RowsStand, Granted, Live, Recorded
    <2>6. QED
      BY <2>2, <2>3, <2>4, <2>5 DEF WgInv
  <1>2. CASE Reboot \/ Fall
    BY <1>2, RebootKeeps, FallKeeps
  <1>3. ASSUME NEW j \in Job,
               \/ BeginIssue(j) \/ Authorize(j) \/ HandOver(j) \/ Remove(j) \/ Answer(j)
               \/ \E k \in Key : BeginRevoke(j, k)
        PROVE  WgInv'
    BY <1>3, BeginIssueKeeps, AuthorizeKeeps, HandOverKeeps, RemoveKeeps, AnswerKeeps,
       BeginRevokeKeeps
  <1>4. QED
    BY <1>1, <1>2, <1>3 DEF WgNext

\* A line on stderr has its cause: no bus, or something failed.
PrintedInv == broken \in Nat /\ (deploy.bus /\ broken = 0 => stderr = {})

LEMMA RecordPeerPrints ==
    ASSUME NEW action, NEW k, RecordPeer(action, k)
    PROVE  \/ UNCHANGED <<stderr, broken>>
           \/ ~deploy.bus /\ UNCHANGED broken
           \/ broken' = broken + 1
  BY DEF RecordPeer

LEMMA PrintedKeeps == PrintedInv /\ [WgNext]_wgState => PrintedInv'
  <1> SUFFICES ASSUME PrintedInv, [WgNext]_wgState PROVE PrintedInv'
    OBVIOUS
  <1>1. ASSUME NEW j \in Job,
               \/ BeginIssue(j) \/ Authorize(j) \/ Remove(j)
               \/ \E k \in Key : BeginRevoke(j, k)
        PROVE  UNCHANGED <<deploy, stderr>> /\ broken' \in {broken, broken + 1}
    <2>1. CASE BeginIssue(j)
      BY <2>1 DEF BeginIssue
    <2>2. ASSUME NEW f, Save(f) PROVE broken' \in {broken, broken + 1}
      BY <2>2 DEF Save
    <2>3. CASE Authorize(j)
      BY <2>2, <2>3 DEF Authorize
    <2>4. CASE Remove(j)
      BY <2>2, <2>4 DEF Remove
    <2>5. CASE \E k \in Key : BeginRevoke(j, k)
      BY <2>5 DEF BeginRevoke
    <2>6. QED
      BY <1>1, <2>1, <2>3, <2>4, <2>5
  <1>2. ASSUME NEW j \in Job, HandOver(j) \/ Answer(j)
        PROVE  /\ UNCHANGED deploy
               /\ \/ UNCHANGED <<stderr, broken>>
                  \/ ~deploy.bus /\ UNCHANGED broken
                  \/ broken' = broken + 1
    BY <1>2, RecordPeerPrints DEF HandOver, Answer
  <1>3. CASE Reboot \/ Fall \/ UNCHANGED wgState
    BY <1>3 DEF Reboot, Fall, wgState, PrintedInv
  <1>4. ASSUME NEW j \in Job,
               \/ BeginIssue(j) \/ Authorize(j) \/ Remove(j)
               \/ \E k \in Key : BeginRevoke(j, k)
        PROVE  PrintedInv'
    BY <1>1, <1>4 DEF PrintedInv
  <1>5. ASSUME NEW j \in Job, HandOver(j) \/ Answer(j)
        PROVE  PrintedInv'
    BY <1>2, <1>5 DEF PrintedInv
  <1>6. QED
    BY <1>3, <1>4, <1>5 DEF WgNext

LEMMA WgInvIsEnough == WgInv /\ PrintedInv => PeersAreAccounted
  <1> SUFFICES ASSUME WgInv, PrintedInv PROVE PeersAreAccounted
    OBVIOUS
  <1>1. WgTypeOK
    BY DEF WgInv, WgTypeOK, Addresses, Live, Revoked, Removing, JobsAreInOrder
  <1>2. KeepsAddress
    BY DEF WgInv, KeepsAddress, Issued, JobsAreInOrder, GrantsStand, Granted, Excused
  <1>3. RevokedStaysOut
    BY DEF WgInv, RevokedStaysOut, Revoked, JobsAreInOrder, RevokesStand
  <1>4. RefusedLeavesNoPeer
    BY DEF WgInv, RefusedLeavesNoPeer, OnlyIssued
  <1>5. JournalFollowsTunnel
    <2>1. \A k \in Live : k \in Key /\ told[k] \in {"none", "exec", "issued"}
      BY DEF WgInv, OnlyIssued, Addresses, Live
    <2>2. \A k \in Key : <<"issue", k>> \in Recorded => Granted(k)
      BY DEF WgInv, RowsStand, JobsAreInOrder, Granted, Key
    <2>3. QED
      BY <2>1, <2>2 DEF WgInv, RowsStand, JournalFollowsTunnel, PrintedInv
  <1>6. QED
    BY <1>1, <1>2, <1>3, <1>4, <1>5 DEF PeersAreAccounted

\* Devices, tunnel, saved file, journal and stderr stay one story for any number of
\* commands, any subnet, and any number of failed exchanges and records, restarts and
\* deaths, with a bus or without (wg_operator.rs: issue, revoke).
THEOREM PeersAreAccountedHolds == WgSpec => []PeersAreAccounted
  <1>1. WgInit => WgInv /\ PrintedInv
    BY WgStarts DEF WgInit, PrintedInv
  <1>2. WgInv /\ PrintedInv /\ [WgNext]_wgState => (WgInv /\ PrintedInv)'
    BY WgStep, PrintedKeeps
  <1>3. WgInv /\ PrintedInv => PeersAreAccounted
    BY WgInvIsEnough
  <1>4. QED
    BY <1>1, <1>2, <1>3, PTL DEF WgSpec

-----------------------------------------------------------------------------
(***************************************************************************)
(* MemoryServers: who holds which server.                                  *)
(***************************************************************************)
IsServer(x) ==
    /\ x = [scope |-> x.scope, runs |-> x.runs, next |-> x.next, owes |-> x.owes,
            lines |-> x.lines]
    /\ x.runs \in BOOLEAN

\* The servers, in the order they were started: a scope each, and as many as there are
\* reads that had one chosen, and the first.
IsServers(servers) ==
    /\ Len(servers) \in Nat /\ servers = [s \in 1..Len(servers) |-> servers[s]]
    /\ \A s \in DOMAIN servers : IsServer(servers[s])
Begun(reads) == {r \in Read : reads[r].at # "new"}
ServersAreOfReads ==
    /\ IsServers(server)
    /\ plane # "ready" => Len(server) = 0
    /\ plane = "ready" => Len(server) >= 1 /\ server[1].scope = WholeFile
    /\ Len(server) <= 1 + Cardinality(Begun(read))

\* The entries: each of a server of its scope, no two of one scope or of one age.
IsPool(entries, upTo) ==
    /\ IsFiniteSet(entries) /\ Cardinality(entries) <= MaxHeld
    /\ \A e \in entries : e.seq \in 1..upTo
    /\ \A e, f \in entries : e.scope = f.scope \/ e.seq = f.seq => e = f
OfServers(entries, servers) ==
    \A e \in entries : e.server \in DOMAIN servers /\ servers[e.server].scope = e.scope
PoolIsKept == nextSeq \in Nat /\ IsPool(pool, nextSeq) /\ OfServers(pool, server)

\* A read past its choice has a server of the scope it asked for, and its answer is the
\* one to its own request.
Asks(r) == read[r].at \in {"target", "sent"}
ReadsAreAnswered ==
    /\ read = [r \in Read |-> read[r]] /\ reply = [r \in Read |-> reply[r]]
    /\ \A r \in Read :
         /\ read[r] = [scope |-> read[r].scope, at |-> read[r].at, server |-> read[r].server,
                       id |-> read[r].id]
         /\ read[r].at \in {"new", "target", "sent", "over"}
         /\ Asks(r) => read[r].server \in Started /\ server[read[r].server].scope = read[r].scope
         /\ reply[r].verdict = "answer" =>
              /\ read[r].at = "over" /\ read[r].server \in Started
              /\ server[read[r].server].scope = read[r].scope
              /\ reply[r].server = read[r].server /\ reply[r].id = read[r].id

\* What somebody holds runs, unless it died by itself; what nobody holds does not.
HeldRuns ==
    /\ NoServerLeaks
    /\ deaths \in Nat
    /\ deaths = 0 => \A s \in Started : s \in Held(pool, read) => server[s].runs

MemoryInv ==
    /\ ServersAreOfReads
    /\ PoolIsKept
    /\ ReadsAreAnswered
    /\ HeldRuns

-----------------------------------------------------------------------------
(***************************************************************************)
(* Room in the pool: what is closed is what was read least recently.       *)
(***************************************************************************)
LEMMA ImageIsFinite ==
    ASSUME NEW T, IsFiniteSet(T), NEW f, DOMAIN f = T
    PROVE  IsFiniteSet({f[x] : x \in T})
  <1> DEFINE U == {f[x] : x \in T}
             g == [x \in T |-> f[x]]
  <1>1. g \in [T -> U] /\ \A u \in U : \E x \in T : g[x] = u
    OBVIOUS
  <1> HIDE DEF g, U
  <1>2. g \in Surjection(T, U)
    BY <1>1 DEF Surjection
  <1>3. QED
    BY <1>2, FS_Surjection DEF U

LEMMA GreatestOfFinite ==
    ASSUME NEW T, IsFiniteSet(T), T \subseteq Int, T # {}
    PROVE  \E x \in T : \A y \in T : y <= x
  <1> DEFINE N == {-x : x \in T}
             f == [x \in T |-> -x]
  <1>1. IsFiniteSet(N)
    <2>1. N = {f[x] : x \in T} /\ DOMAIN f = T
      OBVIOUS
    <2> HIDE DEF N, f
    <2>2. QED
      BY <2>1, ImageIsFinite
  <1>2. N \subseteq Int /\ N # {}
    <2>1. \A x \in T : -x \in Int
      OBVIOUS
    <2>2. PICK x : x \in T
      OBVIOUS
    <2>3. -x \in N
      BY <2>2
    <2>4. QED
      BY <2>1, <2>3
  <1>3. PICK n \in N : \A m \in N : n <= m
    BY <1>1, <1>2, LeastOfFinite
  <1>4. PICK x \in T : n = -x
    BY <1>3
  <1>5. ASSUME NEW y \in T
        PROVE  y <= x
    <2>1. -x <= -y
      BY <1>3, <1>4, <1>5
    <2>2. x \in Int /\ y \in Int
      OBVIOUS
    <2>3. QED
      BY <2>1, <2>2
  <1>6. QED
    BY <1>5

\* The youngest ones that leave room for one more; an entry that is closed for it is older
\* than each of those, and there are as many of those as fit.
LEMMA MakeRoomIs ==
    ASSUME NEW E, NEW u \in Nat, IsPool(E, u)
    PROVE  /\ MakeRoom(E) \subseteq E /\ IsFiniteSet(MakeRoom(E))
           /\ Cardinality(MakeRoom(E)) <= MaxHeld - 1
           /\ \A e \in E \ MakeRoom(E) : /\ Cardinality(MakeRoom(E)) = MaxHeld - 1
                                         /\ \A m \in MakeRoom(E) : m.seq > e.seq
  <1> DEFINE n == MaxHeld - 1
             Above(e) == {f \in E : f.seq > e.seq}
             M == {e \in E : Cardinality(Above(e)) < n}
  <1>1. n \in Nat /\ MakeRoom(E) = M
    BY MemoryAssumption DEF MakeRoom
  <1>2. /\ IsFiniteSet(E) /\ \A e \in E : e.seq \in Int
        /\ \A e, f \in E : e.seq = f.seq => e = f
    BY DEF IsPool
  <1>3. M \subseteq E /\ IsFiniteSet(M) /\ IsFiniteSet(E \ M)
    BY <1>2, FS_Subset
  <1>4. \A e \in E : IsFiniteSet(Above(e)) /\ Cardinality(Above(e)) \in Nat
    BY <1>2, FS_Subset, FS_CardinalityType
  <1>5. \A e \in M : Cardinality(Above(e)) < n
    OBVIOUS
  <1>6. \A e \in E \ M : ~(Cardinality(Above(e)) < n)
    OBVIOUS
  <1> HIDE DEF M, n
  <1>7. Cardinality(M) <= n
    <2>1. CASE M = {}
      BY <1>1, <2>1, FS_EmptySet
    <2>2. CASE M # {}
      <3> DEFINE S == {e.seq : e \in M}
                 a == [e \in M |-> e.seq]
      <3>1. IsFiniteSet(S)
        <4>1. S = {a[e] : e \in M} /\ DOMAIN a = M
          OBVIOUS
        <4> HIDE DEF S, a
        <4>2. QED
          BY <1>3, <4>1, ImageIsFinite
      <3>2. S \subseteq Int /\ S # {}
        BY <1>2, <1>3, <2>2
      <3>3. PICK x \in S : \A y \in S : x <= y
        BY <3>1, <3>2, LeastOfFinite
      <3>4. PICK m \in M : x = m.seq
        BY <3>3
      <3>5. \A f \in M : f # m => f \in Above(m)
        <4>1. ASSUME NEW f \in M, f # m
              PROVE  f \in Above(m)
          <5>1. f \in E /\ m \in E /\ f.seq \in S
            BY <1>3, <4>1
          <5>2. m.seq <= f.seq /\ f.seq # m.seq /\ m.seq \in Int /\ f.seq \in Int
            BY <1>2, <3>3, <3>4, <4>1, <5>1
          <5>3. QED
            BY <5>1, <5>2
        <4>2. QED
          BY <4>1
      <3>10. m \notin Above(m)
        BY <1>2, <1>3
      <3> HIDE DEF Above
      <3>6. M \subseteq Above(m) \cup {m} /\ m \in E
        BY <1>3, <3>5
      <3>7. /\ IsFiniteSet(Above(m) \cup {m})
            /\ Cardinality(Above(m) \cup {m}) = Cardinality(Above(m)) + 1
        <4>1. IsFiniteSet(Above(m)) /\ Cardinality(Above(m)) \in Nat
          BY <1>4, <3>6
        <4>2. QED
          BY <3>10, <4>1, FS_AddElement
      <3>8. Cardinality(M) <= Cardinality(Above(m) \cup {m})
        BY <3>6, <3>7, FS_Subset
      <3>9. QED
        <4>1. Cardinality(M) \in Nat /\ Cardinality(Above(m)) \in Nat
          BY <1>3, <1>4, <3>6, FS_CardinalityType
        <4>2. Cardinality(Above(m) \cup {m}) \in Nat /\ Cardinality(Above(m)) < n
          BY <1>5, <3>7, FS_CardinalityType
        <4>3. QED
          BY <1>1, <3>7, <3>8, <4>1, <4>2
    <2>3. QED
      BY <2>1, <2>2
  <1>8. ASSUME NEW e \in E \ M, NEW m \in M
        PROVE  m.seq > e.seq
    <2>1. SUFFICES ASSUME m.seq <= e.seq
                   PROVE  FALSE
      BY <1>2, <1>3
    <2>2. Above(e) \subseteq Above(m)
      <3>1. m.seq \in Int /\ e.seq \in Int
        BY <1>2, <1>3
      <3>2. QED
        BY <1>2, <2>1, <3>1
    <2> HIDE DEF Above
    <2>3. Cardinality(Above(e)) <= Cardinality(Above(m)) /\ m \in E
      BY <1>3, <1>4, <2>2, FS_Subset
    <2>4. Cardinality(Above(m)) < n /\ ~(Cardinality(Above(e)) < n)
      BY <1>5, <1>6
    <2>5. Cardinality(Above(m)) \in Nat /\ Cardinality(Above(e)) \in Nat
      BY <1>4, <2>3
    <2>6. QED
      BY <1>1, <2>3, <2>4, <2>5
  <1>9. ASSUME NEW e \in E \ M
        PROVE  Cardinality(M) = n
    <2> DEFINE S == {f.seq : f \in E \ M}
               a == [f \in E \ M |-> f.seq]
    <2>1. IsFiniteSet(S)
      <3>1. S = {a[f] : f \in E \ M} /\ DOMAIN a = E \ M
        OBVIOUS
      <3> HIDE DEF S, a
      <3>2. QED
        BY <1>3, <3>1, ImageIsFinite
    <2>2. S \subseteq Int /\ S # {}
      BY <1>2
    <2>3. PICK x \in S : \A y \in S : y <= x
      BY <2>1, <2>2, GreatestOfFinite
    <2>4. PICK g \in E \ M : x = g.seq
      BY <2>3
    <2>5. Above(g) \subseteq M
      <3>1. ASSUME NEW f \in Above(g), f \notin M
            PROVE  FALSE
        <4>1. f.seq \in S /\ f.seq > g.seq /\ f.seq \in Int /\ g.seq \in Int
          BY <1>2, <3>1
        <4>2. f.seq <= g.seq
          BY <2>3, <2>4, <4>1
        <4>3. QED
          BY <4>1, <4>2
      <3>2. QED
        BY <3>1
    <2> HIDE DEF Above
    <2>6. Cardinality(Above(g)) <= Cardinality(M)
      BY <1>3, <2>5, FS_Subset
    <2>7. ~(Cardinality(Above(g)) < n) /\ Cardinality(Above(g)) \in Nat /\ Cardinality(M) \in Nat
      BY <1>3, <1>4, <1>6, FS_CardinalityType
    <2>8. QED
      BY <1>1, <1>7, <2>6, <2>7
  <1>10. QED
    BY <1>1, <1>3, <1>7, <1>8, <1>9 DEF n

-----------------------------------------------------------------------------
(***************************************************************************)
(* Servers, and who closes them.                                           *)
(***************************************************************************)
\* Server for server: the same scope, and running only if it was.
Like(f, g) ==
    /\ IsServers(f) /\ Len(f) = Len(g)
    /\ \A s \in DOMAIN g : f[s].scope = g[s].scope /\ (f[s].runs => g[s].runs)

LEMMA ServersDomain ==
    ASSUME NEW f, IsServers(f)
    PROVE  DOMAIN f = 1..Len(f)
  <1>1. f = [s \in 1..Len(f) |-> f[s]]
    BY DEF IsServers
  <1>2. QED
    BY <1>1

LEMMA LenOf ==
    ASSUME NEW n \in Nat, NEW f, f = [s \in 1..n |-> f[s]]
    PROVE  Len(f) = n
  <1>1. f \in Seq({f[s] : s \in 1..n})
    <2>1. f \in [1..n -> {f[s] : s \in 1..n}]
      OBVIOUS
    <2>2. QED
      BY <2>1
  <1>2. DOMAIN f = 1..n /\ DOMAIN f = 1..Len(f) /\ Len(f) \in Nat
    BY <1>1
  <1>3. QED
    BY <1>2

\* Whoever is not held stops, nothing else happens to anybody.
LEMMA ReapIs ==
    ASSUME NEW f, NEW entries, NEW reads, IsServers(f)
    PROVE  /\ Like(Reap(f, entries, reads), f)
           /\ \A s \in DOMAIN f :
                 Reap(f, entries, reads)[s].runs <=> f[s].runs /\ s \in Held(entries, reads)
  <1> DEFINE g == Reap(f, entries, reads)
  <1>1. DOMAIN f = 1..Len(f) /\ Len(f) \in Nat
    BY ServersDomain DEF IsServers
  <1>2. /\ DOMAIN g = 1..Len(f) /\ g = [s \in 1..Len(f) |-> g[s]]
        /\ \A s \in DOMAIN f : g[s] = IF s \in Held(entries, reads) THEN f[s]
                                      ELSE [f[s] EXCEPT !.runs = FALSE]
    BY <1>1 DEF Reap
  <1> HIDE DEF g
  <1>3. Len(g) = Len(f)
    BY <1>1, <1>2, LenOf
  <1>4. ASSUME NEW s \in DOMAIN f
        PROVE  /\ IsServer(g[s]) /\ g[s].scope = f[s].scope
               /\ g[s].runs <=> f[s].runs /\ s \in Held(entries, reads)
    <2>1. IsServer(f[s])
      BY <1>4 DEF IsServers
    <2>2. CASE s \in Held(entries, reads)
      BY <1>2, <2>1, <2>2 DEF IsServer
    <2>3. CASE s \notin Held(entries, reads)
      <3>1. g[s] = [f[s] EXCEPT !.runs = FALSE]
        BY <1>2, <2>3
      <3>2. QED
        BY <2>1, <2>3, <3>1 DEF IsServer
    <2>4. QED
      BY <2>2, <2>3
  <1>5. Like(g, f)
    BY <1>1, <1>2, <1>3, <1>4 DEF Like, IsServers
  <1>6. QED
    BY <1>4, <1>5 DEF g

\* One server changes in what it has to say.
LEMMA TouchIs ==
    ASSUME NEW f, IsServers(f), NEW s \in DOMAIN f, NEW q, IsServer(q), q.scope = f[s].scope,
           q.runs => f[s].runs
    PROVE  /\ Like([f EXCEPT ![s] = q], f)
           /\ \A x \in DOMAIN f :
                 [f EXCEPT ![s] = q][x].runs <=> IF x = s THEN q.runs ELSE f[x].runs
  <1> DEFINE g == [f EXCEPT ![s] = q]
  <1>6. g = [f EXCEPT ![s] = q]
    OBVIOUS
  <1> HIDE DEF g
  <1>1. DOMAIN f = 1..Len(f) /\ Len(f) \in Nat
    BY ServersDomain DEF IsServers
  <1>2. DOMAIN g = 1..Len(f) /\ g = [x \in 1..Len(f) |-> g[x]]
    BY <1>1, <1>6
  <1>3. Len(g) = Len(f)
    BY <1>1, <1>2, LenOf
  <1>4. \A x \in DOMAIN f : g[x] = IF x = s THEN q ELSE f[x]
    BY <1>6
  <1>5. /\ Like(g, f)
        /\ \A x \in DOMAIN f : g[x].runs <=> IF x = s THEN q.runs ELSE f[x].runs
    BY <1>1, <1>2, <1>3, <1>4 DEF Like, IsServers
  <1>7. QED
    BY <1>5 DEF g

\* Only reads that begin are counted.
LEMMA BegunGrows ==
    ASSUME Begun(read) \subseteq Begun(read')
    PROVE  /\ Cardinality(Begun(read)) \in Nat /\ Cardinality(Begun(read')) \in Nat
           /\ Cardinality(Begun(read)) <= Cardinality(Begun(read'))
  <1>1. Begun(read) \subseteq Read /\ Begun(read') \subseteq Read
    BY DEF Begun
  <1>2. IsFiniteSet(Begun(read)) /\ IsFiniteSet(Begun(read'))
    BY <1>1, FS_Subset, MemoryAssumption
  <1>3. QED
    BY <1>2, FS_Subset, FS_CardinalityType

\* What is left to say of a step in which no server starts and no entry is made.
LEMMA MemoryKeeps ==
    ASSUME MemoryInv, Like(server', server), plane' = plane,
           pool' \subseteq pool, nextSeq' \in Nat, nextSeq <= nextSeq',
           read' = [r \in Read |-> read'[r]], reply' = [r \in Read |-> reply'[r]],
           \A r \in Read :
              /\ read'[r] = [scope |-> read'[r].scope, at |-> read'[r].at,
                             server |-> read'[r].server, id |-> read'[r].id]
              /\ read'[r].at \in {"new", "target", "sent", "over"}
              /\ read'[r].at = "new" => read[r].at = "new"
              /\ read'[r].server = read[r].server /\ read'[r].scope = read[r].scope
              /\ read'[r].at \in {"target", "sent"} => Asks(r)
              /\ reply'[r].verdict = "answer" =>
                   /\ read'[r].at = "over" /\ (Asks(r) \/ reply[r].verdict = "answer")
                   /\ reply'[r].server = read'[r].server /\ reply'[r].id = read'[r].id,
           \A s \in DOMAIN server : server'[s].runs => s \in Held(pool', read'),
           deaths' \in Nat,
           deaths' = 0 => /\ deaths = 0
                          /\ \A s \in DOMAIN server :
                                server[s].runs /\ s \in Held(pool', read') => server'[s].runs
    PROVE  MemoryInv'
  <1>1. DOMAIN server' = DOMAIN server /\ Len(server') = Len(server) /\ DOMAIN server = 1..Len(server)
    BY ServersDomain DEF MemoryInv, ServersAreOfReads, Like
  <1>2. ServersAreOfReads'
    <2>1. Begun(read) \subseteq Begun(read')
      BY DEF Begun
    <2>2. IsServers(server')
      BY DEF Like
    <2>3. IsServers(server)'
      BY <2>2 DEF IsServers, IsServer
    <2>4. plane = "ready" => 1 \in DOMAIN server
      BY <1>1 DEF MemoryInv, ServersAreOfReads, IsServers
    <2>5. Cardinality(Begun(read))' = Cardinality(Begun(read'))
      BY DEF Begun
    <2>6. Len(server') <= 1 + Cardinality(Begun(read'))
      <3>1. /\ Cardinality(Begun(read)) \in Nat /\ Cardinality(Begun(read')) \in Nat
            /\ Cardinality(Begun(read)) <= Cardinality(Begun(read'))
        BY <2>1, BegunGrows
      <3>2. Len(server) \in Nat /\ Len(server) <= 1 + Cardinality(Begun(read))
        BY DEF MemoryInv, ServersAreOfReads, IsServers
      <3>3. QED
        BY <1>1, <3>1, <3>2
    <2>7. plane' = "ready" => server'[1].scope = WholeFile
      BY <2>4 DEF MemoryInv, ServersAreOfReads, Like
    <2>8. /\ plane' # "ready" => Len(server') = 0
          /\ plane' = "ready" => Len(server') >= 1
      BY <1>1 DEF MemoryInv, ServersAreOfReads
    <2>9. QED
      BY <2>3, <2>5, <2>6, <2>7, <2>8 DEF ServersAreOfReads
  <1>3. PoolIsKept'
    <2>1. IsFiniteSet(pool') /\ Cardinality(pool') <= MaxHeld
      <3>1. IsFiniteSet(pool) /\ Cardinality(pool) <= MaxHeld
        BY DEF MemoryInv, PoolIsKept, IsPool
      <3>2. IsFiniteSet(pool') /\ Cardinality(pool') <= Cardinality(pool)
        BY <3>1, FS_Subset
      <3>3. Cardinality(pool) \in Nat /\ Cardinality(pool') \in Nat
        BY <3>1, <3>2, FS_CardinalityType
      <3>4. QED
        BY <3>1, <3>2, <3>3, MemoryAssumption
    <2>2. \A e \in pool' : e.seq \in 1..nextSeq'
      BY DEF MemoryInv, PoolIsKept, IsPool
    <2>3. \A e, f \in pool' : e.scope = f.scope \/ e.seq = f.seq => e = f
      BY DEF MemoryInv, PoolIsKept, IsPool
    <2>4. \A e \in pool' : e.server \in DOMAIN server' /\ server'[e.server].scope = e.scope
      BY <1>1 DEF MemoryInv, PoolIsKept, OfServers, Like
    <2>5. QED
      BY <2>1, <2>2, <2>3, <2>4 DEF PoolIsKept, IsPool, OfServers
  <1>4. ReadsAreAnswered'
    <2>1. ASSUME NEW r \in Read, read'[r].at \in {"target", "sent"} \/ reply'[r].verdict = "answer"
          PROVE  read'[r].server \in DOMAIN server' /\ server'[read'[r].server].scope = read'[r].scope
      <3>1. read[r].server \in DOMAIN server /\ server[read[r].server].scope = read[r].scope
        BY <2>1 DEF MemoryInv, ReadsAreAnswered, Started
      <3>2. QED
        BY <1>1, <3>1 DEF Like
    <2>2. QED
      BY <2>1 DEF ReadsAreAnswered, Asks, Started
  <1>5. HeldRuns'
    <2>1. Held(pool, read)' = Held(pool', read')
      BY DEF Held
    <2>2. NoServerLeaks'
      BY <1>1, <2>1 DEF NoServerLeaks, Started
    <2>3. ASSUME deaths' = 0, NEW s \in DOMAIN server', s \in Held(pool', read')
          PROVE  server'[s].runs
      <3>1. s \in Held(pool, read)
        BY <2>3 DEF Held, Asks
      <3>2. server[s].runs
        BY <1>1, <2>3, <3>1 DEF MemoryInv, HeldRuns, Started
      <3>3. QED
        BY <1>1, <2>3, <3>2
    <2>4. QED
      BY <2>1, <2>2, <2>3 DEF HeldRuns, Started
  <1>6. QED
    BY <1>2, <1>3, <1>4, <1>5 DEF MemoryInv

\* The steps of a read that has its server, or never gets one.
LEMMA FinishIs ==
    ASSUME MemoryInv, NEW r \in Read, NEW answer, Finish(r, answer)
    PROVE  /\ read' = [x \in Read |-> read'[x]] /\ reply' = [x \in Read |-> reply'[x]]
           /\ \A x \in Read :
                /\ read'[x] = [scope |-> read'[x].scope, at |-> read'[x].at,
                               server |-> read'[x].server, id |-> read'[x].id]
                /\ read'[x].at = IF x = r THEN "over" ELSE read[x].at
                /\ read'[x].server = read[x].server /\ read'[x].scope = read[x].scope
                /\ read'[x].id = read[x].id
                /\ reply'[x] = IF x = r THEN answer ELSE reply[x]
  <1>1. /\ read = [x \in Read |-> read[x]] /\ reply = [x \in Read |-> reply[x]]
        /\ \A x \in Read : read[x] = [scope |-> read[x].scope, at |-> read[x].at,
                                      server |-> read[x].server, id |-> read[x].id]
    BY DEF MemoryInv, ReadsAreAnswered
  <1> DEFINE q == [read[r] EXCEPT !.at = "over"]
  <1>2. /\ q = [scope |-> q.scope, at |-> q.at, server |-> q.server, id |-> q.id]
        /\ q.at = "over" /\ q.server = read[r].server /\ q.scope = read[r].scope /\ q.id = read[r].id
    BY <1>1
  <1>3. read' = [read EXCEPT ![r] = q] /\ reply' = [reply EXCEPT ![r] = answer]
    BY DEF Finish
  <1> HIDE DEF q
  <1>4. QED
    BY <1>1, <1>2, <1>3

\* A read that ends, without an answer or with its own, gives its handle back.
LEMMA FinishKeeps ==
    ASSUME MemoryInv, NEW r \in Read, NEW answer, Finish(r, answer),
           answer.verdict = "answer" =>
               Asks(r) /\ answer.server = read[r].server /\ answer.id = read[r].id,
           NEW f, Like(f, server), \A s \in DOMAIN server : f[s].runs <=> server[s].runs,
           pool' \subseteq pool, nextSeq' \in Nat, nextSeq <= nextSeq',
           server' = Reap(f, pool', read'), plane' = plane, deaths' = deaths
    PROVE  MemoryInv'
  <1>1. /\ read' = [x \in Read |-> read'[x]] /\ reply' = [x \in Read |-> reply'[x]]
        /\ \A x \in Read :
             /\ read'[x] = [scope |-> read'[x].scope, at |-> read'[x].at,
                            server |-> read'[x].server, id |-> read'[x].id]
             /\ read'[x].at = IF x = r THEN "over" ELSE read[x].at
             /\ read'[x].server = read[x].server /\ read'[x].scope = read[x].scope
             /\ read'[x].id = read[x].id
             /\ reply'[x] = IF x = r THEN answer ELSE reply[x]
    BY FinishIs
  <1>2. \A x \in Read :
          /\ read'[x].at \in {"new", "target", "sent", "over"}
          /\ read'[x].at = "new" => read[x].at = "new"
          /\ read'[x].at \in {"target", "sent"} => Asks(x)
          /\ reply'[x].verdict = "answer" =>
               /\ read'[x].at = "over" /\ (Asks(x) \/ reply[x].verdict = "answer")
               /\ reply'[x].server = read'[x].server /\ reply'[x].id = read'[x].id
    BY <1>1 DEF MemoryInv, ReadsAreAnswered, Asks
  <1>3. /\ Like(server', f)
        /\ \A s \in DOMAIN f : server'[s].runs <=> f[s].runs /\ s \in Held(pool', read')
    BY ReapIs DEF Like
  <1>4. DOMAIN f = DOMAIN server
    BY ServersDomain DEF Like, MemoryInv, ServersAreOfReads
  <1>5. Like(server', server)
    BY <1>3, <1>4 DEF Like
  <1>6. deaths' \in Nat
    BY DEF MemoryInv, HeldRuns
  <1>7. QED
    BY <1>1, <1>2, <1>3, <1>4, <1>5, <1>6, MemoryKeeps

\* The servers talk, die or are asked: nobody's handle changes.
LEMMA TalkKeeps ==
    ASSUME MemoryInv, Like(server', server),
           read' = [r \in Read |-> read'[r]],
           \A r \in Read :
              /\ read'[r] = [scope |-> read'[r].scope, at |-> read'[r].at,
                             server |-> read'[r].server, id |-> read'[r].id]
              /\ read'[r].at = read[r].at \/ (read[r].at = "target" /\ read'[r].at = "sent")
              /\ read'[r].server = read[r].server /\ read'[r].scope = read[r].scope
              /\ read[r].at = "over" => read'[r].id = read[r].id,
           deaths' \in Nat,
           deaths' = 0 => deaths = 0 /\ \A s \in DOMAIN server : server[s].runs => server'[s].runs,
           UNCHANGED <<plane, pool, nextSeq, reply>>
    PROVE  MemoryInv'
  <1>1. \A r \in Read :
          /\ read'[r].at \in {"new", "target", "sent", "over"}
          /\ read'[r].at = "new" => read[r].at = "new"
          /\ read'[r].at \in {"target", "sent"} <=> read[r].at \in {"target", "sent"}
          /\ reply'[r].verdict = "answer" =>
               /\ read'[r].at = "over" /\ (Asks(r) \/ reply[r].verdict = "answer")
               /\ reply'[r].server = read'[r].server /\ reply'[r].id = read'[r].id
    BY DEF MemoryInv, ReadsAreAnswered, Asks
  <1>2. Held(pool', read') = Held(pool, read)
    BY <1>1 DEF Held
  <1>3. \A s \in DOMAIN server : server'[s].runs => s \in Held(pool', read')
    BY <1>2 DEF Like, MemoryInv, HeldRuns, NoServerLeaks, Started
  <1>4. /\ nextSeq' \in Nat /\ nextSeq <= nextSeq' /\ reply' = [r \in Read |-> reply'[r]]
        /\ \A r \in Read : read'[r].at \in {"target", "sent"} => Asks(r)
    BY <1>1 DEF MemoryInv, PoolIsKept, ReadsAreAnswered, Asks
  <1>5. QED
    BY <1>1, <1>3, <1>4, MemoryKeeps

LEMMA LikeItself ==
    ASSUME MemoryInv
    PROVE  Like(server, server) /\ \A s \in Started : IsServer(server[s])
  BY DEF MemoryInv, ServersAreOfReads, Like, IsServers, Started

LEMMA BootstrapKeeps ==
    ASSUME MemoryInv, NEW o \in {"no_environment", "unreachable", "ready"}, Bootstrap(o)
    PROVE  MemoryInv'
  <1>1. /\ Len(server) = 0 /\ DOMAIN server = {} /\ plane' = o
        /\ server' = IF o = "ready" THEN <<Fresh(WholeFile)>> ELSE server
        /\ UNCHANGED <<now, pool, nextSeq, read, reply, deaths, noise>>
    <2>1. plane # "ready" /\ IsServers(server)
      BY DEF Bootstrap, MemoryInv, ServersAreOfReads
    <2>2. Len(server) = 0
      BY <2>1 DEF MemoryInv, ServersAreOfReads
    <2>3. QED
      BY <2>1, <2>2, ServersDomain DEF Bootstrap
  <1>2. pool = {} /\ \A r \in Read : ~Asks(r) /\ reply[r].verdict # "answer"
    BY <1>1 DEF MemoryInv, PoolIsKept, OfServers, ReadsAreAnswered, Started
  <1>3. /\ IsServers(server') /\ DOMAIN server' \subseteq {1} /\ Len(server') <= 1
        /\ Len(server') = IF o = "ready" THEN 1 ELSE 0
        /\ o = "ready" => server'[1].scope = WholeFile /\ server'[1].runs /\ DOMAIN server' = {1}
    <2>1. CASE o = "ready"
      <3>1. IsServer(Fresh(WholeFile)) /\ Fresh(WholeFile).scope = WholeFile /\ Fresh(WholeFile).runs
        BY DEF Fresh, IsServer
      <3> DEFINE q == Fresh(WholeFile)
      <3> HIDE DEF q
      <3>2. server' = <<q>>
        BY <1>1, <2>1 DEF q
      <3>3. Len(server') = 1 /\ DOMAIN server' = {1} /\ server'[1] = q
        BY <3>2
      <3>4. server' = [s \in 1..1 |-> server'[s]]
        BY <3>2
      <3>5. QED
        BY <2>1, <3>1, <3>3, <3>4 DEF IsServers, q
    <2>2. CASE o # "ready"
      BY <1>1, <2>2 DEF MemoryInv, ServersAreOfReads
    <2>3. QED
      BY <2>1, <2>2
  <1>4. ServersAreOfReads'
    <2>1. IsServers(server)'
      BY <1>3 DEF IsServers, IsServer
    <2>2. Cardinality(Begun(read))' = Cardinality(Begun(read)) /\ Cardinality(Begun(read)) \in Nat
      BY <1>1, BegunGrows DEF Begun
    <2>3. QED
      BY <1>1, <1>3, <2>1, <2>2 DEF ServersAreOfReads
  <1>5. PoolIsKept'
    BY <1>1, <1>2 DEF MemoryInv, PoolIsKept, IsPool, OfServers
  <1>6. ReadsAreAnswered'
    BY <1>1, <1>2 DEF MemoryInv, ReadsAreAnswered, Asks
  <1>7. HeldRuns'
    BY <1>1, <1>3 DEF MemoryInv, HeldRuns, NoServerLeaks, Held, Started
  <1>8. QED
    BY <1>4, <1>5, <1>6, <1>7 DEF MemoryInv

LEMMA RefuseKeeps ==
    ASSUME MemoryInv, NEW r \in Read, NEW scope, Refuse(r, scope)
    PROVE  MemoryInv'
  <1> DEFINE answer == Got("refused", NoId, NoId)
  <1>1. /\ read[r].at = "new" /\ Finish(r, answer) /\ answer.verdict = "refused"
        /\ UNCHANGED <<plane, now, server, pool, nextSeq, deaths, noise>>
    BY DEF Refuse, Finish, Got
  <1> HIDE DEF answer
  <1>2. /\ read' = [x \in Read |-> read'[x]] /\ reply' = [x \in Read |-> reply'[x]]
        /\ \A x \in Read :
             /\ read'[x] = [scope |-> read'[x].scope, at |-> read'[x].at,
                            server |-> read'[x].server, id |-> read'[x].id]
             /\ read'[x].at = IF x = r THEN "over" ELSE read[x].at
             /\ read'[x].server = read[x].server /\ read'[x].scope = read[x].scope
             /\ read'[x].id = read[x].id
             /\ reply'[x] = IF x = r THEN answer ELSE reply[x]
    BY <1>1, FinishIs
  <1>3. \A x \in Read :
          /\ read'[x].at \in {"new", "target", "sent", "over"}
          /\ read'[x].at = "new" => read[x].at = "new"
          /\ read'[x].at \in {"target", "sent"} => Asks(x)
          /\ reply'[x].verdict = "answer" =>
               /\ read'[x].at = "over" /\ (Asks(x) \/ reply[x].verdict = "answer")
               /\ reply'[x].server = read'[x].server /\ reply'[x].id = read'[x].id
    BY <1>1, <1>2 DEF MemoryInv, ReadsAreAnswered, Asks
  <1>4. Held(pool', read') = Held(pool, read)
    BY <1>1, <1>2 DEF Held
  <1>5. /\ Like(server', server) /\ nextSeq' \in Nat /\ nextSeq <= nextSeq' /\ deaths' \in Nat
        /\ \A s \in DOMAIN server : server'[s].runs => s \in Held(pool', read')
    BY <1>1, <1>4, LikeItself
       DEF MemoryInv, PoolIsKept, HeldRuns, NoServerLeaks, Started
  <1>6. QED
    BY <1>1, <1>2, <1>3, <1>5, MemoryKeeps

LEMMA TargetFailsKeeps ==
    ASSUME MemoryInv, NEW r \in Read, NEW scope, TargetFails(r, scope)
    PROVE  MemoryInv'
  <1> DEFINE answer == Got("spawn", NoId, NoId)
  <1>1. /\ Finish(r, answer) /\ answer.verdict = "spawn" /\ pool' = Fresher(pool)
        /\ nextSeq' = nextSeq + 1 /\ server' = Reap(server, pool', read')
        /\ plane' = plane /\ deaths' = deaths
    BY DEF TargetFails, Finish, Got
  <1> HIDE DEF answer
  <1>2. pool' \subseteq pool /\ nextSeq' \in Nat /\ nextSeq <= nextSeq'
    BY <1>1 DEF Fresher, MemoryInv, PoolIsKept
  <1>3. Like(server, server)
    BY LikeItself
  <1>4. QED
    BY <1>1, <1>2, <1>3, FinishKeeps

LEMMA SendKeeps ==
    ASSUME MemoryInv, NEW r \in Read, Send(r)
    PROVE  MemoryInv'
  <1> DEFINE s == read[r].server
             id == server[s].next
  <1>1. /\ read[r].at = "target" /\ s \in Started /\ IsServer(server[s]) /\ Asks(r)
        /\ UNCHANGED <<plane, now, pool, nextSeq, deaths, noise>>
    BY LikeItself DEF Send, MemoryInv, ReadsAreAnswered, Asks
  <1>2. nextSeq \in Nat /\ deaths \in Nat /\ IsServers(server) /\ s \in DOMAIN server
    BY <1>1 DEF MemoryInv, PoolIsKept, HeldRuns, ServersAreOfReads, Started
  <1>3. CASE ~server[s].runs
    <2> DEFINE answer == Got("io", NoId, NoId)
    <2>1. Finish(r, answer) /\ answer.verdict = "io" /\ server' = Reap(server, pool', read')
      BY <1>1, <1>3 DEF Send, Got
    <2> HIDE DEF answer
    <2>2. QED
      BY <1>1, <1>2, <2>1, LikeItself, FinishKeeps
  <1>4. CASE server[s].runs
    <2> DEFINE q == [scope |-> server[s].scope, runs |-> server[s].runs, next |-> id + 1,
                     owes |-> server[s].owes \cup {id}, lines |-> server[s].lines]
               p == [scope |-> read[r].scope, at |-> "sent", server |-> s, id |-> id]
    <2>1. /\ server' = [server EXCEPT ![s].next = @ + 1, ![s].owes = server[s].owes \cup {id}]
          /\ read' = [read EXCEPT ![r].at = "sent", ![r].id = id] /\ UNCHANGED reply
      BY <1>4 DEF Send
    <2>2. IsServer(q) /\ q.scope = server[s].scope /\ (q.runs <=> server[s].runs)
      BY <1>1 DEF IsServer
    <2>3. server' = [server EXCEPT ![s] = q]
      <3>1. PICK a, b, c, d, e : server[s] = [scope |-> a, runs |-> b, next |-> c, owes |-> d, lines |-> e]
        BY <1>1 DEF IsServer
      <3> DEFINE t == [server[s] EXCEPT !.next = id + 1]
                 f == [server EXCEPT ![s] = t]
      <3>2. t = [scope |-> a, runs |-> b, next |-> id + 1, owes |-> d, lines |-> e]
        BY <3>1
      <3>3. /\ f[s] = t /\ f \in [DOMAIN server -> {server[x] : x \in DOMAIN server} \cup {t}]
        BY <1>2
      <3>4. server' = [f EXCEPT ![s] = [t EXCEPT !.owes = d \cup {id}]]
        BY <1>2, <2>1, <3>1
      <3> HIDE DEF t
      <3>5. [t EXCEPT !.owes = d \cup {id}] = [scope |-> a, runs |-> b, next |-> id + 1,
                                               owes |-> d \cup {id}, lines |-> e]
        BY <3>2
      <3>6. [t EXCEPT !.owes = d \cup {id}] = q
        BY <3>1, <3>5
      <3> HIDE DEF q
      <3>7. QED
        BY <3>4, <3>6
    <2>4. read' = [read EXCEPT ![r] = p]
      <3>1. PICK a, b, c, d : read[r] = [scope |-> a, at |-> b, server |-> c, id |-> d]
        BY DEF MemoryInv, ReadsAreAnswered
      <3> DEFINE t == [read[r] EXCEPT !.at = "sent"]
                 f == [read EXCEPT ![r] = t]
      <3>2. t = [scope |-> a, at |-> "sent", server |-> c, id |-> d]
        BY <3>1
      <3>3. read' = [f EXCEPT ![r] = [t EXCEPT !.id = id]]
        BY <2>1 DEF MemoryInv, ReadsAreAnswered
      <3> HIDE DEF t
      <3>4. [t EXCEPT !.id = id] = [scope |-> a, at |-> "sent", server |-> c, id |-> id]
        BY <3>2
      <3>5. [t EXCEPT !.id = id] = p
        BY <3>1, <3>4
      <3> HIDE DEF p
      <3>6. QED
        BY <3>3, <3>5
    <2>5. p.at = "sent" /\ p.server = s /\ p.scope = read[r].scope
            /\ p = [scope |-> p.scope, at |-> p.at, server |-> p.server, id |-> p.id]
      OBVIOUS
    <2> HIDE DEF p, q
    <2>6. Like(server', server) /\ \A x \in DOMAIN server : server'[x].runs <=> server[x].runs
      <3> DEFINE g == [server EXCEPT ![s] = q]
      <3>1. s \in DOMAIN server /\ IsServers(server) /\ IsServer(q) /\ q.scope = server[s].scope
        BY <1>2, <2>2
      <3>2. q.runs => server[s].runs
        BY <2>2
      <3>3. /\ Like(g, server)
            /\ \A x \in DOMAIN server : g[x].runs <=> IF x = s THEN q.runs ELSE server[x].runs
        BY <3>1, <3>2, TouchIs
      <3>4. server' = g
        BY <2>3
      <3> HIDE DEF g
      <3>5. QED
        BY <2>2, <3>3, <3>4
    <2>7. /\ read' = [x \in Read |-> read'[x]]
          /\ \A x \in Read : read'[x] = IF x = r THEN p ELSE read[x]
      BY <2>4 DEF MemoryInv, ReadsAreAnswered
    <2>8. \A x \in Read :
              /\ read'[x] = [scope |-> read'[x].scope, at |-> read'[x].at,
                             server |-> read'[x].server, id |-> read'[x].id]
              /\ read'[x].at = read[x].at \/ (read[x].at = "target" /\ read'[x].at = "sent")
              /\ read'[x].server = read[x].server /\ read'[x].scope = read[x].scope
              /\ read[x].at = "over" => read'[x].id = read[x].id
      BY <1>1, <2>5, <2>7 DEF MemoryInv, ReadsAreAnswered
    <2>9. QED
      BY <1>1, <1>2, <2>1, <2>6, <2>7, <2>8, TalkKeeps
  <1>5. QED
    BY <1>3, <1>4

\* A line of one server's, taken or written, or its end.
LEMMA LinesKeep ==
    ASSUME MemoryInv, NEW s \in Started, NEW lines, NEW f,
           f = [server EXCEPT ![s].lines = lines]
    PROVE  Like(f, server) /\ \A x \in DOMAIN server : f[x].runs <=> server[x].runs
  <1> DEFINE q == [server[s] EXCEPT !.lines = lines]
             g == [server EXCEPT ![s] = q]
  <1>1. IsServers(server) /\ s \in DOMAIN server /\ IsServer(server[s])
    BY LikeItself DEF MemoryInv, ServersAreOfReads, Started
  <1>2. IsServer(q) /\ q.scope = server[s].scope /\ (q.runs <=> server[s].runs)
    BY <1>1 DEF IsServer
  <1>3. f = g
    BY <1>1
  <1> HIDE DEF q
  <1>4. q.runs => server[s].runs
    BY <1>2
  <1>5. /\ Like(g, server)
        /\ \A x \in DOMAIN server : g[x].runs <=> IF x = s THEN q.runs ELSE server[x].runs
    BY <1>1, <1>2, <1>4, TouchIs
  <1> HIDE DEF g
  <1>6. QED
    BY <1>2, <1>3, <1>5

LEMMA ReceiveKeeps ==
    ASSUME MemoryInv, NEW r \in Read, Receive(r)
    PROVE  MemoryInv'
  <1> DEFINE s == read[r].server
             line == Head(server[s].lines)
             rest == [server EXCEPT ![s].lines = Tail(@)]
  <1>1. /\ Asks(r) /\ s \in Started
        /\ UNCHANGED <<plane, now, pool, nextSeq, deaths, noise>>
        /\ server' = Reap(rest, pool, read') /\ server' = Reap(rest, pool', read')
    BY DEF Receive, MemoryInv, ReadsAreAnswered, Asks
  <1>2. Like(rest, server) /\ \A x \in DOMAIN server : rest[x].runs <=> server[x].runs
    <2> DEFINE lines == Tail(server[s].lines)
    <2>1. rest = [server EXCEPT ![s].lines = lines] /\ s \in Started
      BY <1>1 DEF Started
    <2> HIDE DEF rest, lines, s
    <2>2. QED
      BY <2>1, LinesKeep
  <1> HIDE DEF rest
  <1>3. /\ nextSeq' \in Nat /\ nextSeq <= nextSeq' /\ pool' \subseteq pool /\ plane' = plane
        /\ deaths' = deaths
    BY <1>1 DEF MemoryInv, PoolIsKept
  <1>4. ASSUME NEW answer, Finish(r, answer),
               answer.verdict = "answer" => answer.server = s /\ answer.id = read[r].id
        PROVE  MemoryInv'
    BY <1>1, <1>2, <1>3, <1>4, FinishKeeps
  <1>5. CASE Finish(r, Got("protocol", NoId, NoId))
    <2>1. Got("protocol", NoId, NoId).verdict = "protocol"
      BY DEF Got
    <2> DEFINE answer == Got("protocol", NoId, NoId)
    <2> HIDE DEF answer
    <2>2. Finish(r, answer) /\ answer.verdict # "answer"
      BY <1>5, <2>1 DEF answer
    <2>3. QED
      BY <1>4, <2>2
  <1>6. CASE Finish(r, Got("answer", s, line.id)) /\ IsAnswer(line, read[r].id)
    <2> DEFINE answer == Got("answer", s, line.id)
    <2>1. answer.server = s /\ answer.id = read[r].id
      BY <1>6 DEF Got, IsAnswer
    <2> HIDE DEF answer
    <2>2. Finish(r, answer)
      BY <1>6 DEF answer
    <2>3. QED
      BY <1>4, <2>1, <2>2
  <1>7. CASE UNCHANGED <<read, reply>>
    <2>1. Held(pool, read') = Held(pool, read)
      BY <1>7
    <2>2. /\ Like(server', rest)
          /\ \A x \in DOMAIN rest : server'[x].runs <=> rest[x].runs /\ x \in Held(pool, read')
      BY <1>1, <1>2, ReapIs DEF Like
    <2>3. DOMAIN rest = DOMAIN server
      BY <1>2, ServersDomain DEF Like, MemoryInv, ServersAreOfReads
    <2>4. Like(server', server)
      BY <1>2, <2>2, <2>3 DEF Like
    <2>5. \A x \in DOMAIN server : server[x].runs => server'[x].runs
      BY <1>2, <2>1, <2>2, <2>3 DEF MemoryInv, HeldRuns, NoServerLeaks, Started
    <2>6. deaths' \in Nat /\ (deaths' = 0 => deaths = 0)
      BY <1>1 DEF MemoryInv, HeldRuns
    <2>7. /\ read' = [x \in Read |-> read'[x]]
          /\ \A x \in Read :
              /\ read'[x] = [scope |-> read'[x].scope, at |-> read'[x].at,
                             server |-> read'[x].server, id |-> read'[x].id]
              /\ read'[x] = read[x]
      BY <1>7 DEF MemoryInv, ReadsAreAnswered
    <2>8. QED
      BY <1>1, <1>7, <2>4, <2>5, <2>6, <2>7, TalkKeeps
  <1>8. QED
    BY <1>5, <1>6, <1>7 DEF Receive

LEMMA TimeOutKeeps ==
    ASSUME MemoryInv, NEW r \in Read, TimeOut(r)
    PROVE  MemoryInv'
  <1> DEFINE answer == Got("timeout", NoId, NoId)
  <1>1. /\ Finish(r, answer) /\ answer.verdict = "timeout" /\ server' = Reap(server, pool', read')
        /\ pool' = pool /\ nextSeq' = nextSeq /\ plane' = plane /\ deaths' = deaths
    BY DEF TimeOut, Got
  <1> HIDE DEF answer
  <1>2. nextSeq \in Nat /\ Like(server, server)
    BY LikeItself DEF MemoryInv, PoolIsKept
  <1>3. QED
    BY <1>1, <1>2, FinishKeeps

\* Servers that talk or die on their own.
LEMMA AloneKeeps ==
    ASSUME MemoryInv, Like(server', server), deaths' \in Nat,
           deaths' = 0 => deaths = 0 /\ \A s \in DOMAIN server : server[s].runs => server'[s].runs,
           UNCHANGED <<plane, pool, nextSeq, read, reply>>
    PROVE  MemoryInv'
  <1>1. /\ read' = [x \in Read |-> read'[x]]
        /\ \A x \in Read :
             /\ read'[x] = [scope |-> read'[x].scope, at |-> read'[x].at,
                            server |-> read'[x].server, id |-> read'[x].id]
             /\ read'[x] = read[x]
    BY DEF MemoryInv, ReadsAreAnswered
  <1>2. QED
    BY <1>1, TalkKeeps

LEMMA AnswersKeeps ==
    ASSUME MemoryInv, NEW s \in Started, NEW id, Answers(s, id)
    PROVE  MemoryInv'
  <1> DEFINE lines == Append(server[s].lines, [kind |-> "answer", id |-> id])
             owes == server[s].owes \ {id}
             q == [scope |-> server[s].scope, runs |-> server[s].runs, next |-> server[s].next,
                   owes |-> owes, lines |-> lines]
  <1>1. /\ server' = [server EXCEPT ![s].owes = owes, ![s].lines = lines]
        /\ UNCHANGED <<plane, now, pool, nextSeq, read, reply, deaths, noise>>
        /\ IsServers(server) /\ s \in DOMAIN server /\ IsServer(server[s])
    BY LikeItself DEF Answers, MemoryInv, ServersAreOfReads, Started
  <1>2. IsServer(q) /\ q.scope = server[s].scope /\ (q.runs <=> server[s].runs)
    BY <1>1 DEF IsServer
  <1>3. server' = [server EXCEPT ![s] = q]
    <2> HIDE DEF lines, owes
    <2>1. PICK a, b, c, d, e : server[s] = [scope |-> a, runs |-> b, next |-> c, owes |-> d, lines |-> e]
      BY <1>1 DEF IsServer
    <2> DEFINE t == [server[s] EXCEPT !.owes = owes]
               f == [server EXCEPT ![s] = t]
    <2>2. t = [scope |-> a, runs |-> b, next |-> c, owes |-> owes, lines |-> e]
      BY <2>1
    <2>3. server' = [f EXCEPT ![s] = [t EXCEPT !.lines = lines]]
      BY <1>1
    <2> HIDE DEF t
    <2>4. [t EXCEPT !.lines = lines] = [scope |-> a, runs |-> b, next |-> c, owes |-> owes,
                                        lines |-> lines]
      BY <2>2
    <2>5. [t EXCEPT !.lines = lines] = q
      BY <2>1, <2>4
    <2> HIDE DEF q
    <2>6. QED
      BY <1>1, <2>3, <2>5
  <1> HIDE DEF q
  <1>4. Like(server', server) /\ \A x \in DOMAIN server : server'[x].runs <=> server[x].runs
    <2> DEFINE g == [server EXCEPT ![s] = q]
    <2>1. q.runs => server[s].runs
      BY <1>2
    <2>2. /\ Like(g, server)
          /\ \A x \in DOMAIN server : g[x].runs <=> IF x = s THEN q.runs ELSE server[x].runs
      BY <1>1, <1>2, <2>1, TouchIs
    <2>3. server' = g
      BY <1>3
    <2> HIDE DEF g
    <2>4. QED
      BY <1>2, <2>2, <2>3
  <1>5. deaths \in Nat
    BY DEF MemoryInv, HeldRuns
  <1>6. QED
    BY <1>1, <1>4, <1>5, AloneKeeps

LEMMA NoiseKeeps ==
    ASSUME MemoryInv, NEW s \in Started, NEW kind, Noise(s, kind)
    PROVE  MemoryInv'
  <1> DEFINE lines == Append(server[s].lines, [kind |-> kind, id |-> NoId])
  <1>1. /\ server' = [server EXCEPT ![s].lines = lines]
        /\ UNCHANGED <<plane, now, pool, nextSeq, read, reply, deaths>>
    BY DEF Noise, Started
  <1> HIDE DEF lines
  <1>2. Like(server', server) /\ \A x \in DOMAIN server : server'[x].runs <=> server[x].runs
    BY <1>1, LinesKeep
  <1>3. deaths \in Nat
    BY DEF MemoryInv, HeldRuns
  <1>4. QED
    BY <1>1, <1>2, <1>3, AloneKeeps

LEMMA ServerDiesKeeps ==
    ASSUME MemoryInv, NEW s \in Started, ServerDies(s)
    PROVE  MemoryInv'
  <1> DEFINE q == [scope |-> server[s].scope, runs |-> FALSE, next |-> server[s].next,
                   owes |-> {}, lines |-> server[s].lines]
  <1>1. /\ server' = [server EXCEPT ![s].runs = FALSE, ![s].owes = {}]
        /\ UNCHANGED <<plane, now, pool, nextSeq, read, reply, noise>>
        /\ IsServers(server) /\ s \in DOMAIN server /\ IsServer(server[s])
        /\ deaths' = deaths + 1 /\ deaths \in Nat
    BY LikeItself DEF ServerDies, MemoryInv, ServersAreOfReads, HeldRuns, Started
  <1>2. IsServer(q) /\ q.scope = server[s].scope /\ ~q.runs
    BY <1>1 DEF IsServer
  <1>3. server' = [server EXCEPT ![s] = q]
    <2>1. PICK a, b, c, d, e : server[s] = [scope |-> a, runs |-> b, next |-> c, owes |-> d, lines |-> e]
      BY <1>1 DEF IsServer
    <2> DEFINE off == FALSE
               none == {}
               t == [server[s] EXCEPT !.runs = off]
               f == [server EXCEPT ![s] = t]
    <2>3. server' = [f EXCEPT ![s] = [t EXCEPT !.owes = none]]
      BY <1>1
    <2>7. q = [scope |-> a, runs |-> off, next |-> c, owes |-> none, lines |-> e]
      BY <2>1
    <2> HIDE DEF off, none, q
    <2>2. t = [scope |-> a, runs |-> off, next |-> c, owes |-> d, lines |-> e]
      BY <2>1
    <2> HIDE DEF t
    <2>4. [t EXCEPT !.owes = none] = [scope |-> a, runs |-> off, next |-> c, owes |-> none, lines |-> e]
      BY <2>2
    <2>5. [t EXCEPT !.owes = none] = q
      BY <2>4, <2>7
    <2>6. QED
      BY <1>1, <2>3, <2>5
  <1> HIDE DEF q
  <1>4. Like(server', server)
    <2> DEFINE g == [server EXCEPT ![s] = q]
    <2>1. q.runs => server[s].runs
      BY <1>2
    <2>2. Like(g, server)
      BY <1>1, <1>2, <2>1, TouchIs
    <2>3. server' = g
      BY <1>3
    <2> HIDE DEF g
    <2>4. QED
      BY <2>2, <2>3
  <1>5. deaths' \in Nat /\ deaths' # 0
    BY <1>1
  <1>6. QED
    BY <1>1, <1>4, <1>5, AloneKeeps

\* A read is given the first server, its scope's, or a new one; what is closed for it is
\* idle, or older than everything that stays.
ChoosesAServer(r, scope, s, f, entries) ==
    /\ IsServers(f) /\ s \in DOMAIN f /\ f[s].scope = scope /\ f[1] = server[1]
    /\ \A x \in Started : x \in DOMAIN f /\ f[x] = server[x]
    /\ \A x \in DOMAIN f : x \in Started \/ (x = s /\ f[x].runs)
    /\ Len(f) <= Len(server) + 1
    /\ s \in Started => s \in Held(pool, read)
    /\ nextSeq' \in Nat /\ IsPool(entries, nextSeq') /\ OfServers(entries, f)
    /\ \A e \in entries : e \in pool \/ e.server = s
    /\ \A e \in pool : OfScope(entries, e.scope) = {} /\ now - e.lastUsed <= IdleAfter =>
            Cardinality({g \in entries : g.seq > e.seq}) = MaxHeld
    /\ read' = [read EXCEPT ![r] = [scope |-> scope, at |-> "target", server |-> s, id |-> NoId]]
    /\ pool' = entries /\ server' = Reap(f, entries, read')

LEMMA ReadyServers ==
    ASSUME MemoryInv, plane = "ready"
    PROVE  /\ IsServers(server) /\ Len(server) \in Nat /\ Len(server) >= 1
           /\ server[1].scope = WholeFile /\ Started = 1..Len(server) /\ 1 \in Started
  <1>1. IsServers(server) /\ Len(server) \in Nat /\ Len(server) >= 1 /\ server[1].scope = WholeFile
    BY DEF MemoryInv, ServersAreOfReads, IsServers
  <1>2. Started = 1..Len(server)
    BY <1>1, ServersDomain DEF Started
  <1>3. QED
    BY <1>1, <1>2

LEMMA FresherIs ==
    ASSUME MemoryInv
    PROVE  /\ Fresher(pool) \subseteq pool /\ IsPool(Fresher(pool), nextSeq)
           /\ OfServers(Fresher(pool), server)
           /\ \A e \in pool : now - e.lastUsed <= IdleAfter => e \in Fresher(pool)
  <1> DEFINE left == Fresher(pool)
  <1>1. left \subseteq pool /\ \A e \in pool : now - e.lastUsed <= IdleAfter => e \in left
    BY DEF Fresher
  <1> HIDE DEF left
  <1>2. nextSeq \in Nat /\ IsPool(pool, nextSeq) /\ OfServers(pool, server)
    BY DEF MemoryInv, PoolIsKept
  <1>3. IsFiniteSet(left) /\ Cardinality(left) <= MaxHeld
    <2>1. IsFiniteSet(pool) /\ Cardinality(pool) <= MaxHeld
      BY <1>2 DEF IsPool
    <2>2. IsFiniteSet(left) /\ Cardinality(left) <= Cardinality(pool)
      BY <1>1, <2>1, FS_Subset
    <2>3. Cardinality(left) \in Nat /\ Cardinality(pool) \in Nat
      BY <2>1, <2>2, FS_CardinalityType
    <2>4. QED
      BY <2>1, <2>2, <2>3, MemoryAssumption
  <1>4. IsPool(left, nextSeq) /\ OfServers(left, server)
    BY <1>1, <1>2, <1>3 DEF IsPool, OfServers
  <1>5. QED
    BY <1>1, <1>4 DEF left

\* The whole file's server is the first one, and nothing else happens.
LEMMA TargetWholeFile ==
    ASSUME MemoryInv, NEW r \in Read, Target(r, WholeFile)
    PROVE  ChoosesAServer(r, WholeFile, 1, server, pool) /\ plane = "ready" /\ read[r].at = "new"
  <1>1. plane = "ready" /\ read[r].at = "new"
    BY DEF Target
  <1>2. /\ IsServers(server) /\ Len(server) \in Nat /\ Len(server) >= 1
        /\ server[1].scope = WholeFile /\ Started = 1..Len(server) /\ 1 \in Started
    BY <1>1, ReadyServers
  <1>3. /\ pool' = pool /\ nextSeq' = nextSeq
        /\ read' = [read EXCEPT ![r] = [scope |-> WholeFile, at |-> "target", server |-> 1,
                                        id |-> NoId]]
        /\ server' = Reap(server, pool, read')
    BY <1>2 DEF Target
  <1>4. nextSeq \in Nat /\ IsPool(pool, nextSeq) /\ OfServers(pool, server)
    BY DEF MemoryInv, PoolIsKept
  <1>5. 1 \in Held(pool, read) /\ \A e \in pool : e \in OfScope(pool, e.scope)
    BY DEF Held, OfScope
  <1>6. QED
    BY <1>1, <1>2, <1>3, <1>4, <1>5 DEF ChoosesAServer, Started

\* The entry of the scope is read again.
LEMMA TargetAgain ==
    ASSUME MemoryInv, NEW r \in Read, NEW scope, scope # WholeFile, Target(r, scope),
           OfScope(Fresher(pool), scope) # {}
    PROVE  \E s, entries : ChoosesAServer(r, scope, s, server, entries)
  <1> DEFINE left == Fresher(pool)
             have == OfScope(left, scope)
             old == CHOOSE e \in have : TRUE
             s == old.server
             entry == [scope |-> scope, server |-> s, lastUsed |-> now, seq |-> nextSeq + 1]
             entries == (left \ have) \cup {entry}
  <1>1. plane = "ready" /\ read[r].at = "new"
    BY DEF Target
  <1>2. /\ IsServers(server) /\ Len(server) \in Nat /\ Len(server) >= 1
        /\ server[1].scope = WholeFile /\ Started = 1..Len(server) /\ 1 \in Started
    BY <1>1, ReadyServers
  <1>3. /\ nextSeq \in Nat /\ left \subseteq pool /\ IsPool(left, nextSeq) /\ OfServers(left, server)
        /\ \A e \in pool : now - e.lastUsed <= IdleAfter => e \in left
    BY FresherIs DEF MemoryInv, PoolIsKept
  <1>4. old \in have
    OBVIOUS
  <1>5. have = {e \in left : e.scope = scope}
    BY DEF OfScope
  <1> HIDE DEF left, have, old
  <1>6. old \in left /\ old.scope = scope /\ have = {old}
    BY <1>3, <1>4, <1>5 DEF IsPool
  <1>7. s \in Started /\ server[s].scope = scope /\ s \in Held(pool, read)
    BY <1>3, <1>6 DEF OfServers, Started, Held
  <1>8. /\ pool' = entries /\ nextSeq' = nextSeq + 1
        /\ read' = [read EXCEPT ![r] = [scope |-> scope, at |-> "target", server |-> s, id |-> NoId]]
        /\ server' = Reap(server, entries, read')
    BY <1>7 DEF Target, left, have, old
  <1>9. entry.scope = scope /\ entry.server = s /\ entry.seq = nextSeq + 1
    OBVIOUS
  <1> HIDE DEF entry, s
  <1>10. entries = (left \ {old}) \cup {entry}
    BY <1>6
  <1> HIDE DEF entries
  <1>11. IsPool(entries, nextSeq + 1)
    <2>1. IsFiniteSet(left) /\ Cardinality(left) \in Nat /\ Cardinality(left) <= MaxHeld
      BY <1>3, FS_CardinalityType DEF IsPool
    <2> DEFINE others == left \ {old}
    <2>2. IsFiniteSet(others) /\ Cardinality(others) = Cardinality(left) - 1
      BY <1>6, <2>1, FS_RemoveElement
    <2>11. entries = others \cup {entry} /\ entry \notin others
      BY <1>3, <1>9, <1>10 DEF IsPool
    <2> HIDE DEF others
    <2>3. Cardinality(others) \in Nat
      BY <2>2, FS_CardinalityType
    <2>4. IsFiniteSet(entries) /\ Cardinality(entries) = Cardinality(others) + 1
      BY <2>2, <2>3, <2>11, FS_AddElement
    <2>5. Cardinality(entries) \in Nat
      BY <2>4, FS_CardinalityType
    <2>6. Cardinality(entries) <= MaxHeld
      BY <2>1, <2>2, <2>3, <2>4, <2>5, MemoryAssumption
    <2>7. \A e \in entries : e.seq \in 1..(nextSeq + 1)
      BY <1>3, <1>9, <1>10 DEF IsPool
    <2>8. \A e \in left \ {old} : e.scope # scope /\ e.seq # nextSeq + 1
      BY <1>3, <1>6 DEF IsPool
    <2>9. \A e, g \in entries : e.scope = g.scope \/ e.seq = g.seq => e = g
      BY <1>3, <1>9, <1>10, <2>8 DEF IsPool
    <2>10. QED
      BY <2>4, <2>6, <2>7, <2>9 DEF IsPool
  <1>12. OfServers(entries, server) /\ \A e \in entries : e \in pool \/ e.server = s
    BY <1>3, <1>7, <1>9, <1>10 DEF OfServers, Started
  <1>13. ASSUME NEW e \in pool, OfScope(entries, e.scope) = {}, now - e.lastUsed <= IdleAfter
         PROVE  FALSE
    <2>1. e \in left /\ e \notin entries /\ entry \in entries /\ entry.scope # e.scope
      BY <1>3, <1>10, <1>13 DEF OfScope
    <2>2. QED
      BY <1>6, <1>9, <1>10, <2>1
  <1>14. ChoosesAServer(r, scope, s, server, entries)
    BY <1>2, <1>3, <1>7, <1>8, <1>11, <1>12, <1>13 DEF ChoosesAServer, Started
  <1>15. QED
    BY <1>14

\* A new server: whoever is closed for it is older than all that stay, and the pool is full.
LEMMA TargetNew ==
    ASSUME MemoryInv, NEW r \in Read, NEW scope, scope # WholeFile, Target(r, scope),
           OfScope(Fresher(pool), scope) = {}
    PROVE  \E s, f, entries : ChoosesAServer(r, scope, s, f, entries)
  <1> DEFINE left == Fresher(pool)
             room == MakeRoom(left)
             s == Len(server) + 1
             entry == [scope |-> scope, server |-> s, lastUsed |-> now, seq |-> nextSeq + 1]
             entries == room \cup {entry}
             f == Append(server, Fresh(scope))
  <1>1. plane = "ready" /\ read[r].at = "new"
    BY DEF Target
  <1>2. /\ IsServers(server) /\ Len(server) \in Nat /\ Len(server) >= 1
        /\ server[1].scope = WholeFile /\ Started = 1..Len(server) /\ 1 \in Started
    BY <1>1, ReadyServers
  <1>3. /\ nextSeq \in Nat /\ left \subseteq pool /\ IsPool(left, nextSeq) /\ OfServers(left, server)
        /\ \A e \in pool : now - e.lastUsed <= IdleAfter => e \in left
    BY FresherIs DEF MemoryInv, PoolIsKept
  <1>4. \A e \in left : e.scope # scope
    BY DEF OfScope
  <1>5. s \notin Started
    BY <1>2
  <1>6. /\ pool' = entries /\ nextSeq' = nextSeq + 1
        /\ read' = [read EXCEPT ![r] = [scope |-> scope, at |-> "target", server |-> s, id |-> NoId]]
        /\ server' = Reap(f, entries, read')
    BY <1>5 DEF Target
  <1>7. /\ IsServers(f) /\ Len(f) = s /\ DOMAIN f = 1..s /\ f[s].scope = scope /\ f[s].runs
        /\ \A x \in Started : f[x] = server[x]
    <2> DEFINE q == Fresh(scope)
    <2>1. IsServer(q) /\ q.scope = scope /\ q.runs
      BY DEF Fresh, IsServer
    <2> HIDE DEF q
    <2> DEFINE all == {server[x] : x \in 1..Len(server)} \cup {q}
    <2>2. server \in Seq(all) /\ q \in all
      <3>1. server = [x \in 1..Len(server) |-> server[x]]
        BY <1>2 DEF IsServers
      <3>2. server \in [1..Len(server) -> all]
        BY <3>1
      <3>3. QED
        BY <1>2, <3>2
    <2>3. f = Append(server, q)
      BY DEF q
    <2> HIDE DEF f, all
    <2>7. f \in Seq(all) /\ Len(f) = s /\ f[s] = q
      BY <1>2, <2>2, <2>3
    <2>8. \A x \in 1..Len(server) : f[x] = server[x]
      BY <1>2, <2>2, <2>3
    <2>9. f \in [1..s -> all]
      BY <1>2, <2>7
    <2>4. DOMAIN f = 1..s /\ f = [x \in 1..s |-> f[x]]
      <3>1. \A A, B : \A h \in [A -> B] : DOMAIN h = A /\ h = [x \in A |-> h[x]]
        OBVIOUS
      <3>2. QED
        BY <2>9, <3>1, Zenon
    <2>5. \A x \in DOMAIN f : IsServer(f[x])
      <3>1. ASSUME NEW x \in 1..s
            PROVE  x = s \/ x \in 1..Len(server)
        BY <1>2, <3>1
      <3>2. \A x \in 1..Len(server) : IsServer(server[x])
        BY <1>2 DEF IsServers, Started
      <3>3. QED
        BY <2>1, <2>4, <2>7, <2>8, <3>1, <3>2
    <2>6. IsServers(f)
      <3>1. Len(f) \in Nat
        BY <2>7
      <3>2. f = [x \in 1..Len(f) |-> f[x]]
        BY <2>4, <2>7, Zenon
      <3>3. QED
        BY <2>5, <3>1, <3>2, Zenon DEF IsServers
    <2>10. \A x \in Started : f[x] = server[x]
      BY <1>2, <2>8, Zenon
    <2>11. f[s].scope = scope /\ f[s].runs
      BY <2>1, <2>7, Zenon
    <2>12. QED
      BY <2>4, <2>6, <2>7, <2>10, <2>11, Zenon
  <1>8. entry.scope = scope /\ entry.server = s /\ entry.seq = nextSeq + 1
    OBVIOUS
  <1> HIDE DEF left, entry, f
  <1>9. /\ room \subseteq left /\ IsFiniteSet(room) /\ Cardinality(room) <= MaxHeld - 1
        /\ \A e \in left \ room : /\ Cardinality(room) = MaxHeld - 1
                                  /\ \A m \in room : m.seq > e.seq
    BY <1>3, MakeRoomIs
  <1> HIDE DEF room
  <1>10. \A e \in left : e.seq \in 1..nextSeq /\ e.seq # nextSeq + 1
    BY <1>3 DEF IsPool
  <1>11. entry \notin room /\ IsFiniteSet(entries) /\ Cardinality(entries) = Cardinality(room) + 1
    <2>1. entry \notin room
      BY <1>4, <1>8, <1>9
    <2>2. QED
      BY <1>9, <2>1, FS_AddElement
  <1>12. IsPool(entries, nextSeq + 1)
    <2>1. Cardinality(entries) <= MaxHeld
      <3>1. Cardinality(room) \in Nat
        BY <1>9, FS_CardinalityType
      <3>2. QED
        BY <1>9, <1>11, <3>1, MemoryAssumption
    <2>2. \A e \in entries : e.seq \in 1..(nextSeq + 1)
      BY <1>3, <1>8, <1>9, <1>10
    <2>3. \A e, g \in room : e.scope = g.scope \/ e.seq = g.seq => e = g
      BY <1>3, <1>9 DEF IsPool
    <2>4. \A e \in room : e.scope # entry.scope /\ e.seq # entry.seq
      BY <1>4, <1>8, <1>9, <1>10
    <2>5. \A e, g \in entries : e.scope = g.scope \/ e.seq = g.seq => e = g
      BY <2>3, <2>4
    <2>6. QED
      BY <1>11, <2>1, <2>2, <2>5 DEF IsPool
  <1>13. OfServers(entries, f) /\ \A e \in entries : e \in pool \/ e.server = s
    <2>1. \A e \in room : e.server \in Started /\ server[e.server].scope = e.scope /\ e \in pool
      BY <1>3, <1>9 DEF OfServers, Started
    <2>2. QED
      BY <1>2, <1>7, <1>8, <2>1 DEF OfServers
  <1>14. ASSUME NEW e \in pool, OfScope(entries, e.scope) = {}, now - e.lastUsed <= IdleAfter
         PROVE  Cardinality({g \in entries : g.seq > e.seq}) = MaxHeld
    <2>1. e \in left /\ e \notin room
      BY <1>3, <1>14 DEF OfScope
    <2>2. Cardinality(room) = MaxHeld - 1 /\ \A m \in room : m.seq > e.seq
      BY <1>9, <2>1
    <2>3. entry.seq > e.seq
      BY <1>3, <1>8, <1>10, <2>1
    <2>4. {g \in entries : g.seq > e.seq} = entries
      BY <2>2, <2>3
    <2>5. QED
      BY <1>11, <2>2, <2>4, MemoryAssumption
  <1>15. s \notin Started /\ s \in DOMAIN f /\ Len(f) <= Len(server) + 1
         /\ nextSeq' \in Nat /\ IsPool(entries, nextSeq')
    BY <1>2, <1>3, <1>5, <1>6, <1>7, <1>12
  <1>16. /\ f[1] = server[1] /\ \A x \in Started : x \in DOMAIN f /\ f[x] = server[x]
         /\ \A x \in DOMAIN f : x \in Started \/ (x = s /\ f[x].runs)
    BY <1>2, <1>7
  <1> HIDE DEF s, entries
  <1>17. ChoosesAServer(r, scope, s, f, entries)
    BY <1>6, <1>7, <1>13, <1>14, <1>15, <1>16 DEF ChoosesAServer
  <1>18. QED
    BY <1>17

\* The chosen server is held by the read from here on.
LEMMA TargetKeeps ==
    ASSUME MemoryInv, NEW r \in Read, NEW scope, read[r].at = "new", plane = "ready",
           UNCHANGED <<plane, now, reply, deaths, noise>>,
           NEW s, NEW f, NEW entries, ChoosesAServer(r, scope, s, f, entries)
    PROVE  MemoryInv'
  <1> DEFINE q == [scope |-> scope, at |-> "target", server |-> s, id |-> NoId]
  <1>1. read' = [read EXCEPT ![r] = q] /\ pool' = entries /\ server' = Reap(f, entries, read')
    BY DEF ChoosesAServer
  <1>2. /\ q.scope = scope /\ q.at = "target" /\ q.server = s
        /\ q = [scope |-> q.scope, at |-> q.at, server |-> q.server, id |-> q.id]
    OBVIOUS
  <1> HIDE DEF q
  <1>3. /\ read' = [x \in Read |-> read'[x]]
        /\ \A x \in Read : read'[x] = IF x = r THEN q ELSE read[x]
    BY <1>1 DEF MemoryInv, ReadsAreAnswered
  <1>4. /\ IsServers(f) /\ s \in DOMAIN f /\ f[s].scope = scope /\ f[1] = server[1]
        /\ \A x \in Started : x \in DOMAIN f /\ f[x] = server[x]
        /\ \A x \in DOMAIN f : x \in Started \/ (x = s /\ f[x].runs)
        /\ Len(f) <= Len(server) + 1 /\ Len(f) \in Nat
    BY DEF ChoosesAServer, IsServers
  <1>5. /\ Like(server', f)
        /\ \A x \in DOMAIN f : server'[x].runs <=> f[x].runs /\ x \in Held(pool', read')
    BY <1>1, <1>4, ReapIs
  <1>6. DOMAIN server' = DOMAIN f /\ Len(server') = Len(f) /\ DOMAIN f = 1..Len(f)
    BY <1>4, <1>5, ServersDomain DEF Like
  <1>7. /\ IsServers(server) /\ Len(server) \in Nat /\ Len(server) >= 1
        /\ server[1].scope = WholeFile /\ Started = 1..Len(server) /\ 1 \in Started
    BY ReadyServers
  <1>8. \A x \in DOMAIN f : server'[x].scope = f[x].scope
    BY <1>5 DEF Like
  <1>9. ServersAreOfReads'
    <2>1. IsServers(server')
      BY <1>5 DEF Like
    <2>2. IsServers(server)'
      BY <2>1 DEF IsServers, IsServer
    <2>3. Begun(read') = Begun(read) \cup {r} /\ r \notin Begun(read)
      BY <1>2, <1>3 DEF Begun
    <2>4. IsFiniteSet(Begun(read))
      <3>1. Begun(read) \subseteq Read
        BY DEF Begun
      <3>2. QED
        BY <3>1, FS_Subset, MemoryAssumption
    <2>5. Cardinality(Begun(read')) = Cardinality(Begun(read)) + 1 /\ Cardinality(Begun(read)) \in Nat
      BY <2>3, <2>4, FS_AddElement, FS_CardinalityType
    <2>6. Len(server) <= 1 + Cardinality(Begun(read))
      BY DEF MemoryInv, ServersAreOfReads
    <2>7. Len(server') <= 1 + Cardinality(Begun(read'))
      BY <1>4, <1>6, <1>7, <2>5, <2>6
    <2>8. Len(server') >= 1 /\ server'[1].scope = WholeFile
      BY <1>4, <1>6, <1>7, <1>8
    <2>9. Cardinality(Begun(read))' = Cardinality(Begun(read'))
      BY DEF Begun
    <2>10. QED
      BY <2>2, <2>7, <2>8, <2>9 DEF ServersAreOfReads
  <1>10. PoolIsKept'
    <2>1. nextSeq' \in Nat /\ IsPool(pool', nextSeq')
      BY <1>1 DEF ChoosesAServer
    <2>2. \A e \in pool' : e.server \in DOMAIN server' /\ server'[e.server].scope = e.scope
      BY <1>1, <1>6, <1>8 DEF ChoosesAServer, OfServers
    <2>3. QED
      BY <2>1, <2>2 DEF PoolIsKept, IsPool, OfServers
  <1>11. ReadsAreAnswered'
    <2>1. \A x \in Read : /\ reply'[x] = reply[x]
                          /\ reply[x].verdict = "answer" => read[x].at = "over" /\ x # r
      BY DEF MemoryInv, ReadsAreAnswered
    <2>2. ASSUME NEW x \in Read, read'[x].at \in {"target", "sent"} \/ reply'[x].verdict = "answer"
          PROVE  read'[x].server \in DOMAIN server' /\ server'[read'[x].server].scope = read'[x].scope
      <3>1. CASE x = r
        BY <1>2, <1>3, <1>4, <1>6, <1>8, <3>1
      <3>2. CASE x # r
        <4>1. read'[x] = read[x] /\ read[x].server \in Started
              /\ server[read[x].server].scope = read[x].scope
          BY <1>3, <2>1, <2>2, <3>2 DEF MemoryInv, ReadsAreAnswered, Asks
        <4>2. QED
          BY <1>4, <1>6, <1>8, <4>1
      <3>3. QED
        BY <3>1, <3>2
    <2>3. \A x \in Read :
         /\ read'[x] = [scope |-> read'[x].scope, at |-> read'[x].at, server |-> read'[x].server,
                        id |-> read'[x].id]
         /\ read'[x].at \in {"new", "target", "sent", "over"}
         /\ reply'[x].verdict = "answer" =>
              /\ read'[x].at = "over" /\ reply'[x].server = read'[x].server
              /\ reply'[x].id = read'[x].id
      BY <1>2, <1>3, <2>1 DEF MemoryInv, ReadsAreAnswered
    <2>4. reply' = [x \in Read |-> reply'[x]]
      BY DEF MemoryInv, ReadsAreAnswered
    <2>5. QED
      BY <1>3, <2>2, <2>3, <2>4 DEF ReadsAreAnswered, Asks, Started
  <1>12. HeldRuns'
    <2>1. Held(pool, read)' = Held(pool', read')
      BY DEF Held
    <2>2. ASSUME NEW x \in Started, x \in Held(pool', read')
          PROVE  x \in Held(pool, read)
      <3>1. x = s => x \in Held(pool, read)
        BY <2>2 DEF ChoosesAServer
      <3>2. \/ x = 1 \/ \E e \in pool' : e.server = x
            \/ \E y \in Read : read'[y].at \in {"target", "sent"} /\ read'[y].server = x
        BY <2>2 DEF Held
      <3>3. (\E e \in pool' : e.server = x) => x \in Held(pool, read)
        BY <1>1, <3>1 DEF ChoosesAServer, Held
      <3>4. (\E y \in Read : read'[y].at \in {"target", "sent"} /\ read'[y].server = x)
               => x \in Held(pool, read)
        BY <1>2, <1>3, <3>1 DEF Held
      <3>5. QED
        BY <3>2, <3>3, <3>4 DEF Held
    <2>3. NoServerLeaks'
      BY <1>5, <1>6, <2>1 DEF NoServerLeaks, Started
    <2>4. ASSUME deaths' = 0, NEW x \in DOMAIN server', x \in Held(pool', read')
          PROVE  server'[x].runs
      <3>1. CASE x \in Started
        <4>1. server[x].runs
          BY <2>2, <2>4, <3>1 DEF MemoryInv, HeldRuns
        <4>2. QED
          BY <1>4, <1>5, <2>4, <3>1, <4>1
      <3>2. CASE x \notin Started
        BY <1>4, <1>5, <1>6, <2>4, <3>2
      <3>3. QED
        BY <3>1, <3>2
    <2>5. QED
      BY <2>1, <2>3, <2>4 DEF MemoryInv, HeldRuns, Started
  <1>13. QED
    BY <1>9, <1>10, <1>11, <1>12 DEF MemoryInv

\* What OnlyStaleClosed says of one step.
ClosesOnlyStale ==
    \A e \in pool : (OfScope(pool', e.scope) = {} /\ now - e.lastUsed <= IdleAfter) =>
        Cardinality({f \in pool' : f.seq > e.seq}) = MaxHeld

LEMMA TargetStep ==
    ASSUME MemoryInv, NEW r \in Read, NEW scope, Target(r, scope)
    PROVE  MemoryInv' /\ ClosesOnlyStale
  <1>1. /\ read[r].at = "new" /\ plane = "ready"
        /\ UNCHANGED <<plane, now, reply, deaths, noise>>
    BY DEF Target
  <1>2. \E s, f, entries : ChoosesAServer(r, scope, s, f, entries)
    <2>1. CASE scope = WholeFile
      BY <2>1, TargetWholeFile
    <2>2. CASE scope # WholeFile /\ OfScope(Fresher(pool), scope) # {}
      BY <2>2, TargetAgain
    <2>3. CASE scope # WholeFile /\ OfScope(Fresher(pool), scope) = {}
      BY <2>3, TargetNew
    <2>4. QED
      BY <2>1, <2>2, <2>3
  <1>3. PICK s, f, entries : ChoosesAServer(r, scope, s, f, entries)
    BY <1>2
  <1>4. MemoryInv'
    BY <1>1, <1>3, TargetKeeps
  <1>5. ClosesOnlyStale
    <2>1. pool' = entries
      BY <1>3 DEF ChoosesAServer
    <2>2. QED
      BY <1>3, <2>1 DEF ChoosesAServer, ClosesOnlyStale
  <1>6. QED
    BY <1>4, <1>5

LEMMA MemoryStarts == MemoryInit => MemoryInv
  <1> SUFFICES ASSUME MemoryInit PROVE MemoryInv
    OBVIOUS
  <1>1. /\ Len(server) = 0 /\ DOMAIN server = {} /\ pool = {} /\ nextSeq = 0 /\ deaths = 0
        /\ plane = "bootstrapping" /\ server = [s \in 1..0 |-> server[s]]
    BY DEF MemoryInit
  <1>2. ServersAreOfReads
    <2>1. Begun(read) = {}
      BY DEF MemoryInit, Begun, Waiting
    <2>2. QED
      BY <1>1, <2>1, FS_EmptySet DEF ServersAreOfReads, IsServers, Started
  <1>3. PoolIsKept
    BY <1>1, FS_EmptySet, MemoryAssumption DEF PoolIsKept, IsPool, OfServers
  <1>4. ReadsAreAnswered
    BY DEF MemoryInit, ReadsAreAnswered, Waiting, Got, Asks
  <1>5. HeldRuns
    BY <1>1 DEF HeldRuns, NoServerLeaks, Started
  <1>6. QED
    BY <1>2, <1>3, <1>4, <1>5 DEF MemoryInv

LEMMA MemoryStep == MemoryInv /\ [MemoryNext]_memoryVars => MemoryInv' /\ [ClosesOnlyStale]_memoryVars
  <1> SUFFICES ASSUME MemoryInv, [MemoryNext]_memoryVars
               PROVE  MemoryInv' /\ [ClosesOnlyStale]_memoryVars
    OBVIOUS
  <1>1. pool' = pool => ClosesOnlyStale
    BY DEF ClosesOnlyStale, OfScope
  <1>2. CASE Pass \/ UNCHANGED memoryVars
    <2>1. Like(server', server) /\ deaths \in Nat /\ UNCHANGED <<plane, server, pool, nextSeq, read, reply, deaths>>
      BY <1>2, LikeItself DEF Pass, memoryVars, MemoryInv, HeldRuns
    <2>2. QED
      BY <1>1, <2>1, AloneKeeps
  <1>3. ASSUME NEW o \in {"no_environment", "unreachable", "ready"}, Bootstrap(o)
        PROVE  MemoryInv' /\ ClosesOnlyStale
    BY <1>1, <1>3, BootstrapKeeps DEF Bootstrap
  <1>4. ASSUME NEW r \in Read, NEW a, Refuse(r, a) \/ Target(r, a) \/ TargetFails(r, a)
        PROVE  MemoryInv' /\ ClosesOnlyStale
    <2>1. CASE Refuse(r, a)
      BY <1>1, <2>1, RefuseKeeps DEF Refuse
    <2>2. CASE Target(r, a)
      BY <2>2, TargetStep
    <2>3. CASE TargetFails(r, a)
      <3>1. pool' = Fresher(pool)
        BY <2>3 DEF TargetFails
      <3>2. \A e \in pool : now - e.lastUsed <= IdleAfter => e \in Fresher(pool)
        BY FresherIs
      <3>3. \A e \in pool' : e \in OfScope(pool', e.scope)
        BY DEF OfScope
      <3>4. ASSUME NEW e \in pool, OfScope(pool', e.scope) = {}, now - e.lastUsed <= IdleAfter
            PROVE  FALSE
        <4>1. e \in pool'
          BY <3>1, <3>2, <3>4, Zenon
        <4>2. QED
          BY <3>3, <3>4, <4>1
      <3>5. ClosesOnlyStale
        <4>1. SUFFICES ASSUME NEW e \in pool,
                              OfScope(pool', e.scope) = {}, now - e.lastUsed <= IdleAfter
                       PROVE  Cardinality({f \in pool' : f.seq > e.seq}) = MaxHeld
          BY Zenon DEF ClosesOnlyStale
        <4>2. QED
          BY <3>4, <4>1, Zenon
      <3>6. QED
        BY <2>3, <3>5, TargetFailsKeeps
    <2>4. QED
      BY <1>4, <2>1, <2>2, <2>3
  <1>5. ASSUME NEW r \in Read, Send(r) \/ Receive(r) \/ TimeOut(r)
        PROVE  MemoryInv' /\ ClosesOnlyStale
    <2>1. MemoryInv'
      BY <1>1, <1>5, SendKeeps, ReceiveKeeps, TimeOutKeeps, Zenon
    <2>2. pool' = pool
      BY <1>5 DEF Send, Receive, TimeOut
    <2>3. QED
      BY <1>1, <2>1, <2>2
  <1>6. ASSUME NEW s \in Started,
               \/ \E id \in server[s].owes : Answers(s, id)
               \/ \E k \in {"note", "garbage"} : Noise(s, k)
               \/ ServerDies(s)
        PROVE  MemoryInv' /\ ClosesOnlyStale
    BY <1>1, <1>6, AnswersKeeps, NoiseKeeps, ServerDiesKeeps DEF Answers, Noise, ServerDies
  <1>7. QED
    BY <1>2, <1>3, <1>4, <1>5, <1>6 DEF MemoryNext

LEMMA MemoryInvIsEnough ==
    MemoryInv => MemoryTypeOK /\ AnswerIsForTheQuestion /\ NoServerLeaks /\ NoReadIsCut
  <1> SUFFICES ASSUME MemoryInv
               PROVE  MemoryTypeOK /\ AnswerIsForTheQuestion /\ NoServerLeaks /\ NoReadIsCut
    OBVIOUS
  <1>1. Started \subseteq Server
    <2>1. Started = 1..Len(server) /\ Len(server) \in Nat /\ Len(server) <= 1 + Cardinality(Begun(read))
      BY ServersDomain DEF MemoryInv, ServersAreOfReads, IsServers, Started
    <2>2. Begun(read) \subseteq Read
      BY DEF Begun
    <2>3. /\ Cardinality(Begun(read)) <= Cardinality(Read)
          /\ Cardinality(Begun(read)) \in Nat /\ Cardinality(Read) \in Nat
      BY <2>2, FS_Subset, FS_CardinalityType, MemoryAssumption
    <2>4. Len(server) <= Cardinality(Read) + 1
      BY <2>1, <2>3
    <2>5. QED
      BY <2>1, <2>3, <2>4 DEF Server
  <1>2. MemoryTypeOK
    BY <1>1 DEF MemoryInv, PoolIsKept, IsPool, OfServers, MemoryTypeOK, Started
  <1>3. AnswerIsForTheQuestion
    BY DEF MemoryInv, ReadsAreAnswered, AnswerIsForTheQuestion
  <1>4. NoReadIsCut
    <2>1. ASSUME deaths = 0, NEW r \in Read, Asks(r)
          PROVE  server[read[r].server].runs
      <3>1. read[r].server \in Started
        BY <2>1 DEF MemoryInv, ReadsAreAnswered
      <3>2. read[r].server \in Held(pool, read)
        BY <2>1 DEF Held, Asks
      <3>3. QED
        BY <2>1, <3>1, <3>2 DEF MemoryInv, HeldRuns
    <2>2. QED
      BY <2>1 DEF NoReadIsCut, Asks
  <1>5. QED
    BY <1>2, <1>3, <1>4 DEF MemoryInv, HeldRuns

\* For any number of reads, any pool size and any clock: the pool stays bounded and closes
\* what was read least recently, no process leaks, no read is cut short, and no read gets
\* another one's answer (memory/pool.rs, connectors/engram.rs).
THEOREM ReadsAreSafeHolds == MemorySpec => ReadsAreSafe
  <1>1. MemoryInit => MemoryInv
    BY MemoryStarts
  <1>2. MemoryInv /\ [MemoryNext]_memoryVars => MemoryInv' /\ [ClosesOnlyStale]_memoryVars
    BY MemoryStep
  <1>3. MemoryInv => MemoryTypeOK /\ AnswerIsForTheQuestion /\ NoServerLeaks /\ NoReadIsCut
    BY MemoryInvIsEnough
  <1>4. OnlyStaleClosed <=> [][ClosesOnlyStale]_memoryVars
    BY DEF OnlyStaleClosed, ClosesOnlyStale
  <1>5. QED
    BY <1>1, <1>2, <1>3, <1>4, PTL DEF MemorySpec, ReadsAreSafe

-----------------------------------------------------------------------------
(***************************************************************************)
(* RemotePlane: the tunnel, the tail and the environment.                  *)
(***************************************************************************)
RemoteHand ==
    [op : {"none", "save", "connect", "disconnect", "tail", "untail"},
     at : {"new", "pinned", "environment", "ssh", "tunnel", "read", "bringing_up", "stopped",
           "spawned", "over"},
     box : Box \cup {NoBox}, key : Caller \cup {NoBox}]

Tunnel == [is : {"disconnected", "connecting", "failed", "connected"}, box : Box \cup {NoBox},
           child : Caller \cup {NoBox}, key : Caller \cup {NoBox}]

RemoteTypeOK ==
    /\ environment \in Box \cup {NoBox} /\ pinned \in Box \cup {NoBox}
    /\ identity \in Caller \cup {NoBox}
    /\ tunnel \in Tunnel /\ tunnels \subseteq Caller
    /\ tails \subseteq [child : Caller, box : Box]
    /\ busy \in [Caller -> RemoteHand] /\ raced \in BOOLEAN

\* Every child has one keeper: a connect under way its own, the cell that of a call that is over.
ChildrenAreKept ==
    /\ NoTunnelLeaks
    /\ tunnel.is = "connected" => tunnel.child \in Caller /\ busy[tunnel.child].at = "over"
    /\ \A c \in Caller : busy[c].at = "bringing_up" => busy[c].op = "connect" /\ c \in tunnels

\* A key in hand or in use is there, so it was generated before.
KeysAreThere ==
    /\ OneIdentity
    /\ tunnel.is = "connected" => identity # NoBox
    /\ \A c \in Caller : busy[c].at \in {"read", "bringing_up"} => busy[c].key # NoBox

UnderWay(c) == busy[c].at \notin {"new", "over"}

TunnelFits == tunnel.is = "connected" => tunnel.box = environment
TailsAreKept == \A t \in tails : t.child = tail
TailsFit == \A t \in tails : t.box = environment

\* Nothing is left of an earlier environment.
Settled == TunnelFits /\ TailsAreKept /\ TailsFit /\ pinned = environment

\* What a call that runs alone has left to put in order, at each of its steps.
Midway(c) ==
    /\ busy[c].at \in {"pinned", "read", "stopped"} => Settled
    /\ busy[c].at \in {"environment", "ssh", "tunnel"} =>
           environment = busy[c].box /\ TailsAreKept
    /\ busy[c].at \in {"ssh", "tunnel"} => pinned = busy[c].box
    /\ busy[c].at \in {"tunnel", "bringing_up"} => tunnel.is # "connected"
    /\ busy[c].at \in {"read", "bringing_up"} => busy[c].box = environment
    /\ busy[c].at = "bringing_up" => TailsAreKept /\ TailsFit /\ pinned = environment
    /\ busy[c].at = "stopped" => tails = {}
    /\ busy[c].at = "spawned" =>
           /\ TunnelFits /\ TailsFit /\ pinned = environment
           /\ \A t \in tails : t.child = c

\* As long as no two calls overlapped, at most one is under way and the rest is settled.
SerialIsSettled ==
    ~raced =>
        /\ \A c, d \in Caller : UnderWay(c) /\ UnderWay(d) => c = d
        /\ (\A c \in Caller : ~UnderWay(c)) => Settled
        /\ \A c \in Caller : UnderWay(c) => Midway(c)

RemoteInv == RemoteTypeOK /\ ChildrenAreKept /\ KeysAreThere /\ SerialIsSettled

\* At the start no call is under way and nothing is up.
LEMMA RemoteStarts == RemoteInit => RemoteInv
  <1>1. SUFFICES ASSUME RemoteInit PROVE RemoteInv
    OBVIOUS
  <1>2. \A c \in Caller : busy[c] = Rest
    BY <1>1 DEF RemoteInit
  <1>3. RemoteTypeOK
    BY <1>1 DEF RemoteInit, RemoteTypeOK, RemoteHand, Tunnel, Down, NoTunnel, Rest, Hand
  <1>4. ChildrenAreKept /\ KeysAreThere
    BY <1>1, <1>2 DEF RemoteInit, ChildrenAreKept, NoTunnelLeaks, KeysAreThere, OneIdentity, Down,
                      NoTunnel, Rest, Hand
  <1>5. SerialIsSettled
    BY <1>1, <1>2 DEF RemoteInit, SerialIsSettled, Settled, TunnelFits, TailsAreKept, TailsFit,
                      UnderWay, Down, NoTunnel, Rest, Hand
  <1>6. QED
    BY <1>3, <1>4, <1>5 DEF RemoteInv

\* A call goes on to its next step with what it has in hand; the others stand where they are.
LEMMA Reaching ==
    ASSUME RemoteTypeOK, NEW c \in Caller, NEW step, Reaches(c, step),
           step \in {"environment", "ssh", "tunnel", "bringing_up", "over"}
    PROVE  /\ busy' \in [Caller -> RemoteHand]
           /\ busy'[c].at = step /\ busy'[c].op = busy[c].op
           /\ busy'[c].box = busy[c].box /\ busy'[c].key = busy[c].key
           /\ \A d \in Caller \ {c} : busy'[d] = busy[d]
  BY DEF RemoteTypeOK, RemoteHand, Reaches

\* A call comes in with its hand.
LEMMA Starting ==
    ASSUME RemoteTypeOK, NEW c \in Caller, NEW hand \in RemoteHand, Start(c, hand)
    PROVE  /\ busy' \in [Caller -> RemoteHand] /\ raced' \in BOOLEAN
           /\ busy[c].at = "new" /\ busy'[c] = hand
           /\ \A d \in Caller \ {c} : busy'[d] = busy[d]
           /\ ~raced' => ~raced /\ \A d \in Caller \ {c} : ~UnderWay(d)
  BY DEF RemoteTypeOK, Start, Others, UnderWay

\* A save begins alone and finds everything settled, or the calls overlap.
LEMMA PinKeeps ==
    ASSUME RemoteInv, NEW c \in Caller, NEW box \in Box, Pin(c, box)
    PROVE  RemoteInv'
  <1>1. RemoteTypeOK /\ ChildrenAreKept /\ KeysAreThere /\ SerialIsSettled
    BY DEF RemoteInv
  <1>2. /\ busy' \in [Caller -> RemoteHand] /\ raced' \in BOOLEAN
        /\ busy[c].at = "new" /\ busy'[c] = Hand("save", "pinned", box, NoBox)
        /\ \A d \in Caller \ {c} : busy'[d] = busy[d]
        /\ ~raced' => ~raced /\ \A d \in Caller \ {c} : ~UnderWay(d)
    <2>1. Hand("save", "pinned", box, NoBox) \in RemoteHand
      BY <1>1 DEF RemoteHand, Hand, RemoteTypeOK, Pin, Identity
    <2>2. Start(c, Hand("save", "pinned", box, NoBox))
      BY DEF Pin
    <2>3. QED
      BY <1>1, <2>1, <2>2, Starting
  <1>3. RemoteTypeOK'
    BY <1>1, <1>2 DEF RemoteTypeOK, RemoteHand, Tunnel, Pin, Hand
  <1>4. ChildrenAreKept'
    BY <1>1, <1>2 DEF RemoteTypeOK, ChildrenAreKept, NoTunnelLeaks, Pin, Hand
  <1>5. KeysAreThere'
    BY <1>1, <1>2 DEF RemoteTypeOK, KeysAreThere, OneIdentity, Pin, Hand
  <1>6. SerialIsSettled'
    BY <1>1, <1>2 DEF SerialIsSettled, UnderWay, Midway, Settled, TunnelFits, TailsAreKept,
                      TailsFit, Pin, Hand
  <1>7. QED
    BY <1>3, <1>4, <1>5, <1>6 DEF RemoteInv

\* A pin that fails has changed nothing.
LEMMA PinFailsKeeps ==
    ASSUME RemoteInv, NEW c \in Caller, PinFails(c)
    PROVE  RemoteInv'
  <1>1. RemoteTypeOK /\ ChildrenAreKept /\ KeysAreThere /\ SerialIsSettled
    BY DEF RemoteInv
  <1>2. /\ busy' \in [Caller -> RemoteHand]
        /\ busy'[c].at = "over" /\ busy'[c].op = busy[c].op
        /\ busy'[c].box = busy[c].box /\ busy'[c].key = busy[c].key
        /\ \A d \in Caller \ {c} : busy'[d] = busy[d]
    BY <1>1, Reaching DEF PinFails
  <1>3. RemoteTypeOK'
    BY <1>1, <1>2 DEF RemoteTypeOK, RemoteHand, Tunnel, PinFails
  <1>4. ChildrenAreKept'
    BY <1>1, <1>2 DEF RemoteTypeOK, ChildrenAreKept, NoTunnelLeaks, PinFails
  <1>5. KeysAreThere'
    BY <1>1, <1>2 DEF RemoteTypeOK, KeysAreThere, OneIdentity, PinFails
  <1>6. SerialIsSettled'
    BY <1>1, <1>2 DEF SerialIsSettled, UnderWay, Midway, Settled, TunnelFits, TailsAreKept,
                      TailsFit, PinFails
  <1>7. QED
    BY <1>3, <1>4, <1>5, <1>6 DEF RemoteInv

\* From here the tunnel and the tail may be of the environment before.
LEMMA SaveEnvironmentKeeps ==
    ASSUME RemoteInv, NEW c \in Caller, SaveEnvironment(c)
    PROVE  RemoteInv'
  <1>1. RemoteTypeOK /\ ChildrenAreKept /\ KeysAreThere /\ SerialIsSettled
    BY DEF RemoteInv
  <1>2. /\ busy' \in [Caller -> RemoteHand]
        /\ busy'[c].at = "environment" /\ busy'[c].op = busy[c].op
        /\ busy'[c].box = busy[c].box /\ busy'[c].key = busy[c].key
        /\ \A d \in Caller \ {c} : busy'[d] = busy[d]
    BY <1>1, Reaching DEF SaveEnvironment
  <1>3. RemoteTypeOK'
    BY <1>1, <1>2 DEF RemoteTypeOK, RemoteHand, Tunnel, SaveEnvironment
  <1>4. ChildrenAreKept'
    BY <1>1, <1>2 DEF RemoteTypeOK, ChildrenAreKept, NoTunnelLeaks, SaveEnvironment
  <1>5. KeysAreThere'
    BY <1>1, <1>2 DEF RemoteTypeOK, KeysAreThere, OneIdentity, SaveEnvironment
  <1>6. SerialIsSettled'
    BY <1>1, <1>2 DEF SerialIsSettled, UnderWay, Midway, Settled, TunnelFits, TailsAreKept,
                      TailsFit, SaveEnvironment
  <1>7. QED
    BY <1>3, <1>4, <1>5, <1>6 DEF RemoteInv

\* The client is pinned to the box that is saved.
LEMMA SaveSshKeeps ==
    ASSUME RemoteInv, NEW c \in Caller, SaveSsh(c)
    PROVE  RemoteInv'
  <1>1. RemoteTypeOK /\ ChildrenAreKept /\ KeysAreThere /\ SerialIsSettled
    BY DEF RemoteInv
  <1>2. /\ busy' \in [Caller -> RemoteHand]
        /\ busy'[c].at = "ssh" /\ busy'[c].op = busy[c].op
        /\ busy'[c].box = busy[c].box /\ busy'[c].key = busy[c].key
        /\ \A d \in Caller \ {c} : busy'[d] = busy[d]
    BY <1>1, Reaching DEF SaveSsh
  <1>3. RemoteTypeOK'
    BY <1>1, <1>2 DEF RemoteTypeOK, RemoteHand, Tunnel, SaveSsh
  <1>4. ChildrenAreKept'
    BY <1>1, <1>2 DEF RemoteTypeOK, ChildrenAreKept, NoTunnelLeaks, SaveSsh
  <1>5. KeysAreThere'
    BY <1>1, <1>2 DEF RemoteTypeOK, KeysAreThere, OneIdentity, SaveSsh
  <1>6. SerialIsSettled'
    BY <1>1, <1>2 DEF SerialIsSettled, UnderWay, Midway, Settled, TunnelFits, TailsAreKept,
                      TailsFit, SaveSsh
  <1>7. QED
    BY <1>3, <1>4, <1>5, <1>6 DEF RemoteInv

\* The tunnel is gone with its child.
LEMMA DropTunnelKeeps ==
    ASSUME RemoteInv, NEW c \in Caller, DropTunnel(c)
    PROVE  RemoteInv'
  <1>1. RemoteTypeOK /\ ChildrenAreKept /\ KeysAreThere /\ SerialIsSettled
    BY DEF RemoteInv
  <1>2. /\ busy' \in [Caller -> RemoteHand]
        /\ busy'[c].at = "tunnel" /\ busy'[c].op = busy[c].op
        /\ busy'[c].box = busy[c].box /\ busy'[c].key = busy[c].key
        /\ \A d \in Caller \ {c} : busy'[d] = busy[d]
    BY <1>1, Reaching DEF DropTunnel
  <1>3. RemoteTypeOK'
    BY <1>1, <1>2 DEF RemoteTypeOK, RemoteHand, Tunnel, DropTunnel, Replace, Dropped, Down, NoTunnel
  <1>4. ChildrenAreKept'
    BY <1>1, <1>2 DEF RemoteTypeOK, ChildrenAreKept, NoTunnelLeaks, DropTunnel, Replace, Dropped,
                      Down, NoTunnel
  <1>5. KeysAreThere'
    BY <1>1, <1>2 DEF RemoteTypeOK, KeysAreThere, OneIdentity, DropTunnel, Replace, Dropped,
                      Down, NoTunnel
  <1>6. SerialIsSettled'
    BY <1>1, <1>2 DEF SerialIsSettled, UnderWay, Midway, Settled, TunnelFits, TailsAreKept,
                      TailsFit, DropTunnel, Replace, Dropped, Down, NoTunnel
  <1>7. QED
    BY <1>3, <1>4, <1>5, <1>6 DEF RemoteInv

\* The tail goes last; all is of the box that is saved.
LEMMA EndSaveKeeps ==
    ASSUME RemoteInv, NEW c \in Caller, EndSave(c)
    PROVE  RemoteInv'
  <1>1. RemoteTypeOK /\ ChildrenAreKept /\ KeysAreThere /\ SerialIsSettled
    BY DEF RemoteInv
  <1>2. /\ busy' \in [Caller -> RemoteHand]
        /\ busy'[c].at = "over" /\ busy'[c].op = busy[c].op
        /\ busy'[c].box = busy[c].box /\ busy'[c].key = busy[c].key
        /\ \A d \in Caller \ {c} : busy'[d] = busy[d]
    BY <1>1, Reaching DEF EndSave
  <1>3. RemoteTypeOK'
    BY <1>1, <1>2 DEF RemoteTypeOK, RemoteHand, Tunnel, EndSave, StopTail
  <1>4. ChildrenAreKept'
    BY <1>1, <1>2 DEF RemoteTypeOK, ChildrenAreKept, NoTunnelLeaks, EndSave, StopTail
  <1>5. KeysAreThere'
    BY <1>1, <1>2 DEF RemoteTypeOK, KeysAreThere, OneIdentity, EndSave, StopTail
  <1>6. SerialIsSettled'
    BY <1>1, <1>2 DEF SerialIsSettled, UnderWay, Midway, Settled, TunnelFits, TailsAreKept,
                      TailsFit, EndSave, StopTail
  <1>7. QED
    BY <1>3, <1>4, <1>5, <1>6 DEF RemoteInv

\* The identity is kept or is made here, and is in hand either way.
LEMMA ConnectKeeps ==
    ASSUME RemoteInv, NEW c \in Caller, Connect(c)
    PROVE  RemoteInv'
  <1>1. RemoteTypeOK /\ ChildrenAreKept /\ KeysAreThere /\ SerialIsSettled
    BY DEF RemoteInv
  <1>2. /\ busy' \in [Caller -> RemoteHand] /\ raced' \in BOOLEAN
        /\ busy[c].at = "new" /\ busy'[c] = Hand("connect", "read", environment, Identity(c))
        /\ \A d \in Caller \ {c} : busy'[d] = busy[d]
        /\ ~raced' => ~raced /\ \A d \in Caller \ {c} : ~UnderWay(d)
    <2>1. Hand("connect", "read", environment, Identity(c)) \in RemoteHand
      BY <1>1 DEF RemoteHand, Hand, RemoteTypeOK, Connect, Identity
    <2>2. Start(c, Hand("connect", "read", environment, Identity(c)))
      BY DEF Connect
    <2>3. QED
      BY <1>1, <2>1, <2>2, Starting
  <1>3. RemoteTypeOK'
    BY <1>1, <1>2 DEF RemoteTypeOK, RemoteHand, Tunnel, Connect, Hand, Identity, Start
  <1>4. ChildrenAreKept'
    BY <1>1, <1>2 DEF RemoteTypeOK, ChildrenAreKept, NoTunnelLeaks, Connect, Hand, Identity, Start
  <1>5. KeysAreThere'
    BY <1>1, <1>2, RemoteAssumption DEF RemoteTypeOK, KeysAreThere, OneIdentity, Connect, Hand,
                                        Identity, Start
  <1>6. SerialIsSettled'
    BY <1>1, <1>2 DEF SerialIsSettled, UnderWay, Midway, Settled, TunnelFits, TailsAreKept,
                      TailsFit, Connect, Hand, Identity, Start
  <1>7. QED
    BY <1>3, <1>4, <1>5, <1>6 DEF RemoteInv

\* One child goes with the cell, one is brought up.
LEMMA MarkConnectingKeeps ==
    ASSUME RemoteInv, NEW c \in Caller, MarkConnecting(c)
    PROVE  RemoteInv'
  <1>1. RemoteTypeOK /\ ChildrenAreKept /\ KeysAreThere /\ SerialIsSettled
    BY DEF RemoteInv
  <1>2. /\ busy' \in [Caller -> RemoteHand]
        /\ busy'[c].at = "bringing_up" /\ busy'[c].op = busy[c].op
        /\ busy'[c].box = busy[c].box /\ busy'[c].key = busy[c].key
        /\ \A d \in Caller \ {c} : busy'[d] = busy[d]
    BY <1>1, Reaching DEF MarkConnecting
  <1>3. RemoteTypeOK'
    BY <1>1, <1>2 DEF RemoteTypeOK, RemoteHand, Tunnel, MarkConnecting, Replace, Dropped, Down,
                      NoTunnel
  <1>4. ChildrenAreKept'
    BY <1>1, <1>2 DEF RemoteTypeOK, ChildrenAreKept, NoTunnelLeaks, MarkConnecting, Replace,
                      Dropped, Down, NoTunnel
  <1>5. KeysAreThere'
    BY <1>1, <1>2 DEF RemoteTypeOK, KeysAreThere, OneIdentity, MarkConnecting, Replace, Dropped,
                      Down, NoTunnel
  <1>6. SerialIsSettled'
    BY <1>1, <1>2 DEF SerialIsSettled, UnderWay, Midway, Settled, TunnelFits, TailsAreKept,
                      TailsFit, MarkConnecting, Replace, Dropped, Down, NoTunnel
  <1>7. QED
    BY <1>3, <1>4, <1>5, <1>6 DEF RemoteInv

\* The child goes from the call to the cell, whatever was there before it.
LEMMA BroughtUpKeeps ==
    ASSUME RemoteInv, NEW c \in Caller, BroughtUp(c)
    PROVE  RemoteInv'
  <1>1. RemoteTypeOK /\ ChildrenAreKept /\ KeysAreThere /\ SerialIsSettled
    BY DEF RemoteInv
  <1>2. /\ busy' \in [Caller -> RemoteHand]
        /\ busy'[c].at = "over" /\ busy'[c].op = busy[c].op
        /\ busy'[c].box = busy[c].box /\ busy'[c].key = busy[c].key
        /\ \A d \in Caller \ {c} : busy'[d] = busy[d]
    BY <1>1, Reaching DEF BroughtUp
  <1>3. RemoteTypeOK'
    BY <1>1, <1>2 DEF RemoteTypeOK, RemoteHand, Tunnel, BroughtUp, Replace, Dropped, Down, NoTunnel
  <1>4. ChildrenAreKept'
    BY <1>1, <1>2 DEF RemoteTypeOK, ChildrenAreKept, NoTunnelLeaks, BroughtUp, Replace, Dropped,
                      Down, NoTunnel
  <1>5. KeysAreThere'
    BY <1>1, <1>2 DEF RemoteTypeOK, KeysAreThere, OneIdentity, BroughtUp, Replace, Dropped, Down,
                      NoTunnel
  <1>6. SerialIsSettled'
    BY <1>1, <1>2 DEF SerialIsSettled, UnderWay, Midway, Settled, TunnelFits, TailsAreKept,
                      TailsFit, BroughtUp, Replace, Dropped, Down, NoTunnel
  <1>7. QED
    BY <1>3, <1>4, <1>5, <1>6 DEF RemoteInv

\* The child goes with its guard.
LEMMA BringUpFailsKeeps ==
    ASSUME RemoteInv, NEW c \in Caller, BringUpFails(c)
    PROVE  RemoteInv'
  <1>1. RemoteTypeOK /\ ChildrenAreKept /\ KeysAreThere /\ SerialIsSettled
    BY DEF RemoteInv
  <1>2. /\ busy' \in [Caller -> RemoteHand]
        /\ busy'[c].at = "over" /\ busy'[c].op = busy[c].op
        /\ busy'[c].box = busy[c].box /\ busy'[c].key = busy[c].key
        /\ \A d \in Caller \ {c} : busy'[d] = busy[d]
    BY <1>1, Reaching DEF BringUpFails
  <1>3. RemoteTypeOK'
    BY <1>1, <1>2 DEF RemoteTypeOK, RemoteHand, Tunnel, BringUpFails, Replace, Dropped, Down,
                      NoTunnel
  <1>4. ChildrenAreKept'
    BY <1>1, <1>2 DEF RemoteTypeOK, ChildrenAreKept, NoTunnelLeaks, BringUpFails, Replace,
                      Dropped, Down, NoTunnel
  <1>5. KeysAreThere'
    BY <1>1, <1>2 DEF RemoteTypeOK, KeysAreThere, OneIdentity, BringUpFails, Replace, Dropped,
                      Down, NoTunnel
  <1>6. SerialIsSettled'
    BY <1>1, <1>2 DEF SerialIsSettled, UnderWay, Midway, Settled, TunnelFits, TailsAreKept,
                      TailsFit, BringUpFails, Replace, Dropped, Down, NoTunnel
  <1>7. QED
    BY <1>3, <1>4, <1>5, <1>6 DEF RemoteInv

\* A disconnect leaves no tunnel.
LEMMA DisconnectKeeps ==
    ASSUME RemoteInv, NEW c \in Caller, Disconnect(c)
    PROVE  RemoteInv'
  <1>1. RemoteTypeOK /\ ChildrenAreKept /\ KeysAreThere /\ SerialIsSettled
    BY DEF RemoteInv
  <1>2. /\ busy' \in [Caller -> RemoteHand] /\ raced' \in BOOLEAN
        /\ busy[c].at = "new" /\ busy'[c] = Hand("disconnect", "over", NoBox, NoBox)
        /\ \A d \in Caller \ {c} : busy'[d] = busy[d]
        /\ ~raced' => ~raced /\ \A d \in Caller \ {c} : ~UnderWay(d)
    <2>1. Hand("disconnect", "over", NoBox, NoBox) \in RemoteHand
      BY <1>1 DEF RemoteHand, Hand, RemoteTypeOK, Disconnect, Identity
    <2>2. Start(c, Hand("disconnect", "over", NoBox, NoBox))
      BY DEF Disconnect
    <2>3. QED
      BY <1>1, <2>1, <2>2, Starting
  <1>3. RemoteTypeOK'
    BY <1>1, <1>2 DEF RemoteTypeOK, RemoteHand, Tunnel, Disconnect, Hand, Replace, Dropped, Down,
                      NoTunnel
  <1>4. ChildrenAreKept'
    BY <1>1, <1>2 DEF RemoteTypeOK, ChildrenAreKept, NoTunnelLeaks, Disconnect, Hand, Replace,
                      Dropped, Down, NoTunnel
  <1>5. KeysAreThere'
    BY <1>1, <1>2 DEF RemoteTypeOK, KeysAreThere, OneIdentity, Disconnect, Hand, Replace,
                      Dropped, Down, NoTunnel
  <1>6. SerialIsSettled'
    BY <1>1, <1>2 DEF SerialIsSettled, UnderWay, Midway, Settled, TunnelFits, TailsAreKept,
                      TailsFit, Disconnect, Hand, Replace, Dropped, Down, NoTunnel
  <1>7. QED
    BY <1>3, <1>4, <1>5, <1>6 DEF RemoteInv

\* The tail in the cell is killed first; a call alone leaves none.
LEMMA StartTailKeeps ==
    ASSUME RemoteInv, NEW c \in Caller, StartTail(c)
    PROVE  RemoteInv'
  <1>1. RemoteTypeOK /\ ChildrenAreKept /\ KeysAreThere /\ SerialIsSettled
    BY DEF RemoteInv
  <1>2. /\ busy' \in [Caller -> RemoteHand] /\ raced' \in BOOLEAN
        /\ busy[c].at = "new" /\ busy'[c] = Hand("tail", "stopped", NoBox, NoBox)
        /\ \A d \in Caller \ {c} : busy'[d] = busy[d]
        /\ ~raced' => ~raced /\ \A d \in Caller \ {c} : ~UnderWay(d)
    <2>1. Hand("tail", "stopped", NoBox, NoBox) \in RemoteHand
      BY <1>1 DEF RemoteHand, Hand, RemoteTypeOK, StartTail, Identity
    <2>2. Start(c, Hand("tail", "stopped", NoBox, NoBox))
      BY DEF StartTail
    <2>3. QED
      BY <1>1, <2>1, <2>2, Starting
  <1>3. RemoteTypeOK'
    BY <1>1, <1>2 DEF RemoteTypeOK, RemoteHand, Tunnel, StartTail, Hand, StopTail
  <1>4. ChildrenAreKept'
    BY <1>1, <1>2 DEF RemoteTypeOK, ChildrenAreKept, NoTunnelLeaks, StartTail, Hand, StopTail
  <1>5. KeysAreThere'
    BY <1>1, <1>2 DEF RemoteTypeOK, KeysAreThere, OneIdentity, StartTail, Hand, StopTail
  <1>6. SerialIsSettled'
    BY <1>1, <1>2 DEF SerialIsSettled, UnderWay, Midway, Settled, TunnelFits, TailsAreKept,
                      TailsFit, StartTail, Hand, StopTail
  <1>7. QED
    BY <1>3, <1>4, <1>5, <1>6 DEF RemoteInv

\* The tail that was started is the cell's.
LEMMA KeepTailKeeps ==
    ASSUME RemoteInv, NEW c \in Caller, KeepTail(c)
    PROVE  RemoteInv'
  <1>1. RemoteTypeOK /\ ChildrenAreKept /\ KeysAreThere /\ SerialIsSettled
    BY DEF RemoteInv
  <1>2. /\ busy' \in [Caller -> RemoteHand]
        /\ busy'[c].at = "over" /\ busy'[c].op = busy[c].op
        /\ busy'[c].box = busy[c].box /\ busy'[c].key = busy[c].key
        /\ \A d \in Caller \ {c} : busy'[d] = busy[d]
    BY <1>1, Reaching DEF KeepTail
  <1>3. RemoteTypeOK'
    BY <1>1, <1>2 DEF RemoteTypeOK, RemoteHand, Tunnel, KeepTail
  <1>4. ChildrenAreKept'
    BY <1>1, <1>2 DEF RemoteTypeOK, ChildrenAreKept, NoTunnelLeaks, KeepTail
  <1>5. KeysAreThere'
    BY <1>1, <1>2 DEF RemoteTypeOK, KeysAreThere, OneIdentity, KeepTail
  <1>6. SerialIsSettled'
    BY <1>1, <1>2 DEF SerialIsSettled, UnderWay, Midway, Settled, TunnelFits, TailsAreKept,
                      TailsFit, KeepTail
  <1>7. QED
    BY <1>3, <1>4, <1>5, <1>6 DEF RemoteInv

\* A stop kills the tail in the cell.
LEMMA TailStopKeeps ==
    ASSUME RemoteInv, NEW c \in Caller, TailStop(c)
    PROVE  RemoteInv'
  <1>1. RemoteTypeOK /\ ChildrenAreKept /\ KeysAreThere /\ SerialIsSettled
    BY DEF RemoteInv
  <1>2. /\ busy' \in [Caller -> RemoteHand] /\ raced' \in BOOLEAN
        /\ busy[c].at = "new" /\ busy'[c] = Hand("untail", "over", NoBox, NoBox)
        /\ \A d \in Caller \ {c} : busy'[d] = busy[d]
        /\ ~raced' => ~raced /\ \A d \in Caller \ {c} : ~UnderWay(d)
    <2>1. Hand("untail", "over", NoBox, NoBox) \in RemoteHand
      BY <1>1 DEF RemoteHand, Hand, RemoteTypeOK, TailStop, Identity
    <2>2. Start(c, Hand("untail", "over", NoBox, NoBox))
      BY DEF TailStop
    <2>3. QED
      BY <1>1, <2>1, <2>2, Starting
  <1>3. RemoteTypeOK'
    BY <1>1, <1>2 DEF RemoteTypeOK, RemoteHand, Tunnel, TailStop, Hand, StopTail
  <1>4. ChildrenAreKept'
    BY <1>1, <1>2 DEF RemoteTypeOK, ChildrenAreKept, NoTunnelLeaks, TailStop, Hand, StopTail
  <1>5. KeysAreThere'
    BY <1>1, <1>2 DEF RemoteTypeOK, KeysAreThere, OneIdentity, TailStop, Hand, StopTail
  <1>6. SerialIsSettled'
    BY <1>1, <1>2 DEF SerialIsSettled, UnderWay, Midway, Settled, TunnelFits, TailsAreKept,
                      TailsFit, TailStop, Hand, StopTail
  <1>7. QED
    BY <1>3, <1>4, <1>5, <1>6 DEF RemoteInv

\* An answer at once changes nothing but the call itself.
LEMMA RemoteRefusedKeeps ==
    ASSUME RemoteInv, NEW c \in Caller, NEW op \in {"save", "connect", "disconnect", "tail",
       "untail"},
           NEW box \in Box \cup {NoBox}, RemoteRefused(c, op, box)
    PROVE  RemoteInv'
  <1>1. RemoteTypeOK /\ ChildrenAreKept /\ KeysAreThere /\ SerialIsSettled
    BY DEF RemoteInv
  <1>2. /\ busy' \in [Caller -> RemoteHand]
        /\ busy[c].at = "new" /\ busy'[c] = Hand(op, "over", NoBox, NoBox)
        /\ \A d \in Caller \ {c} : busy'[d] = busy[d]
    <2>1. Hand(op, "over", NoBox, NoBox) \in RemoteHand
      BY DEF RemoteHand, Hand
    <2>2. QED
      BY <1>1, <2>1 DEF RemoteRefused, RemoteTypeOK
  <1>3. RemoteTypeOK'
    BY <1>1, <1>2 DEF RemoteTypeOK, RemoteHand, Tunnel, RemoteRefused, Hand
  <1>4. ChildrenAreKept'
    BY <1>1, <1>2 DEF RemoteTypeOK, ChildrenAreKept, NoTunnelLeaks, RemoteRefused, Hand
  <1>5. KeysAreThere'
    BY <1>1, <1>2 DEF RemoteTypeOK, KeysAreThere, OneIdentity, RemoteRefused, Hand
  <1>6. SerialIsSettled'
    BY <1>1, <1>2 DEF SerialIsSettled, UnderWay, Midway, Settled, TunnelFits, TailsAreKept,
                      TailsFit, RemoteRefused, Hand
  <1>7. QED
    BY <1>3, <1>4, <1>5, <1>6 DEF RemoteInv

\* A tail is of the box that is pinned by now.
LEMMA SpawnTailKeeps ==
    ASSUME RemoteInv, NEW c \in Caller, SpawnTail(c)
    PROVE  RemoteInv'
  <1>1. RemoteTypeOK /\ ChildrenAreKept /\ KeysAreThere /\ SerialIsSettled
    BY DEF RemoteInv
  <1>2. /\ busy' \in [Caller -> RemoteHand]
        /\ busy'[c].op = busy[c].op
        /\ \/ /\ busy'[c] = Hand("tail", "spawned", pinned, NoBox) /\ pinned # NoBox
              /\ busy'[c].at = "spawned" /\ busy'[c].key = NoBox
              /\ tails' = tails \cup {[child |-> c, box |-> pinned]}
           \/ busy'[c].at = "over" /\ busy'[c].key = busy[c].key /\ tails' = tails
        /\ \A d \in Caller \ {c} : busy'[d] = busy[d]
    <2>1. CASE /\ pinned # NoBox /\ tails' = tails \cup {[child |-> c, box |-> pinned]}
               /\ busy' = [busy EXCEPT ![c] = Hand("tail", "spawned", pinned, NoBox)]
      <3>1. Hand("tail", "spawned", pinned, NoBox) \in RemoteHand
        BY <1>1 DEF RemoteHand, Hand, RemoteTypeOK
      <3>2. QED
        BY <1>1, <2>1, <3>1 DEF RemoteTypeOK, Hand, SpawnTail
    <2>2. CASE Reaches(c, "over") /\ tails' = tails
      BY <1>1, <2>2, Reaching
    <2>3. QED
      BY <2>1, <2>2 DEF SpawnTail
  <1>3. RemoteTypeOK'
    BY <1>1, <1>2 DEF RemoteTypeOK, RemoteHand, Tunnel, SpawnTail
  <1>4. ChildrenAreKept'
    BY <1>1, <1>2 DEF RemoteTypeOK, ChildrenAreKept, NoTunnelLeaks, SpawnTail
  <1>5. KeysAreThere'
    BY <1>1, <1>2 DEF RemoteTypeOK, KeysAreThere, OneIdentity, SpawnTail
  <1>6. SerialIsSettled'
    BY <1>1, <1>2 DEF SerialIsSettled, UnderWay, Midway, Settled, TunnelFits, TailsAreKept,
                      TailsFit, SpawnTail
  <1>7. QED
    BY <1>3, <1>4, <1>5, <1>6 DEF RemoteInv

\* A stream that ends takes its child with it, the panel coming up takes nothing.
LEMMA StreamOrPanelKeeps ==
    ASSUME RemoteInv, PanelReady \/ \E t \in tails : StreamEnds(t)
    PROVE  RemoteInv'
  <1>1. RemoteTypeOK /\ ChildrenAreKept /\ KeysAreThere /\ SerialIsSettled
    BY DEF RemoteInv
  <1>2. /\ tails' \subseteq tails
        /\ UNCHANGED <<environment, identity, pinned, tunnel, tunnels, tail, busy, raced>>
    BY DEF PanelReady, StreamEnds
  <1>3. RemoteTypeOK' /\ ChildrenAreKept' /\ KeysAreThere'
    BY <1>1, <1>2 DEF RemoteTypeOK, ChildrenAreKept, NoTunnelLeaks, KeysAreThere, OneIdentity
  <1>4. SerialIsSettled'
    BY <1>1, <1>2 DEF SerialIsSettled, UnderWay, Midway, Settled, TunnelFits, TailsAreKept,
                      TailsFit
  <1>5. QED
    BY <1>3, <1>4 DEF RemoteInv

\* Every action keeps the invariant.
LEMMA RemoteStep == RemoteInv /\ [RemoteNext]_remoteVars => RemoteInv'
  <1>1. SUFFICES ASSUME RemoteInv, [RemoteNext]_remoteVars PROVE RemoteInv'
    OBVIOUS
  <1>2. CASE UNCHANGED remoteVars
    <2>1. UNCHANGED <<environment, identity, pinned, tunnel, tunnels, tail, tails, busy, raced>>
      BY <1>2 DEF remoteVars
    <2>2. RemoteTypeOK' /\ ChildrenAreKept' /\ KeysAreThere'
      BY <1>1, <2>1 DEF RemoteInv, RemoteTypeOK, ChildrenAreKept, NoTunnelLeaks, KeysAreThere,
                        OneIdentity
    <2>3. SerialIsSettled'
      BY <1>1, <2>1 DEF RemoteInv, SerialIsSettled, UnderWay, Midway, Settled, TunnelFits,
                        TailsAreKept, TailsFit
    <2>4. QED
      BY <2>2, <2>3 DEF RemoteInv
  <1>3. CASE PanelReady \/ \E t \in tails : StreamEnds(t)
    BY <1>1, <1>3, StreamOrPanelKeeps
  <1>4. ASSUME NEW c \in Caller,
               NEW op \in {"save", "connect", "disconnect", "tail", "untail"},
               NEW box \in Box \cup {NoBox}, RemoteRefused(c, op, box)
        PROVE  RemoteInv'
    BY <1>1, <1>4, RemoteRefusedKeeps
  <1>5. ASSUME NEW c \in Caller, NEW box \in Box, Pin(c, box) PROVE RemoteInv'
    BY <1>1, <1>5, PinKeeps
  <1>6. ASSUME NEW c \in Caller,
               PinFails(c) \/ SaveEnvironment(c) \/ SaveSsh(c) \/ DropTunnel(c) \/ EndSave(c)
        PROVE  RemoteInv'
    BY <1>1, <1>6, PinFailsKeeps, SaveEnvironmentKeeps, SaveSshKeeps, DropTunnelKeeps, EndSaveKeeps
  <1>7. ASSUME NEW c \in Caller,
               Connect(c) \/ MarkConnecting(c) \/ BroughtUp(c) \/ BringUpFails(c) \/ Disconnect(c)
        PROVE  RemoteInv'
    BY <1>1, <1>7, ConnectKeeps, MarkConnectingKeeps, BroughtUpKeeps, BringUpFailsKeeps,
       DisconnectKeeps
  <1>8. ASSUME NEW c \in Caller, StartTail(c) \/ SpawnTail(c) \/ KeepTail(c) \/ TailStop(c)
        PROVE  RemoteInv'
    BY <1>1, <1>8, StartTailKeeps, SpawnTailKeeps, KeepTailKeeps, TailStopKeeps
  <1>9. QED
    BY <1>1, <1>2, <1>3, <1>4, <1>5, <1>6, <1>7, <1>8 DEF RemoteNext

\* However many calls interleave, over any environments and failures: every child has a
\* keeper, every tunnel the one identity, and calls that did not overlap leave nothing of an
\* earlier environment (remote/commands.rs, remote/state.rs).
THEOREM RemoteIsAccountedHolds == RemoteSpec => []RemoteIsAccounted
  <1>1. RemoteInit => RemoteInv
    BY RemoteStarts
  <1>2. RemoteInv /\ [RemoteNext]_remoteVars => RemoteInv'
    BY RemoteStep
  <1>3. RemoteInv => RemoteIsAccounted
    BY DEF RemoteInv, ChildrenAreKept, KeysAreThere, SerialIsSettled, UnderWay, Settled,
           TunnelFits, TailsAreKept, TailsFit, RemoteIsAccounted, SerialCallsLeaveNothing
  <1>4. QED
    BY <1>1, <1>2, <1>3, PTL DEF RemoteSpec

-----------------------------------------------------------------------------
(***************************************************************************)
(* Onboarding: what several wizards stage and commit, and the baselines.   *)
(***************************************************************************)
Holding == {"ready", "checked", "open", "staged"}

\* The entry of the identity map that wizard w's bundle asks for.
Entry(w) == [key |-> bundle[w].key, unit |-> bundle[w].unit, covers |-> bundle[w].covers, by |-> w]

WizardTypeOK ==
    /\ wizard \in [Wizard -> Holding \cup {"idle", "refused"}]
    /\ bundle \in [Wizard -> Bundle \cup {None}]
    /\ staged \in [File -> Agent \cup {None, "empty", "torn"}]
    /\ mapState \in {"absent", "good", "broken"}
    /\ unitList \in Seq(Unit)

RunTypeOK ==
    /\ evals \in Seq(Agent)
    /\ shell \in [Baseline -> {"idle", "eval", "scored", "snapped", "done", "failed"}]
    /\ runOf \in [Baseline -> Nat]
    /\ outcome \in [Baseline -> [agent : Agent] \cup [agent : Agent, run : Nat] \cup {None}]

\* A bundle is of an agent its own key line covers, and of commits that happened.
BundlesAgree ==
    /\ \A w \in Wizard : wizard[w] \in Holding => bundle[w] \in Bundle
    /\ \A w \in Wizard : bundle[w] # None =>
           /\ bundle[w].agent \in bundle[w].covers
           /\ bundle[w].since \subseteq committed
    /\ \A f \in File : staged[f] \in Agent =>
           \E w \in Wizard : wizard[w] = "staged" /\ staged[f] = bundle[w].agent

\* What was committed is in the map, and nothing is there or in the gateway but that.
CommitsAreEntries ==
    /\ committed \subseteq {w \in Wizard : wizard[w] = "staged"}
    /\ keyList = {Entry(w) : w \in committed} /\ loaded \subseteq keyList
    /\ mapState = "absent" => committed = {}

\* A unit in the map was new to a committed bundle, which, if the map was read for it, was
\* made before any other bundle to which it was new was committed.
UnitsAreOfBundles ==
    /\ \A i \in DOMAIN unitList :
           \E w \in committed : bundle[w].unit = unitList[i] /\ bundle[w].unitIsNew
    /\ \A w \in committed : bundle[w].unitIsNew =>
           \E i \in DOMAIN unitList : unitList[i] = bundle[w].unit
    /\ \A w \in Wizard : bundle[w] # None /\ bundle[w].unitIsNew /\ bundle[w].mapRead =>
           \A x \in bundle[w].since : bundle[x].unitIsNew => bundle[x].unit # bundle[w].unit

\* A baseline has its own run in hand from the moment its child printed it.
RunsAreOwn ==
    \A b \in Baseline :
        /\ shell[b] = "eval" => outcome[b].agent \in Agent
        /\ shell[b] \in {"scored", "snapped", "done"} =>
               runOf[b] \in DOMAIN evals /\ evals[runOf[b]] = outcome[b].agent
        /\ shell[b] \in {"snapped", "done"} =>
               [run |-> runOf[b], label |-> outcome[b].agent] \in snapshots
        /\ shell[b] = "done" => outcome[b].run = runOf[b]

WizardInv ==
    /\ WizardTypeOK /\ BundlesAgree /\ CommitsAreEntries /\ UnitsAreOfBundles /\ UnitDefinedOnce

RunInv == RunTypeOK /\ RunsAreOwn

OnboardInv == WizardInv /\ RunInv

\* At the start nothing is bundled, staged, committed or run.
LEMMA OnboardStarts == OnboardInit => OnboardInv
  <1>1. SUFFICES ASSUME OnboardInit PROVE OnboardInv
    OBVIOUS
  <1>2. WizardTypeOK
    BY <1>1 DEF OnboardInit, WizardTypeOK, Holding
  <1>3. BundlesAgree /\ CommitsAreEntries
    BY <1>1, OnboardAssumption DEF OnboardInit, BundlesAgree, CommitsAreEntries, Holding, Entry
  <1>4. UnitsAreOfBundles /\ UnitDefinedOnce
    BY <1>1 DEF OnboardInit, UnitsAreOfBundles, UnitDefinedOnce
  <1>5. RunInv
    BY <1>1 DEF OnboardInit, RunInv, RunTypeOK, RunsAreOwn
  <1>6. QED
    BY <1>2, <1>3, <1>4, <1>5 DEF OnboardInv, WizardInv

\* A wizard that holds a bundle goes on to a step; only its own agent is new on disk, and
\* only when it is staged.
GoesOn(w, step) ==
    /\ wizard[w] \in {"ready", "checked", "open"}
    /\ wizard' = [wizard EXCEPT ![w] = step]
    /\ staged' \in [File -> Agent \cup {None, "empty", "torn"}]
    /\ \A f \in File : staged'[f] \in Agent =>
           staged'[f] = staged[f] \/ (step = "staged" /\ staged'[f] = bundle[w].agent)
    /\ UNCHANGED <<bundle, committed, unitList, keyList, mapState, loaded>>

\* Such a step keeps what the wizards agree on.
LEMMA WizardGoesOn ==
    ASSUME WizardInv, NEW w \in Wizard, NEW step \in Holding, GoesOn(w, step)
    PROVE  WizardInv'
  <1> USE DEF GoesOn
  <1>1. /\ wizard' \in [Wizard -> Holding \cup {"idle", "refused"}] /\ wizard'[w] = step
        /\ \A v \in Wizard \ {w} : wizard'[v] = wizard[v]
        /\ w \notin committed
    BY DEF WizardInv, WizardTypeOK, CommitsAreEntries, Holding
  <1>2. WizardTypeOK'
    BY <1>1 DEF WizardInv, WizardTypeOK
  <1>3. BundlesAgree'
    <2>1. \A v \in Wizard : wizard'[v] \in Holding => bundle[v] \in Bundle
      BY <1>1 DEF WizardInv, BundlesAgree, Holding
    <2>2. ASSUME NEW f \in File, staged'[f] \in Agent
          PROVE  \E v \in Wizard : wizard'[v] = "staged" /\ staged'[f] = bundle[v].agent
      BY <1>1, <2>2 DEF WizardInv, BundlesAgree
    <2>3. QED
      BY <2>1, <2>2 DEF WizardInv, BundlesAgree
  <1>4. CommitsAreEntries'
    <2>1. \A v \in committed : v \in Wizard /\ wizard'[v] = "staged"
      BY <1>1 DEF WizardInv, CommitsAreEntries
    <2>2. \A v \in Wizard : Entry(v)' = Entry(v)
      BY DEF Entry
    <2>3. {Entry(v) : v \in committed}' = {Entry(v) : v \in committed}
      BY <2>1, <2>2
    <2>4. QED
      BY <2>1, <2>3 DEF WizardInv, CommitsAreEntries
  <1>5. UnitsAreOfBundles' /\ UnitDefinedOnce'
    BY DEF WizardInv, UnitsAreOfBundles, UnitDefinedOnce
  <1>6. QED
    BY <1>2, <1>3, <1>4, <1>5 DEF WizardInv

\* The question asked before the file is opened.
LEMMA CheckTargetKeeps ==
    ASSUME WizardInv, NEW w \in Wizard, NEW overwrite \in BOOLEAN, CheckTarget(w, overwrite)
    PROVE  WizardInv'
  <1>1. staged \in [File -> Agent \cup {None, "empty", "torn"}]
    BY DEF WizardInv, WizardTypeOK
  <1>2. PICK step \in {"ready", "checked"} : wizard' = [wizard EXCEPT ![w] = step]
    BY DEF CheckTarget
  <1>3. /\ wizard[w] = "ready"
        /\ UNCHANGED <<staged, bundle, committed, unitList, keyList, mapState, loaded>>
    BY DEF CheckTarget, mapVars
  <1>4. GoesOn(w, step) /\ step \in Holding
    BY <1>1, <1>2, <1>3 DEF GoesOn, Holding
  <1>5. QED
    BY <1>4, WizardGoesOn

\* The file is emptied; no agent is new on disk.
LEMMA OpenTargetKeeps ==
    ASSUME WizardInv, NEW w \in Wizard, OpenTarget(w)
    PROVE  WizardInv'
  <1>1. /\ wizard[w] = "checked" /\ wizard' = [wizard EXCEPT ![w] = "open"]
        /\ staged' = [staged EXCEPT ![bundle[w].file] = "empty"]
        /\ UNCHANGED <<bundle, committed, unitList, keyList, mapState, loaded>>
    BY DEF OpenTarget, mapVars
  <1>2. staged \in [File -> Agent \cup {None, "empty", "torn"}]
    BY DEF WizardInv, WizardTypeOK
  <1>3. /\ staged' \in [File -> Agent \cup {None, "empty", "torn"}]
        /\ \A f \in File : staged'[f] \in Agent => staged'[f] = staged[f]
    BY <1>1, <1>2, OnboardAssumption
  <1>4. GoesOn(w, "open") /\ "open" \in Holding
    BY <1>1, <1>3 DEF GoesOn, Holding
  <1>5. QED
    BY <1>4, WizardGoesOn

\* The file is the wizard's own agent's, or a mixture nobody can read.
LEMMA FillTargetKeeps ==
    ASSUME WizardInv, NEW w \in Wizard, FillTarget(w)
    PROVE  WizardInv'
  <1>1. PICK text \in {bundle[w].agent, "torn"} :
            staged' = [staged EXCEPT ![bundle[w].file] = text]
    BY DEF FillTarget
  <1>2. /\ wizard[w] = "open" /\ wizard' = [wizard EXCEPT ![w] = "staged"]
        /\ UNCHANGED <<bundle, committed, unitList, keyList, mapState, loaded>>
    BY DEF FillTarget, mapVars
  <1>3. staged \in [File -> Agent \cup {None, "empty", "torn"}]
    BY DEF WizardInv, WizardTypeOK
  <1>4. bundle[w].agent \in Agent
    BY <1>2 DEF WizardInv, BundlesAgree, Holding, Bundle
  <1>5. /\ staged' \in [File -> Agent \cup {None, "empty", "torn"}]
        /\ \A f \in File : staged'[f] \in {staged[f], bundle[w].agent, "torn"}
    BY <1>1, <1>3, <1>4
  <1>6. GoesOn(w, "staged") /\ "staged" \in Holding
    BY <1>2, <1>5, OnboardAssumption DEF GoesOn, Holding
  <1>7. QED
    BY <1>6, WizardGoesOn

\* What a failed write leaves is nobody's.
LEMMA FillFailsKeeps ==
    ASSUME WizardInv, NEW w \in Wizard, FillFails(w)
    PROVE  WizardInv'
  <1>1. PICK text \in {staged[bundle[w].file], "torn"} :
            staged' = [staged EXCEPT ![bundle[w].file] = text]
    BY DEF FillFails
  <1>2. /\ wizard[w] = "open" /\ wizard' = [wizard EXCEPT ![w] = "ready"]
        /\ UNCHANGED <<bundle, committed, unitList, keyList, mapState, loaded>>
    BY DEF FillFails, mapVars
  <1>3. /\ staged \in [File -> Agent \cup {None, "empty", "torn"}]
        /\ bundle[w].file \in File
    BY <1>2 DEF WizardInv, WizardTypeOK, BundlesAgree, Holding, Bundle
  <1>4. /\ staged' \in [File -> Agent \cup {None, "empty", "torn"}]
        /\ \A f \in File : staged'[f] \in {staged[f], "torn"}
    BY <1>1, <1>3
  <1>5. GoesOn(w, "ready") /\ "ready" \in Holding
    BY <1>2, <1>4, OnboardAssumption DEF GoesOn, Holding
  <1>6. QED
    BY <1>5, WizardGoesOn

\* What a valid request is answered with is a bundle; a unit it calls new is not in the map
\* that was read for it.
LEMMA ArtifactsAgree ==
    ASSUME WizardInv, NEW r \in Request, GenerateRefusal(r) = None
    PROVE  /\ Artifacts(r) \in Bundle
           /\ Artifacts(r).agent \in Artifacts(r).covers
           /\ Artifacts(r).since = committed
           /\ Artifacts(r).unitIsNew /\ Artifacts(r).mapRead =>
                  \A i \in DOMAIN unitList : unitList[i] # Artifacts(r).unit
  <1>1. PatternMatches(r.bind, r.agent)
    BY OnboardAssumption DEF GenerateRefusal
  <1>2. r.agent \in Agent /\ r.unit \in Unit /\ r.map \in BOOLEAN
    BY DEF Request
  <1>3. Covers(r.bind, r.agent) \in SUBSET Agent
    BY <1>2 DEF Covers
  <1>4. committed \in SUBSET Wizard
    BY DEF WizardInv, CommitsAreEntries
  <1>5. FlatName[r.agent] \in File
    BY <1>2 DEF File
  <1>6. Artifacts(r) \in Bundle
    BY <1>2, <1>3, <1>4, <1>5 DEF Artifacts, Bundle
  <1>7. ASSUME r.unit \notin KnownUnits(r), r.map, NEW i \in DOMAIN unitList
        PROVE  unitList[i] # r.unit
    BY <1>7 DEF KnownUnits
  <1>8. QED
    BY <1>1, <1>6, <1>7 DEF Artifacts, PatternMatches

\* What a wizard is given, it holds from then on; what was committed before does not change.
LEMMA GenerateKeeps ==
    ASSUME WizardInv, NEW w \in Wizard, NEW r \in Request, Generate(w, r)
    PROVE  WizardInv'
  <1>1. /\ wizard[w] = "idle"
        /\ UNCHANGED <<committed, staged, unitList, keyList, mapState, loaded>>
    BY DEF Generate, mapVars
  <1>2. WizardTypeOK /\ BundlesAgree /\ CommitsAreEntries /\ UnitsAreOfBundles /\ UnitDefinedOnce
    BY DEF WizardInv
  <1>3. w \notin committed /\ \A v \in committed : v \in Wizard \ {w}
    BY <1>1, <1>2 DEF CommitsAreEntries
  <1>4. CASE GenerateRefusal(r) # None
    <2>1. wizard' = [wizard EXCEPT ![w] = "refused"] /\ bundle' = bundle
      BY <1>4 DEF Generate
    <2>2. /\ wizard' \in [Wizard -> Holding \cup {"idle", "refused"}] /\ wizard'[w] = "refused"
          /\ \A v \in Wizard \ {w} : wizard'[v] = wizard[v]
      BY <1>2, <2>1 DEF WizardTypeOK
    <2>3. WizardTypeOK'
      BY <1>1, <1>2, <2>1, <2>2 DEF WizardTypeOK
    <2>4. BundlesAgree'
      <3>1. ASSUME NEW f \in File, staged[f] \in Agent
            PROVE  \E v \in Wizard : wizard'[v] = "staged" /\ staged[f] = bundle[v].agent
        BY <1>1, <1>2, <2>2, <3>1 DEF BundlesAgree
      <3>2. QED
        BY <1>1, <1>2, <2>1, <2>2, <3>1 DEF BundlesAgree, Holding
    <2>5. CommitsAreEntries'
      BY <1>1, <1>2, <1>3, <2>1, <2>2 DEF CommitsAreEntries, Entry
    <2>6. UnitsAreOfBundles' /\ UnitDefinedOnce'
      BY <1>1, <1>2, <2>1 DEF UnitsAreOfBundles, UnitDefinedOnce
    <2>7. QED
      BY <2>3, <2>4, <2>5, <2>6 DEF WizardInv
  <1>5. CASE GenerateRefusal(r) = None
    <2> DEFINE new == Artifacts(r)
    <2>1. wizard' = [wizard EXCEPT ![w] = "ready"] /\ bundle' = [bundle EXCEPT ![w] = new]
      BY <1>5 DEF Generate
    <2>2. /\ new \in Bundle /\ new.agent \in new.covers /\ new.since = committed
          /\ new.unitIsNew /\ new.mapRead => \A i \in DOMAIN unitList : unitList[i] # new.unit
      BY <1>5, ArtifactsAgree
    <2> HIDE DEF new
    <2>3. /\ wizard' \in [Wizard -> Holding \cup {"idle", "refused"}] /\ wizard'[w] = "ready"
          /\ bundle' \in [Wizard -> Bundle \cup {None}] /\ bundle'[w] = new
          /\ \A v \in Wizard \ {w} : wizard'[v] = wizard[v] /\ bundle'[v] = bundle[v]
      BY <1>2, <2>1, <2>2 DEF WizardTypeOK, Holding
    <2>4. WizardTypeOK'
      BY <1>1, <1>2, <2>3 DEF WizardTypeOK
    <2>5. BundlesAgree'
      <3>1. ASSUME NEW f \in File, staged[f] \in Agent
            PROVE  \E v \in Wizard : wizard'[v] = "staged" /\ staged[f] = bundle'[v].agent
        BY <1>1, <1>2, <2>3, <3>1 DEF BundlesAgree
      <3>2. \A v \in Wizard : wizard'[v] \in Holding => bundle'[v] \in Bundle
        BY <1>2, <2>2, <2>3 DEF BundlesAgree
      <3>3. \A v \in Wizard : bundle'[v] # None =>
                bundle'[v].agent \in bundle'[v].covers /\ bundle'[v].since \subseteq committed
        BY <1>2, <2>2, <2>3 DEF BundlesAgree
      <3>4. QED
        BY <1>1, <3>1, <3>2, <3>3 DEF BundlesAgree
    <2>6. CommitsAreEntries'
      <3>1. \A v \in committed : Entry(v)' = Entry(v)
        BY <1>3, <2>3 DEF Entry
      <3>2. {Entry(v) : v \in committed}' = {Entry(v) : v \in committed}
        BY <1>1, <3>1
      <3>3. QED
        BY <1>1, <1>2, <1>3, <2>3, <3>2 DEF CommitsAreEntries
    <2>7. UnitsAreOfBundles'
      <3>1. \A v \in committed : bundle'[v] = bundle[v]
        BY <1>3, <2>3
      <3>2. \A v \in Wizard : bundle[v] # None => bundle[v].since \subseteq committed
        BY <1>2 DEF BundlesAgree
      <3>3. ASSUME NEW v \in Wizard, bundle'[v] # None, bundle'[v].unitIsNew,
                   bundle'[v].mapRead, NEW x \in bundle'[v].since, bundle'[x].unitIsNew
            PROVE  bundle'[x].unit # bundle'[v].unit
        <4>1. CASE v = w
          <5>1. x \in committed /\ bundle'[x] = bundle[x]
            BY <2>2, <2>3, <3>1, <3>3, <4>1
          <5>2. PICK i \in DOMAIN unitList : unitList[i] = bundle[x].unit
            BY <1>2, <3>3, <5>1 DEF UnitsAreOfBundles
          <5>3. QED
            BY <2>2, <2>3, <3>3, <4>1, <5>1, <5>2
        <4>2. CASE v # w
          BY <1>2, <2>3, <3>1, <3>2, <3>3, <4>2 DEF UnitsAreOfBundles
        <4>3. QED
          BY <4>1, <4>2
      <3>4. QED
        BY <1>1, <1>2, <3>1, <3>3 DEF UnitsAreOfBundles
    <2>8. UnitDefinedOnce'
      BY <1>1, <1>2, <1>3, <2>3 DEF UnitDefinedOnce
    <2>9. QED
      BY <2>4, <2>5, <2>6, <2>7, <2>8 DEF WizardInv
  <1>6. QED
    BY <1>4, <1>5

\* A commit adds its own entry, and its unit when the map had none when it was made; a unit
\* that is there by now came from a bundle it did not know of.
LEMMA CommitKeeps ==
    ASSUME WizardInv, NEW w \in Wizard, Commit(w)
    PROVE  WizardInv'
  <1>1. /\ wizard[w] = "staged" /\ w \notin committed /\ mapState' = "good"
        /\ committed' = committed \cup {w} /\ keyList' = keyList \cup {Entry(w)}
        /\ UNCHANGED <<wizard, bundle, staged, loaded>>
    BY DEF Commit, Entry
  <1>2. WizardTypeOK /\ BundlesAgree /\ CommitsAreEntries /\ UnitsAreOfBundles /\ UnitDefinedOnce
    BY DEF WizardInv
  <1>3. bundle[w] \in Bundle /\ bundle[w] # None
    BY <1>1, <1>2, OnboardAssumption DEF BundlesAgree, Holding
  <1>4. BundlesAgree'
    BY <1>1, <1>2 DEF BundlesAgree
  <1>5. CommitsAreEntries'
    <2>1. \A v : Entry(v)' = Entry(v)
      BY <1>1 DEF Entry
    <2>2. {Entry(v) : v \in committed}' = {Entry(v) : v \in committed'}
      BY <2>1
    <2>3. {Entry(v) : v \in committed'} = {Entry(v) : v \in committed} \cup {Entry(w)}
      BY <1>1
    <2>4. keyList' = {Entry(v) : v \in committed}'
      BY <1>1, <1>2, <2>2, <2>3 DEF CommitsAreEntries
    <2>5. QED
      BY <1>1, <1>2, <2>4 DEF CommitsAreEntries
  <1>6. CASE ~bundle[w].unitIsNew
    <2>1. unitList' = unitList
      BY <1>6 DEF Commit
    <2>2. WizardTypeOK'
      BY <1>1, <1>2, <2>1 DEF WizardTypeOK
    <2>3. UnitsAreOfBundles'
      BY <1>1, <1>2, <1>6, <2>1 DEF UnitsAreOfBundles
    <2>4. UnitDefinedOnce'
      BY <1>1, <1>2, <2>1 DEF UnitDefinedOnce
    <2>5. QED
      BY <1>4, <1>5, <2>2, <2>3, <2>4 DEF WizardInv
  <1>7. CASE bundle[w].unitIsNew
    <2>1. unitList' = Append(unitList, bundle[w].unit) /\ bundle[w].unit \in Unit
      BY <1>3, <1>7 DEF Commit, Bundle
    <2>2. /\ unitList' \in Seq(Unit) /\ Len(unitList') = Len(unitList) + 1
          /\ \A i \in 1..Len(unitList) : unitList'[i] = unitList[i]
          /\ unitList'[Len(unitList) + 1] = bundle[w].unit
          /\ DOMAIN unitList = 1..Len(unitList) /\ DOMAIN unitList' = 1..(Len(unitList) + 1)
          /\ Len(unitList) \in Nat
      BY <1>2, <2>1 DEF WizardTypeOK
    <2>3. WizardTypeOK'
      BY <1>1, <1>2, <2>2 DEF WizardTypeOK
    <2>4. UnitsAreOfBundles'
      <3>1. ASSUME NEW i \in DOMAIN unitList'
            PROVE  \E v \in committed' : bundle[v].unit = unitList'[i] /\ bundle[v].unitIsNew
        <4>1. CASE i = Len(unitList) + 1
          BY <1>1, <1>7, <2>2, <4>1
        <4>2. CASE i \in DOMAIN unitList
          BY <1>1, <1>2, <2>2, <4>2 DEF UnitsAreOfBundles
        <4>3. QED
          BY <2>2, <4>1, <4>2
      <3>2. ASSUME NEW v \in committed', bundle[v].unitIsNew
            PROVE  \E i \in DOMAIN unitList' : unitList'[i] = bundle[v].unit
        <4>1. CASE v = w
          <5>1. Len(unitList) + 1 \in DOMAIN unitList'
            BY <2>2
          <5>2. QED
            BY <2>2, <4>1, <5>1
        <4>2. CASE v \in committed
          <5>1. PICK i \in DOMAIN unitList : unitList[i] = bundle[v].unit
            BY <1>2, <3>2, <4>2 DEF UnitsAreOfBundles
          <5>2. i \in DOMAIN unitList' /\ unitList'[i] = unitList[i]
            BY <2>2
          <5>3. QED
            BY <5>1, <5>2
        <4>3. QED
          BY <1>1, <4>1, <4>2
      <3>3. QED
        BY <1>1, <1>2, <3>1, <3>2 DEF UnitsAreOfBundles
    <2>5. UnitDefinedOnce'
      <3>1. ASSUME NEW i \in DOMAIN unitList', NEW j \in DOMAIN unitList',
                   i < j, unitList'[i] = unitList'[j]
            PROVE  \E v, x \in committed' :
                       /\ bundle[v].unit = unitList'[i] /\ bundle[x].unit = unitList'[i] /\ v # x
                       /\ v \notin bundle[x].since
                       /\ x \notin bundle[v].since \/ ~bundle[v].mapRead
        <4>1. i \in DOMAIN unitList /\ unitList'[i] = unitList[i]
          BY <2>2, <3>1
        <4>2. CASE j \in DOMAIN unitList
          <5>1. unitList[i] = unitList[j]
            BY <2>2, <3>1, <4>1, <4>2
          <5>2. QED
            BY <1>1, <1>2, <3>1, <4>1, <4>2, <5>1 DEF UnitDefinedOnce
        <4>3. CASE j = Len(unitList) + 1
          <5>1. PICK x \in committed : bundle[x].unit = unitList[i] /\ bundle[x].unitIsNew
            BY <1>2, <4>1 DEF UnitsAreOfBundles
          <5>2. bundle[x].unit = bundle[w].unit
            BY <2>2, <3>1, <4>1, <4>3, <5>1
          <5>3. x \notin bundle[w].since \/ ~bundle[w].mapRead
            BY <1>2, <1>3, <1>7, <5>1, <5>2 DEF UnitsAreOfBundles
          <5>4. x \in Wizard /\ bundle[x] # None
            BY <1>2, <5>1, OnboardAssumption DEF CommitsAreEntries, BundlesAgree, Holding
          <5>5. w \notin bundle[x].since
            BY <1>1, <1>2, <5>4 DEF BundlesAgree
          <5>6. QED
            BY <1>1, <4>1, <5>1, <5>2, <5>3, <5>5
        <4>4. QED
          BY <2>2, <4>2, <4>3
      <3>2. QED
        BY <1>1, <3>1 DEF UnitDefinedOnce
    <2>6. QED
      BY <1>4, <1>5, <2>3, <2>4, <2>5 DEF WizardInv
  <1>8. QED
    BY <1>6, <1>7

\* Hand edits break the map or mend it, a reload takes the entries that are there.
LEMMA MapKeeps ==
    ASSUME WizardInv, EditMap \/ Reload
    PROVE  WizardInv'
  <1>1. /\ UNCHANGED <<wizard, bundle, committed, staged, unitList, keyList>>
        /\ loaded' \in {loaded, keyList}
        /\ mapState' \in {"good", "broken", mapState} /\ (mapState' = "absent" => mapState = "absent")
    BY DEF EditMap, Reload, wizardVars
  <1>2. WizardTypeOK'
    BY <1>1 DEF WizardInv, WizardTypeOK
  <1>3. BundlesAgree' /\ UnitsAreOfBundles' /\ UnitDefinedOnce'
    BY <1>1 DEF WizardInv, BundlesAgree, UnitsAreOfBundles, UnitDefinedOnce
  <1>4. CommitsAreEntries'
    BY <1>1 DEF WizardInv, CommitsAreEntries, Entry
  <1>5. QED
    BY <1>2, <1>3, <1>4 DEF WizardInv

\* A console that dies takes the sessions that were writing, and nothing that was staged.
LEMMA LoseKeeps ==
    ASSUME WizardInv, Lose
    PROVE  WizardInv'
  <1>1. UNCHANGED <<bundle, committed, staged, unitList, keyList, mapState, loaded>>
    BY DEF Lose, mapVars
  <1>2. /\ wizard' \in [Wizard -> Holding \cup {"idle", "refused"}]
        /\ \A v \in Wizard : wizard'[v] # "refused" => wizard'[v] = wizard[v]
        /\ \A v \in Wizard : wizard[v] = "staged" => wizard'[v] = "staged"
    BY DEF Lose, WizardInv, WizardTypeOK, Holding
  <1>3. WizardTypeOK'
    BY <1>1, <1>2 DEF WizardInv, WizardTypeOK
  <1>4. BundlesAgree'
    <2>1. \A v \in Wizard : wizard'[v] \in Holding => bundle[v] \in Bundle
      BY <1>2 DEF WizardInv, BundlesAgree, Holding
    <2>2. \A f \in File : staged[f] \in Agent =>
              \E v \in Wizard : wizard'[v] = "staged" /\ staged[f] = bundle[v].agent
      BY <1>2 DEF WizardInv, BundlesAgree
    <2>3. QED
      BY <1>1, <2>1, <2>2 DEF WizardInv, BundlesAgree
  <1>5. CommitsAreEntries'
    BY <1>1, <1>2 DEF WizardInv, CommitsAreEntries, Entry
  <1>6. UnitsAreOfBundles' /\ UnitDefinedOnce'
    BY <1>1 DEF WizardInv, UnitsAreOfBundles, UnitDefinedOnce
  <1>7. QED
    BY <1>3, <1>4, <1>5, <1>6 DEF WizardInv

\* Nothing a wizard is about is touched by a baseline, nor the other way round.
LEMMA WizardFrame ==
    ASSUME WizardInv,
           UNCHANGED <<wizard, bundle, committed, staged, unitList, keyList, mapState, loaded>>
    PROVE  WizardInv'
  <1>1. WizardTypeOK' /\ BundlesAgree'
    BY DEF WizardInv, WizardTypeOK, BundlesAgree
  <1>2. CommitsAreEntries'
    BY DEF WizardInv, CommitsAreEntries, Entry
  <1>3. UnitsAreOfBundles' /\ UnitDefinedOnce'
    BY DEF WizardInv, UnitsAreOfBundles, UnitDefinedOnce
  <1>4. QED
    BY <1>1, <1>2, <1>3 DEF WizardInv

\* The baselines stand when nothing of theirs changes.
LEMMA RunFrame == RunInv /\ UNCHANGED evalVars => RunInv'
  BY DEF RunInv, RunTypeOK, RunsAreOwn, evalVars

\* A call begins with the agent it was asked about, or is refused.
LEMMA StartKeeps ==
    ASSUME RunInv, NEW b \in Baseline,
           RefuseEval(b) \/ \E a \in Agent : StartEval(b, a)
    PROVE  RunInv'
  <1>1. RunTypeOK /\ RunsAreOwn /\ UNCHANGED <<evals, runOf, snapshots>>
    BY DEF RunInv, RefuseEval, StartEval
  <1>2. CASE RefuseEval(b)
    BY <1>1, <1>2 DEF RefuseEval, RunInv, RunTypeOK, RunsAreOwn
  <1>3. ASSUME NEW a \in Agent, StartEval(b, a) PROVE RunInv'
    <2>1. /\ shell' \in [Baseline -> {"idle", "eval", "scored", "snapped", "done", "failed"}]
          /\ outcome' \in [Baseline -> [agent : Agent] \cup [agent : Agent, run : Nat] \cup {None}]
          /\ shell'[b] = "eval" /\ outcome'[b] = [agent |-> a]
          /\ \A d \in Baseline \ {b} : shell'[d] = shell[d] /\ outcome'[d] = outcome[d]
      BY <1>1, <1>3 DEF StartEval, RunTypeOK
    <2>2. QED
      BY <1>1, <2>1 DEF RunInv, RunTypeOK, RunsAreOwn
  <1>4. QED
    BY <1>2, <1>3

\* The run a child prints is the one it has just appended.
LEMMA EvalKeeps ==
    ASSUME RunInv, NEW b \in Baseline, Eval(b)
    PROVE  RunInv'
  <1>1. /\ RunTypeOK /\ RunsAreOwn /\ shell[b] = "eval" /\ UNCHANGED <<snapshots, outcome>>
        /\ outcome[b].agent \in Agent
    BY DEF RunInv, Eval, RunsAreOwn
  <1>2. /\ evals' \in Seq(Agent) /\ Len(evals) \in Nat /\ DOMAIN evals = 1..Len(evals)
        /\ DOMAIN evals' = 1..(Len(evals) + 1)
        /\ \A i \in DOMAIN evals : evals'[i] = evals[i]
        /\ evals'[Len(evals) + 1] = outcome[b].agent
    BY <1>1 DEF Eval, RunTypeOK
  <1>3. /\ shell' \in [Baseline -> {"idle", "eval", "scored", "snapped", "done", "failed"}]
        /\ runOf' \in [Baseline -> Nat]
        /\ \A d \in Baseline \ {b} : shell'[d] = shell[d] /\ runOf'[d] = runOf[d]
        /\ \/ shell'[b] = "scored" /\ runOf'[b] = Len(evals) + 1
           \/ shell'[b] = "failed"
    <2> DEFINE n == Len(evals) + 1
    <2>1. /\ shell \in [Baseline -> {"idle", "eval", "scored", "snapped", "done", "failed"}]
          /\ runOf \in [Baseline -> Nat] /\ n \in Nat
      BY <1>1, <1>2 DEF RunTypeOK
    <2>2. \/ shell' = [shell EXCEPT ![b] = "scored"] /\ runOf' = [runOf EXCEPT ![b] = n]
          \/ shell' = [shell EXCEPT ![b] = "failed"] /\ runOf' = runOf
      BY DEF Eval
    <2> HIDE DEF n
    <2>3. /\ shell' \in [Baseline -> {"idle", "eval", "scored", "snapped", "done", "failed"}]
          /\ runOf' \in [Baseline -> Nat]
          /\ \A d \in Baseline \ {b} : shell'[d] = shell[d] /\ runOf'[d] = runOf[d]
          /\ \/ shell'[b] = "scored" /\ runOf'[b] = n
             \/ shell'[b] = "failed"
      BY <2>1, <2>2
    <2>4. QED
      BY <2>3 DEF n
  <1>4. Len(evals) + 1 \in DOMAIN evals' /\ \A i \in DOMAIN evals : i \in DOMAIN evals'
    BY <1>2
  <1>5. RunTypeOK'
    BY <1>1, <1>2, <1>3 DEF RunTypeOK
  <1>6. RunsAreOwn'
    <2> DEFINE Own(c) ==
                 /\ shell[c] = "eval" => outcome[c].agent \in Agent
                 /\ shell[c] \in {"scored", "snapped", "done"} =>
                        runOf[c] \in DOMAIN evals /\ evals[runOf[c]] = outcome[c].agent
                 /\ shell[c] \in {"snapped", "done"} =>
                        [run |-> runOf[c], label |-> outcome[c].agent] \in snapshots
                 /\ shell[c] = "done" => outcome[c].run = runOf[c]
    <2>1. \A c \in Baseline : Own(c)
      BY <1>1 DEF RunsAreOwn
    <2>2. ASSUME NEW c \in Baseline, c # b
          PROVE  Own(c)'
      BY <1>1, <1>2, <1>3, <1>4, <2>1, <2>2
    <2>3. Own(b)'
      <3>1. CASE shell'[b] = "scored" /\ runOf'[b] = Len(evals) + 1
        BY <1>1, <1>2, <1>4, <3>1
      <3>2. CASE shell'[b] = "failed"
        BY <3>2
      <3>3. QED
        BY <1>3, <3>1, <3>2
    <2> HIDE DEF Own
    <2>4. \A c \in Baseline : Own(c)'
      BY <2>2, <2>3
    <2>5. QED
      BY <2>4 DEF Own, RunsAreOwn
  <1>7. QED
    BY <1>5, <1>6 DEF RunInv

\* The baseline is taken of that run.
LEMMA SnapshotKeeps ==
    ASSUME RunInv, NEW b \in Baseline, Snapshot(b)
    PROVE  RunInv'
  <1>1. /\ RunTypeOK /\ RunsAreOwn /\ shell[b] = "scored"
        /\ UNCHANGED <<evals, runOf, outcome>>
    BY DEF RunInv, Snapshot
  <1>2. /\ shell' \in [Baseline -> {"idle", "eval", "scored", "snapped", "done", "failed"}]
        /\ \A d \in Baseline \ {b} : shell'[d] = shell[d]
        /\ snapshots \subseteq snapshots'
        /\ \/ /\ shell'[b] = "snapped"
              /\ [run |-> runOf[b], label |-> outcome[b].agent] \in snapshots'
           \/ shell'[b] = "failed"
    BY <1>1 DEF Snapshot, RunId, RunTypeOK
  <1>3. RunTypeOK'
    BY <1>1, <1>2 DEF RunTypeOK
  <1>4. RunsAreOwn'
    BY <1>1, <1>2 DEF RunsAreOwn
  <1>5. QED
    BY <1>3, <1>4 DEF RunInv

\* The summary is read of that run.
LEMMA ReadBackKeeps ==
    ASSUME RunInv, NEW b \in Baseline, ReadBack(b)
    PROVE  RunInv'
  <1> DEFINE answer == [agent |-> outcome[b].agent, run |-> runOf[b]]
  <1>1. /\ RunTypeOK /\ RunsAreOwn /\ shell[b] = "snapped"
        /\ UNCHANGED <<evals, runOf, snapshots>>
        /\ runOf[b] \in DOMAIN evals /\ evals[runOf[b]] = outcome[b].agent
    BY DEF RunInv, ReadBack, RunsAreOwn
  <1>2. outcome[b].agent \in Agent /\ runOf[b] \in Nat
    BY <1>1 DEF RunTypeOK
  <1>3. /\ answer \in [agent : Agent, run : Nat]
        /\ answer.agent = outcome[b].agent /\ answer.run = runOf[b]
    BY <1>2
  <1>4. outcome' = [outcome EXCEPT ![b] = answer] /\ shell' = [shell EXCEPT ![b] = "done"]
    BY <1>1 DEF ReadBack, RunId
  <1> HIDE DEF answer
  <1>5. /\ shell' \in [Baseline -> {"idle", "eval", "scored", "snapped", "done", "failed"}]
        /\ outcome' \in [Baseline -> [agent : Agent] \cup [agent : Agent, run : Nat] \cup {None}]
        /\ shell'[b] = "done" /\ outcome'[b] = answer
        /\ \A d \in Baseline \ {b} : shell'[d] = shell[d] /\ outcome'[d] = outcome[d]
    BY <1>1, <1>3, <1>4 DEF RunTypeOK
  <1>6. RunTypeOK'
    BY <1>1, <1>5 DEF RunTypeOK
  <1>7. RunsAreOwn'
    BY <1>1, <1>3, <1>5 DEF RunsAreOwn
  <1>8. QED
    BY <1>6, <1>7 DEF RunInv

\* Every action keeps the invariant.
LEMMA OnboardStep == OnboardInv /\ [OnboardNext]_onboardVars => OnboardInv'
  <1>1. SUFFICES ASSUME WizardInv, RunInv, [OnboardNext]_onboardVars PROVE WizardInv' /\ RunInv'
    BY DEF OnboardInv
  <1>2. CASE UNCHANGED onboardVars
    BY <1>1, <1>2, WizardFrame, RunFrame DEF onboardVars, evalVars
  <1>3. ASSUME NEW w \in Wizard, NEW r \in Request, Generate(w, r) PROVE WizardInv' /\ RunInv'
    BY <1>1, <1>3, GenerateKeeps, RunFrame DEF Generate
  <1>4. ASSUME NEW w \in Wizard, NEW overwrite \in BOOLEAN, CheckTarget(w, overwrite)
        PROVE  WizardInv' /\ RunInv'
    BY <1>1, <1>4, CheckTargetKeeps, RunFrame DEF CheckTarget
  <1>5. ASSUME NEW w \in Wizard, OpenTarget(w) \/ FillTarget(w) \/ FillFails(w)
        PROVE  WizardInv' /\ RunInv'
    BY <1>1, <1>5, OpenTargetKeeps, FillTargetKeeps, FillFailsKeeps, RunFrame
       DEF OpenTarget, FillTarget, FillFails
  <1>6. ASSUME NEW w \in Wizard, Commit(w) PROVE WizardInv' /\ RunInv'
    BY <1>1, <1>6, CommitKeeps, RunFrame DEF Commit
  <1>7. CASE EditMap \/ Reload
    BY <1>1, <1>7, MapKeeps, RunFrame DEF EditMap, Reload
  <1>8. CASE BaselineStep
    <2>1. PICK b \in Baseline : \/ \E a \in Agent : StartEval(b, a)
                                \/ RefuseEval(b) \/ Eval(b) \/ Snapshot(b) \/ ReadBack(b)
      BY <1>8 DEF BaselineStep
    <2>2. RunInv'
      BY <1>1, <2>1, StartKeeps, EvalKeeps, SnapshotKeeps, ReadBackKeeps
    <2>3. UNCHANGED <<wizardVars, staged, mapVars>>
      BY <2>1 DEF StartEval, RefuseEval, Eval, Snapshot, ReadBack
    <2>4. QED
      BY <1>1, <2>2, <2>3, WizardFrame DEF wizardVars, mapVars
  <1>9. CASE Lose
    <2>1. /\ shell' \in [Baseline -> {"idle", "eval", "scored", "snapped", "done", "failed"}]
          /\ \A b \in Baseline : shell'[b] # "failed" => shell'[b] = shell[b]
          /\ UNCHANGED <<runOf, evals, snapshots, outcome>>
      BY <1>1, <1>9 DEF Lose, RunInv, RunTypeOK
    <2>2. RunInv'
      BY <1>1, <2>1 DEF RunInv, RunTypeOK, RunsAreOwn
    <2>3. QED
      BY <1>1, <1>9, <2>2, LoseKeeps
  <1>10. QED
    BY <1>1, <1>2, <1>3, <1>4, <1>5, <1>6, <1>7, <1>8, <1>9 DEF OnboardNext, WizardStep

\* For any wizards, agents whose paths share file names, baselines, edits and deaths: what was
\* committed is admitted, every file is reported, a unit is defined once unless two bundles
\* were made side by side or the later was made without a map, and a baseline is of its own
\* run (onboard/commands.rs, admission/commands.rs).
THEOREM OnboardedIsConsistentHolds == OnboardSpec => []OnboardedIsConsistent
  <1>1. OnboardInit => OnboardInv
    BY OnboardStarts
  <1>2. OnboardInv /\ [OnboardNext]_onboardVars => OnboardInv'
    BY OnboardStep
  <1>3. ASSUME OnboardInv PROVE OnboardedIsConsistent
    <2>1. WizardTypeOK /\ BundlesAgree /\ CommitsAreEntries /\ UnitDefinedOnce /\ RunsAreOwn
      BY <1>3 DEF OnboardInv, WizardInv, RunInv
    <2>2. \A w \in committed : w \in Wizard /\ bundle[w] # None /\ Entry(w) \in keyList
      BY <2>1, OnboardAssumption DEF BundlesAgree, CommitsAreEntries, Holding
    <2>3. \A w \in committed : bundle[w].agent \in Entry(w).covers /\ Entry(w).key = bundle[w].key
      BY <2>1, <2>2 DEF BundlesAgree, Entry
    <2>4. ASSUME NEW w \in committed, NEW k \in loaded, k.by = w
          PROVE  k = Entry(w)
      BY <2>1, <2>4 DEF CommitsAreEntries, Entry
    <2>5. CommittedIsAdmitted
      BY <2>2, <2>3, <2>4 DEF CommittedIsAdmitted, InMap, KeyKnown, BoundInReport
    <2>6. EveryFileIsReported
      <3>1. ASSUME NEW f \in File, staged[f] # None PROVE f \in Listed \cup SkippedFiles
        BY <2>1, <3>1 DEF WizardTypeOK, Listed, SkippedFiles
      <3>2. ASSUME NEW f \in Listed
            PROVE  \E w \in Wizard : /\ wizard[w] # "open" /\ bundle[w] # None
                                     /\ staged[f] = bundle[w].agent
        <4>1. PICK w \in Wizard : wizard[w] = "staged" /\ staged[f] = bundle[w].agent
          BY <2>1, <3>2 DEF BundlesAgree, Listed
        <4>2. bundle[w] # None
          BY <2>1, <4>1, OnboardAssumption DEF BundlesAgree, Holding
        <4>3. QED
          BY <4>1, <4>2
      <3>3. QED
        BY <3>1, <3>2 DEF EveryFileIsReported
    <2>7. BaselineIsOfItsRun
      BY <2>1 DEF RunsAreOwn, BaselineIsOfItsRun
    <2>8. QED
      BY <2>1, <2>5, <2>6, <2>7 DEF OnboardedIsConsistent
  <1>4. QED
    BY <1>1, <1>2, <1>3, PTL DEF OnboardSpec
=============================================================================
