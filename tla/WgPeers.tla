------------------------------ MODULE WgPeers ------------------------------
(***************************************************************************)
(* The devices that may dial into the console's own WireGuard server: the   *)
(* issue, list and revoke commands (crates/api/src/remote/wg_operator.rs)   *)
(* and the UAPI client they go through (crates/connectors/src/wg_uapi.rs).  *)
(*                                                                          *)
(* Actors: jobs, each one command on the blocking pool, with nothing held   *)
(* between its exchanges with the daemon; the daemon, which gives an        *)
(* address to the last peer that claimed it, and which a restart takes back *)
(* to its file; the death of the console.                                   *)
(*                                                                          *)
(* A definition marked Mutant is a wrong form of the one after it; no       *)
(* action uses it.                                                          *)
(***************************************************************************)
EXTENDS Integers, FiniteSets, FiniteSetsExt

CONSTANTS
    Job,          \* bound: the commands run
    FirstHost, LastHost,   \* the host octets of the tunnel subnet, 2 and 254
    MaxBroken,    \* bound: exchanges that fail, and saves
    MaxReboots    \* bound: restarts of the daemon, deaths of the console

ASSUME WgAssumption == FirstHost \in Nat \ {0} /\ LastHost \in Nat

Host   == FirstHost..LastHost
NoHost == 0
Key    == Job        \* every issue mints a key of its own

\* What the environment configures and what can be reached: the socket variable,
\* the certificate and bearer of a network endpoint, the endpoint host, whether
\* the daemon answers, whether a wg binary runs, and whether there is an event bus.
Deployment ==
    [socket : {"path", "network"}, pinned : BOOLEAN, host : BOOLEAN,
     daemon : BOOLEAN, wg : BOOLEAN, bus : BOOLEAN]

VARIABLES
    deploy,     \* the Deployment
    peer,       \* daemon: the address of each authorized key, NoHost when its
                \* address went to another, absent when it is not authorized
    kept,       \* the daemon's file: what a restart brings back
    job,        \* each command: what it is, how far it is, the list it read, its address
    told,       \* what the caller was answered
    peerRows,   \* the journal's rows: <<action, key>>
    stderr,     \* what was printed as succeeded but not journaled: <<action, key>>
    overtaken,  \* history: the keys issued while another issue was under way
    shed,       \* history: the keys a restart took away or brought back
    broken, reboots

wgState == <<deploy, peer, kept, job, told, peerRows, stderr, overtaken, shed, broken,
             reboots>>

Idle == [op |-> "none", at |-> "new", seen |-> {}, host |-> NoHost, key |-> "none"]
\* A command that has read the list.
Reads(op, seen, key) ==
    [op |-> op, at |-> "read", seen |-> seen, host |-> NoHost, key |-> key]
Live == DOMAIN peer
\* The addresses of the peers an exchange with the daemon lists.
Taken == {peer[k] : k \in Live} \ {NoHost}

WgInit ==
    /\ deploy \in Deployment
    /\ peer = <<>> /\ kept = <<>>
    /\ job = [j \in Job |-> Idle] /\ told = [j \in Job |-> "none"]
    /\ peerRows = {} /\ stderr = {} /\ overtaken = {} /\ shed = {} /\ broken = 0 /\ reboots = 0

-----------------------------------------------------------------------------
\* uapi_endpoint and resolve_backend: a network endpoint needs its certificate
\* and bearer and never falls back to a wg binary.
ResolveBackend ==
    IF deploy.socket = "network" /\ ~deploy.pinned THEN "misconfigured"
    ELSE IF deploy.daemon THEN "uapi"
    ELSE IF deploy.socket = "network" \/ ~deploy.wg THEN "server_not_configured"
    ELSE "shell"

Backends == {"uapi", "shell"}
Broken   == broken < MaxBroken

\* What a failed read answers: `wg show` does not tell why, a socket may be gone.
ReadFailure ==
    {"server_not_configured"} \cup (IF ResolveBackend = "shell" THEN {} ELSE {"exec"})

\* The answer of a job that ends here.
End(j, verdict) ==
    /\ told' = [told EXCEPT ![j] = verdict]
    /\ job' = [job EXCEPT ![j].at = "over"]

\* Mutant: the endpoint is looked up when the config is rendered.
IssueRefusalBackendOnly ==
    IF ResolveBackend \notin Backends THEN ResolveBackend ELSE "none"

\* What an issue that starts now checks before it reads: the backend and the
\* address to put in the config.
IssueRefusal ==
    IF ResolveBackend \notin Backends THEN ResolveBackend
    ELSE IF ~deploy.host THEN "misconfigured"
    ELSE "none"

\* issue_blocking up to next_free_client_ip: refuse, or read the live list.
BeginIssue(j) ==
    /\ job[j].at = "new"
    /\ \/ IssueRefusal # "none" /\ End(j, IssueRefusal) /\ UNCHANGED <<overtaken, broken>>
       \/ /\ IssueRefusal = "none" /\ Broken /\ broken' = broken + 1
          /\ (\E e \in ReadFailure : End(j, e)) /\ UNCHANGED overtaken
       \/ /\ IssueRefusal = "none"
          /\ job' = [job EXCEPT ![j] = Reads("issue", Taken, j)]
          /\ LET others == {i \in Job : job[i].op = "issue" /\ job[i].at = "read"}
             IN  overtaken' = overtaken \cup others \cup (IF others = {} THEN {} ELSE {j})
          /\ UNCHANGED <<told, broken>>
    /\ UNCHANGED <<deploy, peer, kept, peerRows, stderr, shed, reboots>>

\* Mutant: the fixed first address.
NextFreeFixed(seen) == FirstHost

\* Mutant: one address past the last.
NextFreeOffEnd(seen) == Min((Host \cup {LastHost + 1}) \ seen)

\* next_free_client_ip: the first octet no listed peer has, NoHost when none is left.
NextFree(seen) == IF Host \subseteq seen THEN NoHost ELSE Min(Host \ seen)

\* The daemon takes a peer: the address leaves whoever had it.
Claim(k, h) == [x \in Live \cup {k} |-> IF x = k THEN h ELSE IF peer[x] = h THEN NoHost ELSE peer[x]]

\* wg-quick save, after `wg set` only, and best effort; UAPI changes are never saved.
Save(now) ==
    IF ResolveBackend = "shell"
    THEN \/ kept' = now /\ UNCHANGED broken
         \/ Broken /\ broken' = broken + 1 /\ UNCHANGED kept
    ELSE UNCHANGED <<kept, broken>>

\* add_peer.  The exchange may fail before or after the daemon acted; nothing
\* takes the peer back then.
Authorize(j) ==
    /\ job[j].op = "issue" /\ job[j].at = "read"
    /\ LET h == NextFree(job[j].seen)
       IN  \/ /\ h = NoHost /\ End(j, "subnet_exhausted")
              /\ UNCHANGED <<peer, kept, broken>>
           \/ /\ h # NoHost /\ peer' = Claim(j, h)
              /\ job' = [job EXCEPT ![j].at = "added", ![j].host = h]
              /\ Save(peer') /\ UNCHANGED told
           \/ /\ h # NoHost /\ Broken /\ broken' = broken + 1 /\ UNCHANGED kept
              /\ \/ End(j, "exec") /\ peer' \in {peer, Claim(j, h)}
                 \/ /\ ResolveBackend = "uapi" /\ End(j, "server_not_configured")
                    /\ UNCHANGED peer
    /\ UNCHANGED <<deploy, peerRows, stderr, overtaken, shed, reboots>>

\* Mutant: a console without a bus records nothing and says nothing.
RecordSilently(action, k) ==
    /\ peerRows' = IF deploy.bus THEN peerRows \cup {<<action, k>>} ELSE peerRows
    /\ UNCHANGED <<stderr, broken>>

\* journal_peer_action: best effort.  Without a bus, or when the store, the row or its
\* line fails, the command is answered as done and only stderr says what is missing.
RecordPeer(action, k) ==
    \/ deploy.bus /\ peerRows' = peerRows \cup {<<action, k>>} /\ UNCHANGED <<stderr, broken>>
    \/ /\ \/ ~deploy.bus /\ UNCHANGED <<peerRows, broken>>
          \/ /\ deploy.bus /\ Broken /\ broken' = broken + 1
             /\ peerRows' \in {peerRows, peerRows \cup {<<action, k>>}}
       /\ stderr' = stderr \cup {<<action, k>>}

\* The config is rendered (a missing endpoint would only be met here, and a
\* config too long for a QR is), then journaled and handed over.
HandOver(j) ==
    /\ job[j].op = "issue" /\ job[j].at = "added"
    /\ \/ deploy.host /\ End(j, "issued") /\ RecordPeer("issue", j)
       \/ ~deploy.host /\ End(j, "misconfigured") /\ UNCHANGED <<peerRows, stderr, broken>>
    /\ UNCHANGED <<deploy, peer, kept, overtaken, shed, reboots>>

-----------------------------------------------------------------------------
\* A revoke names a key the daemon listed at some time; it may be gone by now.
BeginRevoke(j, k) ==
    /\ job[j].at = "new" /\ job[k].op = "issue" /\ job[k].at # "read"
    /\ \/ ResolveBackend \notin Backends /\ End(j, ResolveBackend) /\ UNCHANGED broken
       \/ /\ ResolveBackend \in Backends /\ Broken /\ broken' = broken + 1
          /\ \E e \in ReadFailure : End(j, e)
       \/ /\ ResolveBackend \in Backends /\ UNCHANGED <<told, broken>>
          /\ job' = [job EXCEPT ![j] = Reads("revoke", Live, k)]
    /\ UNCHANGED <<deploy, peer, kept, peerRows, stderr, overtaken, shed, reboots>>

\* Mutant: the operation is sent without remove=true.
RemoveAddress(j) ==
    /\ job[j].op = "revoke" /\ job[j].at = "read"
    /\ peer' = [x \in Live |-> IF x = job[j].key THEN NoHost ELSE peer[x]]
    /\ job' = [job EXCEPT ![j].at = "removed"]
    /\ UNCHANGED <<deploy, kept, told, peerRows, stderr, overtaken, shed, broken, reboots>>

\* remove_peer, whether the key was listed or not.
Remove(j) ==
    /\ job[j].op = "revoke" /\ job[j].at = "read"
    /\ LET left == [x \in Live \ {job[j].key} |-> peer[x]]
       IN  \/ /\ peer' = left /\ job' = [job EXCEPT ![j].at = "removed"]
              /\ Save(left) /\ UNCHANGED told
           \/ /\ Broken /\ broken' = broken + 1 /\ UNCHANGED kept
              /\ \/ End(j, "exec") /\ peer' \in {peer, left}
                 \/ /\ ResolveBackend = "uapi" /\ End(j, "server_not_configured")
                    /\ UNCHANGED peer
    /\ UNCHANGED <<deploy, peerRows, stderr, overtaken, shed, reboots>>

\* The second read, for remaining_peers, then the row.  When that read fails the
\* revoke is an error although it was done, and no row is written.
Answer(j) ==
    /\ job[j].op = "revoke" /\ job[j].at = "removed"
    /\ \/ End(j, "revoked") /\ RecordPeer("revoke", job[j].key)
       \/ /\ Broken /\ broken' = broken + 1 /\ UNCHANGED <<peerRows, stderr>>
          /\ \E e \in ReadFailure : End(j, e)
    /\ UNCHANGED <<deploy, peer, kept, overtaken, shed, reboots>>

-----------------------------------------------------------------------------
\* The daemon restarts with its file.
Reboot ==
    /\ reboots < MaxReboots /\ reboots' = reboots + 1
    /\ peer' = kept
    /\ shed' = shed \cup {k \in Key : (k \in Live) # (k \in DOMAIN kept)}
                    \cup {k \in Live \cap DOMAIN kept : peer[k] # kept[k]}
    /\ UNCHANGED <<deploy, kept, job, told, peerRows, stderr, overtaken, broken>>

\* The console dies and starts again: the commands under way end unanswered.
Fall ==
    /\ reboots < MaxReboots /\ reboots' = reboots + 1
    /\ job' = [j \in Job |-> IF job[j].at = "new" THEN job[j] ELSE [job[j] EXCEPT !.at = "over"]]
    /\ UNCHANGED <<deploy, peer, kept, told, peerRows, stderr, overtaken, shed, broken>>

WgNext ==
    \/ \E j \in Job : \/ BeginIssue(j) \/ Authorize(j) \/ HandOver(j)
                      \/ Remove(j) \/ Answer(j)
                      \/ \E k \in Key : BeginRevoke(j, k)
    \/ Reboot \/ Fall

WgSpec == WgInit /\ [][WgNext]_wgState

-----------------------------------------------------------------------------
(***************************************************************************)
(* Properties.                                                              *)
(***************************************************************************)
Issued  == {j \in Job : told[j] = "issued"}
Revoked == {job[j].key : j \in {i \in Job : told[i] = "revoked"}}
\* Asked away, whatever became of the asking.
Removing == {job[j].key : j \in {i \in Job : job[i].op = "revoke" /\ job[i].at # "new"}}

\* Two live peers never have one address, every address is inside the subnet.
WgTypeOK ==
    /\ Live \subseteq Key /\ DOMAIN kept \subseteq Key
    /\ \A k \in Live : peer[k] \in Host \cup {NoHost}
    /\ \A k, l \in Live : k # l => peer[k] = NoHost \/ peer[k] # peer[l]
    /\ Revoked \subseteq Removing

\* A device that was handed its config keeps the address in it until it is
\* revoked: only an issue under way at the same time, or a daemon restart, takes
\* it away (next_free_client_ip reads the live list).
KeepsAddress ==
    \A j \in Issued \ (Removing \cup overtaken \cup shed) : j \in Live /\ peer[j] = job[j].host

\* The same without the exception: "Addresses are allocated, not assumed"
\* (wg_operator.rs:44).
\* It does not hold: two issues that read the interface together
\* choose one address, and the later `wg set` takes it from the earlier device.
NoDeviceSuperseded ==
    \A j \in Issued \ (Removing \cup shed) : j \in Live /\ peer[j] = job[j].host

\* A key reported revoked completes no handshake from then on, whoever lists or
\* issues meanwhile; only a daemon that restarts from an older file brings it back.
RevokedStaysOut == \A k \in Revoked \ shed : k \notin Live

\* A call that named a missing piece of configuration or a full subnet left no
\* peer behind: the checks come before the key is authorized.
RefusedLeavesNoPeer ==
    \A j \in Job : told[j] \in {"misconfigured", "server_not_configured", "subnet_exhausted"}
        => j \notin Live /\ j \notin DOMAIN kept

\* What the rows and the console's own output tell together.
Recorded == peerRows \cup stderr

\* The answers after which nothing is recorded: none, or an error.
Unrecorded == {"none", "exec", "server_not_configured"}

\* The records and the interface tell one story: a device whose grant is neither in
\* the journal nor on stderr is one whose caller got an error or no answer, and a
\* granted device that is gone has its revocation in one of the two, or its revoker
\* got an error or no answer.  Where there is a bus and nothing fails, the journal
\* alone tells it.
JournalFollowsTunnel ==
    /\ \A k \in Live : <<"issue", k>> \notin Recorded => told[k] \in {"none", "exec"}
    /\ \A k \in Key \ (Live \cup shed) : <<"issue", k>> \in Recorded =>
           \/ <<"revoke", k>> \in Recorded
           \/ \E j \in Job : job[j].op = "revoke" /\ job[j].key = k /\ told[j] \in Unrecorded
    /\ deploy.bus /\ broken = 0 => stderr = {}

\* The journal alone: "an evidence pack could show a kill but not who was given the
\* keys" until issues and revokes were journaled (wg_operator.rs:576).
\* It does not hold: the record is best effort, and a console without a bus, or one
\* whose store or file refuses the write, answers "issued" and writes no row.
JournalShowsWhoHasKeys ==
    \A k \in Key : told[k] = "issued" => <<"issue", k>> \in peerRows

\* Devices, tunnel, saved file and journal stay one story under calls that interleave,
\* commands that fail half way and a daemon that restarts: addresses are kept, a revoked
\* key stays out, a refused call leaves nothing, and every change has its row, a line on
\* stderr that the row is missing, or an error (wg_operator.rs: issue, revoke).
PeersAreAccounted ==
    /\ WgTypeOK
    /\ KeepsAddress
    /\ RevokedStaysOut
    /\ RefusedLeavesNoPeer
    /\ JournalFollowsTunnel
=============================================================================
