---------------------------- MODULE RemotePlane ----------------------------
(***************************************************************************)
(* The console's way out to a remote box: the saved environment, the        *)
(* console's WireGuard identity, its tunnel, the pinned SSH client and the  *)
(* log tail (crates/api/src/remote/commands.rs and state.rs,                *)
(* crates/connectors/src/wg.rs and ssh.rs).                                 *)
(*                                                                          *)
(* Each piece is a cell behind a mutex of its own, held only while it is    *)
(* read or replaced; a command takes several cells one after another, with  *)
(* blocking work in between.  Calls interleave at those points.  Replacing  *)
(* a tunnel in its cell kills its child (Drop); replacing a tail does not,  *)
(* since std::process::Child has no such Drop.                              *)
(*                                                                          *)
(* A definition marked Mutant is a wrong form of the one after it; no       *)
(* action uses it.                                                          *)
(***************************************************************************)
EXTENDS Integers, FiniteSets

CONSTANTS
    Caller,      \* bound: the commands run, one each
    Box,         \* the environments an operator saves
    NoBox,
    MaxFailures  \* bound: failed bring-ups, pins and spawns

\* No environment and no call is the mark for none.
ASSUME RemoteAssumption == NoBox \notin Caller /\ NoBox \notin Box

VARIABLES
    panel,       \* "bootstrapping" or "ready"
    hasBinary,   \* is a wireguard-go named or found
    environment, \* the saved environment
    identity,    \* the console's keypair, named by the call that generated it
    pinned,      \* the environment the SSH client is pinned to
    tunnel,      \* the cell: [is, box, child]
    tunnels,     \* the live wireguard-go children
    tail,        \* the cell: the child of the tail, or NoBox
    tails,       \* the live ssh children, each a call's, with the box it reads
    busy,        \* each call: what it does, how far it is, what it has in hand
    raced,       \* history: a save, connect or start ran while another was under way
    failures

remoteVars == <<panel, hasBinary, environment, identity, pinned, tunnel, tunnels, tail, tails,
                busy, raced, failures>>

NoTunnel(is) == [is |-> is, box |-> NoBox, child |-> NoBox, key |-> NoBox]
Down == NoTunnel("disconnected")

\* What a call is, how far it is and the environment and key it has read.
Hand(op, step, box, key) == [op |-> op, at |-> step, box |-> box, key |-> key]
Rest == Hand("none", "new", NoBox, NoBox)

RemoteInit ==
    /\ panel = "bootstrapping" /\ hasBinary \in BOOLEAN
    /\ environment = NoBox /\ identity = NoBox /\ pinned = NoBox
    /\ tunnel = Down /\ tunnels = {} /\ tail = NoBox /\ tails = {}
    /\ busy = [c \in Caller |-> Rest] /\ raced = FALSE /\ failures = 0

PanelReady ==
    /\ panel = "bootstrapping" /\ panel' = "ready"
    /\ UNCHANGED <<hasBinary, environment, identity, pinned, tunnel, tunnels, tail, tails,
                   busy, raced, failures>>

Others(c) == {d \in Caller \ {c} : busy[d].at \notin {"new", "over"}}
Reaches(c, step) == busy' = [busy EXCEPT ![c].at = step]
Fails == failures < MaxFailures /\ failures' = failures + 1

\* A call comes in and is answered at once: the panel is not ready, nothing is
\* saved, a required field is blank, no wireguard-go is known.
RemoteRefused(c, op, box) ==
    /\ busy[c].at = "new"
    /\ \/ panel # "ready" \/ box = NoBox
       \/ op = "connect" /\ (environment = NoBox \/ ~hasBinary)
    /\ busy' = [busy EXCEPT ![c] = Hand(op, "over", NoBox, NoBox)]
    /\ UNCHANGED <<panel, hasBinary, environment, identity, pinned, tunnel, tunnels, tail, tails,
                   raced, failures>>

\* A call that goes ahead; what it read so far is in its hand.
Start(c, hand) ==
    /\ busy[c].at = "new" /\ panel = "ready"
    /\ busy' = [busy EXCEPT ![c] = hand]
    /\ raced' = (raced \/ Others(c) # {})

-----------------------------------------------------------------------------
(***************************************************************************)
(* remote_set_environment: pin, then environment, ssh, tunnel, tail.        *)
(***************************************************************************)
Pin(c, box) ==
    /\ box # NoBox /\ Start(c, Hand("save", "pinned", box, NoBox))
    /\ UNCHANGED <<panel, hasBinary, environment, identity, pinned, tunnel, tunnels, tail, tails,
                   failures>>

PinFails(c) ==
    /\ busy[c].op = "save" /\ busy[c].at = "pinned" /\ Fails /\ Reaches(c, "over")
    /\ UNCHANGED <<panel, hasBinary, environment, identity, pinned, tunnel, tunnels, tail, tails,
                   raced>>

SaveEnvironment(c) ==
    /\ busy[c].op = "save" /\ busy[c].at = "pinned"
    /\ environment' = busy[c].box /\ Reaches(c, "environment")
    /\ UNCHANGED <<panel, hasBinary, identity, pinned, tunnel, tunnels, tail, tails, raced, failures>>

SaveSsh(c) ==
    /\ busy[c].op = "save" /\ busy[c].at = "environment"
    /\ pinned' = busy[c].box /\ Reaches(c, "ssh")
    /\ UNCHANGED <<panel, hasBinary, environment, identity, tunnel, tunnels, tail, tails, raced,
                   failures>>

\* Mutant: the cell forgets its tunnel and the child lives on.
ReplaceForgets(new) == tunnel' = new /\ tunnels' = tunnels

\* The child in the tunnel's cell: WgTunnel::drop kills it when the cell is replaced.
Dropped == IF tunnel.is = "connected" THEN {tunnel.child} ELSE {}

Replace(new) ==
    /\ tunnel' = new
    /\ tunnels' = tunnels \ Dropped

DropTunnel(c) ==
    /\ busy[c].op = "save" /\ busy[c].at = "ssh"
    /\ Replace(Down) /\ Reaches(c, "tunnel")
    /\ UNCHANGED <<panel, hasBinary, environment, identity, pinned, tail, tails, raced, failures>>

\* Mutant: a tail is taken from its cell and not killed.
StopTailForgets == tail' = NoBox /\ tails' = tails

\* stop_tail: take the session and kill its child.
StopTail == tail' = NoBox /\ tails' = {t \in tails : t.child # tail}

EndSave(c) ==
    /\ busy[c].op = "save" /\ busy[c].at = "tunnel"
    /\ StopTail /\ Reaches(c, "over")
    /\ UNCHANGED <<panel, hasBinary, environment, identity, pinned, tunnel, tunnels, raced, failures>>

-----------------------------------------------------------------------------
(***************************************************************************)
(* remote_wg_connect and remote_wg_disconnect.                              *)
(***************************************************************************)
\* Mutant: a pair of its own for every connection.
IdentityFresh(c) == c

\* The keypair in its cell, generated the first time, under its lock.
Identity(c) == IF identity = NoBox THEN c ELSE identity

\* The environment is read, the identity ensured.
Connect(c) ==
    /\ environment # NoBox /\ hasBinary
    /\ identity' = Identity(c)
    /\ Start(c, Hand("connect", "read", environment, Identity(c)))
    /\ UNCHANGED <<panel, hasBinary, environment, pinned, tunnel, tunnels, tail, tails, failures>>

\* Connecting is shown, which drops a tunnel that was up; then the child is spawned.
MarkConnecting(c) ==
    /\ busy[c].op = "connect" /\ busy[c].at = "read"
    /\ tunnel' = NoTunnel("connecting")
    /\ tunnels' = (tunnels \ Dropped) \cup {c}
    /\ Reaches(c, "bringing_up")
    /\ UNCHANGED <<panel, hasBinary, environment, identity, pinned, tail, tails, raced, failures>>

\* bring_up succeeds: the cell holds the tunnel, whatever was put there meanwhile.
BroughtUp(c) ==
    /\ busy[c].op = "connect" /\ busy[c].at = "bringing_up"
    /\ Replace([is |-> "connected", box |-> busy[c].box, child |-> c, key |-> busy[c].key])
    /\ Reaches(c, "over")
    /\ UNCHANGED <<panel, hasBinary, environment, identity, pinned, tail, tails, raced, failures>>

\* bring_up fails at any of its steps: ChildGuard kills the child, the failure stays.
BringUpFails(c) ==
    /\ busy[c].op = "connect" /\ busy[c].at = "bringing_up" /\ Fails
    /\ tunnel' = NoTunnel("failed")
    /\ tunnels' = (tunnels \ Dropped) \ {c}
    /\ Reaches(c, "over")
    /\ UNCHANGED <<panel, hasBinary, environment, identity, pinned, tail, tails, raced>>

Disconnect(c) ==
    /\ Start(c, Hand("disconnect", "over", NoBox, NoBox))
    /\ Replace(Down)
    /\ UNCHANGED <<panel, hasBinary, environment, identity, pinned, tail, tails, failures>>

-----------------------------------------------------------------------------
(***************************************************************************)
(* remote_ssh_tail_start and _stop, and the reader thread.                  *)
(***************************************************************************)
StartTail(c) ==
    /\ Start(c, Hand("tail", "stopped", NoBox, NoBox))
    /\ StopTail
    /\ UNCHANGED <<panel, hasBinary, environment, identity, pinned, tunnel, tunnels, failures>>

\* The child is spawned with the client pinned by now; without one the call fails.
SpawnTail(c) ==
    /\ busy[c].op = "tail" /\ busy[c].at = "stopped"
    /\ \/ /\ pinned # NoBox /\ tails' = tails \cup {[child |-> c, box |-> pinned]}
          /\ busy' = [busy EXCEPT ![c] = Hand("tail", "spawned", pinned, NoBox)]
          /\ UNCHANGED failures
       \/ pinned = NoBox /\ Reaches(c, "over") /\ UNCHANGED <<tails, failures>>
       \/ pinned # NoBox /\ Fails /\ Reaches(c, "over") /\ UNCHANGED tails
    /\ UNCHANGED <<panel, hasBinary, environment, identity, pinned, tunnel, tunnels, tail, raced>>

\* spawn_tail_reader: the cell is overwritten; what was in it goes on running.
KeepTail(c) ==
    /\ busy[c].op = "tail" /\ busy[c].at = "spawned"
    /\ tail' = c /\ Reaches(c, "over")
    /\ UNCHANGED <<panel, hasBinary, environment, identity, pinned, tunnel, tunnels, tails, raced,
                   failures>>

TailStop(c) ==
    /\ Start(c, Hand("untail", "over", NoBox, NoBox))
    /\ StopTail
    /\ UNCHANGED <<panel, hasBinary, environment, identity, pinned, tunnel, tunnels, failures>>

\* The remote stream ends by itself; the cell is not cleared and shows it as running.
StreamEnds(t) ==
    /\ t \in tails /\ tails' = tails \ {t}
    /\ UNCHANGED <<panel, hasBinary, environment, identity, pinned, tunnel, tunnels, tail, busy,
                   raced, failures>>

RemoteNext ==
    \/ PanelReady
    \/ \E c \in Caller :
        \/ \E op \in {"save", "connect", "disconnect", "tail", "untail"}, b \in Box \cup {NoBox} :
               RemoteRefused(c, op, b)
        \/ \E b \in Box : Pin(c, b)
        \/ PinFails(c) \/ SaveEnvironment(c) \/ SaveSsh(c) \/ DropTunnel(c) \/ EndSave(c)
        \/ Connect(c) \/ MarkConnecting(c) \/ BroughtUp(c) \/ BringUpFails(c) \/ Disconnect(c)
        \/ StartTail(c) \/ SpawnTail(c) \/ KeepTail(c) \/ TailStop(c)
    \/ \E t \in tails : StreamEnds(t)

RemoteSpec == RemoteInit /\ [][RemoteNext]_remoteVars

-----------------------------------------------------------------------------
(***************************************************************************)
(* Properties.                                                              *)
(***************************************************************************)
\* No wireguard-go child outlives its place, however calls interleave: every live
\* one is the tunnel in the cell or belongs to a connect that is bringing it up,
\* and a tunnel shown as connected has its child (WgTunnel::drop, ChildGuard).
NoTunnelLeaks ==
    /\ \A t \in tunnels : \/ tunnel.is = "connected" /\ tunnel.child = t
                          \/ busy[t].op = "connect" /\ busy[t].at = "bringing_up"
    /\ tunnel.is = "connected" => tunnel.child \in tunnels

\* The public key the panel shows is the one every tunnel dials with, across
\* reconnects, saves and connects that ran together.
OneIdentity ==
    /\ tunnel.is = "connected" => tunnel.key = identity
    /\ \A c \in Caller : busy[c].key \in {NoBox, identity}

\* Commands run one at a time leave nothing of an earlier environment: the tunnel
\* and the tail are of the box that is saved, and no other child runs.
SerialCallsLeaveNothing ==
    (~raced /\ \A c \in Caller : busy[c].at \in {"new", "over"}) =>
        /\ tunnel.is = "connected" => tunnel.box = environment
        /\ \A t \in tails : t.child = tail /\ t.box = environment
        /\ pinned = environment

\* The same however they interleave: "never two children racing on the same event
\* stream" (commands.rs:894) and "there is no code path that leaks a previous
\* tunnel" (state.rs:49).
\* It does not hold: a connect that began before a save
\* finishes after it, and two starts of a tail each spawn a child.
NothingLingers ==
    (\A c \in Caller : busy[c].at \in {"new", "over"}) =>
        /\ tunnel.is = "connected" => tunnel.box = environment
        /\ \A t \in tails : t.child = tail

\* However connect, save, disconnect and the tail interleave, every child has a keeper and
\* every tunnel the one identity, and calls that did not overlap leave nothing of an earlier
\* environment (remote/commands.rs, remote/state.rs).
RemoteIsAccounted ==
    /\ NoTunnelLeaks
    /\ OneIdentity
    /\ SerialCallsLeaveNothing
=============================================================================
