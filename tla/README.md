# A verification model of the Genaryx console

Genaryx is an operator console for a fleet of AI agents. It reads the event files
the products of the stack write, shows them, and lets an operator stop, freeze,
kill and configure things through the planes behind it. This directory models
the parts of the console that keep state, or that put one answer together from several
reads, and that a unit test can hardly drive into trouble: TLA+ modules, the TLC
configurations that check them on small instances, and TLAPS proofs that hold for every
value of the constants.

Contents: [inventory](#1-inventory), [modules](#2-the-modules),
[runs](#3-the-runs), [bounds](#4-bounds), [fairness](#5-fairness),
[proofs](#6-what-is-proved), [findings](#7-what-the-models-found),
[limits](#8-what-is-not-covered), [plan](#9-plan).

To run: `tlc -config ingest_crash.cfg MCBusIngest` (the module of each
configuration is in section 3) and `tlapm BusIngestProofs.tla`.

## 1. Inventory

### The system

The console is one process (`crates/web`, an axum server) over a library
(`crates/api`, `crates/core`, `crates/connectors`, `crates/copilot`) with one SQLite
store. Everything it knows comes in through files, child processes and HTTP reads;
everything it does goes out through calls to the planes, and is put on record locally.

    products --append--> *.ndjson --FileTail--> IngestService --> Store (SQLite)
                            ^                        |              |
                            |                        v              v
                            |                    live feed     statistics, graph,
                            |                        |         cases, evidence
                            |                        v              |
    operator --sign-in--> session --> role, passkey --> plane call --> record
                                         |                         row, then line
                                         v
                                   passkeys.json

| Component | State | Operations | What is hard |
|---|---|---|---|
| Event bus ingest | tail offsets and source list in memory; events, quarantine and `source_offsets` in SQLite | register a source, poll, conform, quarantine, insert, journal the offset, prune | products write and replace files at any moment; a death between three commits |
| Command journal and hash chain | `commands_journal`; `console.ndjson`; the process-wide `ChainSink` | call the plane, journal, open the sink, append the linked line | commands in flight together, restarts, part of a line on disk, other writers |
| Passkey ceremony and store | pending challenges and keys in memory; `passkeys.json` | start, register, remove, gate, verify, persist | handlers interleave between locks; proofs late, twice or of another request |
| Store schema | `user_version`, the tables | open, migrate | each statement commits on its own |
| Entity blocks | lifecycle store in memory, policies in wardryx | freeze, unfreeze, stop a unit or user, rebuild at start | several remote writes, then a local one; block and unblock together; ids that begin alike, agents that come and go |
| Stop an agent, revoke | ban at vouchryx, runs at the Cloud | ban, list, kill each, verdict, lift | runs that start in between; each step may fail after taking effect |
| Plane discovery | what each plane found and whether it is up | scan descriptors, probe, swap in | planes look at a directory that is being written |
| Sign-in: throttle, sessions, operator record | failure windows per account and address; sessions; `operator.json` | check, hash, count, create, touch, revoke, set-password | check and count are separate locks; tables at their limit |
| OIDC and live JWKS | key set with its age and last attempt | find, fetch, validate | cooldown, age and a slow fetch under one lock |
| Operator mutations (money, retained closures, approvals) | effect at the plane, row in the journal | role floor, refusals, request, reading the answer, row | answers that are late, lost or somebody else's; a hang-up, a death |
| WireGuard peers | the daemon's peers, its file, the journal | issue, list, revoke | two issues read one list; a daemon that restarts from its file; a row that is best effort |
| Remote box | environment, identity, SSH pin, tunnel, tail: one cell each | save, connect, disconnect, tail | a command takes several cells one after another |
| Memory servers | a bounded pool of child processes | target, send, receive, time out, close idle | a late answer after a timeout; a pool at its limit |
| Onboarding and admission | bundles, key list, identity map, baselines | generate, write, commit, reload, baseline | wizards together, operator edits between check and write |
| Copilot: answer | transcript, grounded ids, cards | turn, tool call, proposal, draft, revision | text of a plane that reads like an instruction; a provider that may say anything |
| Copilot: residency and providers | one client, its pooled connections | build, connect, redirect, answer | a name that resolves elsewhere later |
| Case, remedy, seal | case sections, sealed packs, journal line | assemble, prove, journal, write, rename, read back | planes that are silent; three writes with a death between them |
| Policy and budget proofs | slots, private directories, children | ask, copy, run, judge, time out | the trace grows while it is replayed, in an order calls of one step leave open; skipped decisions |
| Statistics and profiles | none: two reads of the store | counts, detail, stops, profile | rows come and go between the reads; limits cut a list |
| Delegation graph | nodes, edges, counted keys | build, feed, slice | an event presented twice, in either way |
| Live feed, cloud stream | bounded broadcast and SSE channel; decoder, last id | poll, broadcast, drain; connect, deliver, give up | a slow page, a lagging channel; a CR and its LF in two chunks |
| Cloud panels, store panels | none: several reads | ask the routes, join, show | the source moves between the reads; an outage that reads as emptiness |
| Evidence center | temporary exports, zip, row | gather, export, read back, sign, hand back | two builds together; a file left by a dead process |
| Event model, bench and replay, signing, drills, identity alerts, crypto, shell, frontend | none that a later step relies on | parse, render, forward | ordinary |

`PROJECT.json` lists every component with its sources, and every hazard with the
line where it bites and the properties that cover it.

### How the components meet

* `command::record` appends to `console.ndjson`, which the ingest tails like any other
  stream: what `ConsoleChain` puts on the bus is a `Line` of `BusIngest`. What
  `BusIngest` stores, `LiveFeed` shows and `EventStats` and `DelegationGraph` count.
* `SignIn` and `LiveJwks` give a session, `PasskeyGate` stands before `dispatch`, which is
  `OperatorCommands`, `LifecycleBlocks` or `AgentStop`, and ends in the row and line of
  `ConsoleChain`.
* `PlaneDiscovery` decides which service each of these speaks to.
* `CaseSeal` asks for the proofs of `IncidentProofs`; `Felyx` reads a case, and speaks to its
  provider through `Residency`.

Every interface is narrow (a line, a session, a confirmed call, a document), so the
modules take the other side as a set of inputs. `BusLog` is the one interface that is
stated as a specification of its own, and `BusIngest` is shown to implement it.

## 2. The modules

`X.tla` is a specification, `MCX.tla` an instance for TLC. The theorems of the ingest, the chain
and the passkeys are in an `XProofs.tla` each; `ControlProofs` has those of `LifecycleBlocks` and
`AgentStop`, `AccessProofs` of `SignIn`, `LiveJwks` and `OperatorCommands`, `CopilotProofs` of
`Felyx`, `CaseSeal` and `Residency`, `PlanesProofs` of `StoreMigration`, `WgPeers`,
`MemoryServers`, `RemotePlane` and `Onboarding`, `PanelsProofs` of the components of the run
`panels`. (`IncidentProofs` is a component: the proofs the console makes about an incident.) A
definition marked `Mutant` is a wrong form of the definition that follows it. No action uses one:
it documents a mistake that the named property would notice, and `PROJECT.json` pairs them.

### BusIngest and BusLog

| Variables | In the code |
|---|---|
| `present`, `lines`, `half`, `inode` | the event files: existence, complete lines, the bytes of an unfinished line, inode |
| `events`, `quar`, `journal` | tables `events` (as its dedupe keys), `event_quarantine`, `source_offsets` |
| `tailed`, `tail` | the registered `FileTail`s and their offsets |
| `recs`, `batch`, `toJournal`, `todo` | the locals of `poll_once` and of the source scan |
| `pc`, `stage` | the point the tailer thread is at, no process ("down"), or one that has no tailer ("unavailable"); first tick (`bootstrap_live`) or loop (`run_tailer`) |
| `ever`, `pruned` | history, for the properties |

| Actions | In the code |
|---|---|
| `Boot`, `BootFails`, `Tick`, `AddFileSource`, `AddFileSourceFails` | `bootstrap_live` with `prune_history`, `run_tailer`, `pick_up_new_sources`, `add_file_source` and `add_pinned_file_source` |
| `StartPoll`, `PollSource`, `PollSourceFails` | `poll_once` over the sources, `FileTail::poll` |
| `ConformRecord`, `QuarantineRecord` | the verdict of `poll_once` on a record |
| `InsertBatch`, `SetOffset`, `EndTick`, `StoreWriteFails` | `insert_batch`, `set_offset`, and leaving with `?` |
| `Create`, `Append_`, `AppendHalf`, `Truncate`, `Remove`, `Crash` | the products and the end of the process |

An error of the first tick is an error of `bootstrap_live`: `serve` then sets
`BusMode::Unavailable` for as long as the process lives (`feed.rs:279,284`,
`main.rs:304-322`), and the model goes to "unavailable", where no step of the console is
enabled. An error of a later tick is logged by `run_tailer`, which goes on.

The tick is cut at every point where a product can write or the process can die with
part of its work committed. A complete line is two bytes, content and newline
(`LineBytes`); an unfinished one is one byte. That is enough to tell an offset at a
line's end from one inside a line and from one past it, and to let `from_utf8_lossy`
lengthen the text: an undecodable content byte decodes to three (`RawBytes`).
`HeadLines` stands for `HEAD_FINGERPRINT_BYTES`. A schema verdict, a claimed source
and an age are classes of lines.

`BusLog` has no files, offsets or ticks: lines are published, come to be known, and leave the
tables by the retention horizon only (`Forget` allows the second quarantine row of one line,
section 8, to outlive the first). `BusIngest` instantiates it as `Log` with a
refinement mapping over `ever`, the tables and `pruned`; `ImplementsBusLog` is the abstract
specification, its fairness included, as a property.

### ConsoleChain

`file` and `frag` are `console.ndjson`, terminated lines and what follows them; `rows` is
`commands_journal`; `sink` and `next` are the `ChainSink`; `pc` is where each call is.
The hash of a line covers everything but its own `prev_hash`, so a call stands for the
hash of its line. `Mutate` is the plane call that `finish_mutation` follows, `InsertCommand` and
`JournalFails` the journal row, `SinkFor` and `SinkForFails` the registry,
`AppendChained` and `AppendFails` the write under the sink's lock. `Seeds` says what a
restarted process may take for the tail: `str::lines` also yields an unterminated last line, a
line that does not parse has no hash, and a file that is not UTF-8 reads like an
empty one.

### PasskeyGate

`keys`, `disk` and `file` are `PasskeyStore` and `passkeys.json`, `pending` is
`PendingCeremonies`, `req`, `pc` and `how` are the handlers: the request, the point reached
and the factor established. A handler is cut at every lock: `Arrive`, `Gate` (role and
factor rules of the four routes), `Take` (`PendingCeremonies::take` and the binding
checks), `Verify`, `CountUp` (`update_sign_count`, which rewrites the file), then
`Dispatch`, `RemoveKey`, `BeginEnrolment` or `AddKey`. `Crash` may tear the file only while a handler is
inside a write. A deed is what a challenge is bound to: a command with its exact arguments,
the removal of one credential, the start of an enrolment, an enrolment. Signatures are
the set of pairs an authenticator really signed; the remaining checks (origin,
flags, counter) may fail for any answer.

### Taking an agent out of work

* **LifecycleBlocks** (`lifecycle.rs`, the toggles of `dispatch.rs`, the rebuild in `ctx.rs`):
  `policy` is what wardryx holds, `shown` the `LifecycleStore`. `Toggle` resolves the
  members from idryx or the Cloud, then `CallStep` writes or deletes one policy per member and
  only then reflects; `RebuildRead`, `RebuildApply` and `RebuildFails` are the task after a
  start; `Move` lets an agent come to the list of idryx or of the Cloud, or leave it. A failed
  write may have taken effect. Ids are constants: what an entity's prefix is, what a member's
  id is, and which id starts with which prefix. Nothing is assumed of them but that an id starts with its
  own entity's prefix, so ids may coincide (a write replaces what is there) and an
  unblock, which deletes whatever starts with its prefix, takes other entities' policies
  along (`Overwritten`, `Swept`, `Takes`).
* **AgentStop** (`delegation/stop.rs`, `delegation/commands.rs`): `Begin` and the steps of
  `CallStep` are the requests of `agent_stop`, `agent_lift` and `delegation_revoke`; `RunOpens`,
  `DoorPolls`, `Reissue` and `VouchryxRestarts` are what goes on meanwhile.
* **PlaneDiscovery** (every plane's `env.rs` and `state.rs`, `ctx.rs`): `TaipanUp`,
  `TaipanWrites`, `TaipanDown` write the descriptors, `Resolve` is one plane's scan, probe
  and swap, `Command` and `BuildBom` what the evidence plane loads later.

### Getting in, and what is done with it

* **SignIn** (`throttle.rs`, `auth.rs`, `ctx.rs`, `main.rs`): a login is cut at every lock and at
  the password hash; `Tick` moves the clock, `SetPasswordBegin`/`End` rewrite `operator.json`
  under a running console.
* **LiveJwks** (`oidc.rs`): `Find` decides under the lock whether a fetch is due, `Reply` is the
  provider's answer (`body`, under which keys may still rotate), `Fetched` and `FetchFailed` its
  arrival, `GivenUp` a browser that goes away under a verification that fetches (its handler
  is dropped, and the lock with it); `Warm` is the start, `Pass` lets time go on during a fetch.
* **OperatorCommands** (`main.rs`, `roles.rs`, `api/money`, `api/policy`, `connectors`):
  `Dispatch` is the role floor, the refusals in their order and the request; `Arrives` the
  plane taking it, late or not; `Stray` something else that answers; `Finish` the reading
  of the answer and the row; `HangUp` and `Ends` the browser and the process going away.

### The copilot and the case

* **Felyx** (`copilot/agent.rs`, `references.rs`, `grounding.rs`, `untrusted.rs`): the provider is
  free to call any tool and draft any statement; the model keeps what a result grounds,
  the screen a proposal passes and the one revision a draft gets. Text is the ids it
  names, the action it asks for and whether it reports, denies or turns down.
* **CaseSeal** (`api/case`, `remedy`, `seal`): `Begin` and `Answer` assemble nine sections from
  sources that hold rows, nothing, or do not answer, the three reads of the store each by itself;
  `Prove`, `Journal`, `Place`, `Rename` are the seal; `ReadBack` verifies; `Alter`, `Turn` and
  `Die` are the world.
* **Residency** (`residency.rs`, `resolver.rs`, `provider/`): the gate when the client is built
  and at every connection, redirects, proxies, errors and token counts of a fixed width.

### What the console owns outside itself

* **WgPeers** (`remote/wg_operator.rs`, `wg_uapi.rs`): `BeginIssue` reads the list and chooses an
  address, `Authorize` claims it, `HandOver` journals and answers; `RecordPeer` is best effort, as
  `journal_peer_action` is: without a bus, or when the store or the line fails, the command
  succeeds and only stderr says that the row is missing. `Reboot` takes the daemon back to its file.
* **RemotePlane** (`remote/commands.rs`, `state.rs`): each action is one cell taken or replaced.
* **MemoryServers** (`memory/pool.rs`, `mcp_stdio.rs`, `engram.rs`): `Target` is `client_for` under the
  pool's mutex, `Send`, `Receive` and `TimeOut` the request under the server's.
* **Onboarding** (`onboard/commands.rs`, `admission/commands.rs`): generate, check, open and fill
  a passport (the write may fail with a part of it done), commit, reload; a baseline's two child
  processes. A request may name no map, and then every unit is new.
* **StoreMigration** (`core/store.rs`): every statement of every migration, with what it
  needs and makes; `Die` between any two.

### What the operator is shown

* **CloudStream** (`cloud_sse.rs`, `sse_decoder.rs`): tokens in chunks of any size, three line
  endings, reconnection with the last id, a budget of barren attempts.
* **LiveFeed** (`bus/feed.rs`, `bus/mod.rs`, `events.rs`, `main.rs`, `recentEvents.ts`): live, demo
  or no bus; two bounded channels; a page that reads and listens at once. `shown` is the list
  the page keeps, in the order rows came; `Above` is `sortEvents`, which renders it by key.
* **IncidentProofs** (`api/proof`): slots, directories, one deadline, and how both halves of a
  verdict are read off the reports. A trace is a sequence of calls, each with its step and cost; a
  candidate limits what a run may cost, what one call may, or how many a run makes. `Replays`
  is what tokenfuse may answer: one outcome per order in which it may load calls of one step.
* **EventStats** (`api/stats`), **DelegationGraph** (`core/graph.rs`, `attribution.rs`),
  **CloudPanels** (`api/money`, `credentials`), **StorePanels** (`verdryx.rs`, `egress`, `routines`,
  `tokenfuse.rs`, `hetzner.rs`, `cloud_cli.rs`): each read is an action, the source moves in
  between, and may be absent, unreadable, or answer in parts or in other words.
* **EvidencePack** (`core/evidence.rs`, `api/evidence`): builds side by side over one directory of
  temporary files, which the console may or may not be able to remove; the journal row and the
  reply are two steps.

## 3. The runs

Components without shared state are put in one run: `part` is chosen at the start, the
chosen component moves and the state of the others stands still, so a property of a part is
checked over exactly the behaviours of its module. `MCConsoleChain`, `MCPasskeyGate`
and `MCBusReplaced` choose a `scene` in the same way: one component under different
parameters.

| Run | Module | Asks | Answer |
|---|---|---|---|
| `ingest_crash` | MCBusIngest | two streams made after startup, one pinned, quarantine, retention, a death anywhere in a tick: `NothingLost`, `ResumeIsSafe`, `ImplementsBusLog` | holds |
| `ingest_replaced` | MCBusReplaced | files replaced while the console is down: `ReplacedWhileDownIsRead`; truncation under a running tail, undecodable bytes, failures at the bootstrap and after it, a death: `LoopNeverWedges` | holds |
| `chain` | MCConsoleChain | four calls, one of them unjustified, failures, two deaths, in the console's own file and in one that everything happens to: `OneChain`, `EveryLineHasRow`, `AcknowledgedIsOnBus`, `NeverForks` | holds |
| `gate` | MCPasskeyGate | proofs out of place, removals of keys by two handlers with a death, an enrolment with a death and a torn write: `TypeOK`, `OneShot`, `BoundToWhatWasConfirmed`, `LastKeyNeedsPassword`, `AnsweredOutlivesRestart` | holds |
| `control` | MCControl | `BlockHolds`, `BadgesAreTrue`, `RestartShowsBlocks`; `StoppedIsStopped`, `StopTakesHold`; `PlanesSettleOnTheNewest` | holds |
| `access` | MCAccess | `SignInIsSound`; `KeysAreTheProviders`; `EffectsAreJournaled`, `AnswersAreTrue` | holds |
| `copilot` | MCCopilot | `NothingUngrounded`; `SealedIsTrue`; `ResidencyHolds` | holds |
| `planes` | MCPlanes | `PeersAreAccounted`; `RemoteIsAccounted`; `ReadsAreSafe`; `OnboardedIsConsistent`; `VersionMeansSchema` | holds |
| `panels` | MCPanels | `StreamIsFaithful`; `FeedIsTheBus`; `ProofsAreEarned`; `CountsAreHonest`; `GraphIsFaithful`; `PanelsAreHonest`; `ReportsAreHonest`; `PackIsWhatItSays` | holds |
| `ingest_fault` | MCBusIngest | one failed store write: `EveryLineIsRecorded` | violated |
| `ingest_lossy` | MCBusIngest | one undecodable byte: `OffsetNotPastRead` | violated |
| `journal_hangup` | MCHangUp | a browser that goes away while the plane answers: `EveryAttemptIsJournaled` | violated |

The properties, in words (each is a conjunction of named parts where it says several things):

* `NothingLost`: a line that `FileTail::poll` will not read again is recorded or in the hands
  of the tick under way. `ResumeIsSafe`: at every moment, the lines a restart would skip
  are recorded already. `ImplementsBusLog`: every line a product completed is recorded in the
  end, nothing else ever is, and it leaves by the horizon only.
* `ReplacedWhileDownIsRead`: both, for a file replaced while the console is down, under a reused
  inode too. `LoopNeverWedges`: once the files hold still, every tail reaches the end and stays,
  unless the bootstrap of this very process failed; nothing after the bootstrap ends the loop.
* `OneChain`: each console line links to the one before it. `NeverForks`: no two lines name the
  same predecessor, whatever happens to the file. `EveryLineHasRow`: no readable line without its
  row; no unjustified override in either. `AcknowledgedIsOnBus`: a command answered with
  success has a readable line.
* `OneShot`: one challenge supports at most one success. `BoundToWhatWasConfirmed`: for the user
  and deed it was minted for, and signed. `LastKeyNeedsPassword`: the step that takes a user's
  last key is a handler's that was given the password. `AnsweredOutlivesRestart`: an answered
  removal or enrolment is still so after a restart.
* `BlockHolds`: a confirmed block stays in force for every member it resolved, whoever joins or
  leaves, until that entity is unblocked, or another whose prefix its ids start with, or one that
  spells the same id is called for. `BadgesAreTrue`: store and wardryx agree on every
  entity whose calls came through cleanly; an agent denied carries a badge, also one that left
  its unit; and when every service answered, an agent that was listed all along carries one exactly
  when it is denied. An agent listed only after its unit was stopped carries the badge without a
  policy: that is what `NeverAWrongBadge` of section 7 shows. `RestartShowsBlocks`: a restarted
  console comes to show what is blocked, unless the rebuild used up its tries.
* `StoppedIsStopped`: of an agent reported as stopped nothing runs on from before, and a ban
  reported as durable is. `StopTakesHold`: it is refused at every door in the end.
* `PlanesSettleOnTheNewest`: every plane settles, on the newest environment that serves it.
* `SignInIsSound`: racing sign-ins and set-password agree on one operator; the passwords tried in
  a window are at most the limit and the others in flight; no session outlives its lifetime.
* `KeysAreTheProviders`: one fetch per cooldown; as long as fetches succeed a withdrawn key is
  accepted for less than `MaxAge`, or by the verification it was withdrawn under; nothing is
  taken from a set that carried a secret.
* `EffectsAreJournaled`: what changed anything is in the journal, unless the browser went away.
  `AnswersAreTrue`: "done" was done, "refused" never will be, and what nobody answered for can
  take hold only while its token is valid.
* `NothingUngrounded`: the ids, explanations, cards and budget claims of an answer rest on what the
  tools of this answer returned. `SealedIsTrue`: no file without its line, no "stored" without
  the file, no altered document handed back, no silent plane read as an empty one, nobody
  charged with a refused claim. `ResidencyHolds`: without the opt-in no connection leaves the
  box, a refusal reads as one, and use is never understated.
* `PeersAreAccounted`: addresses are kept, a revoked key stays out, a refused call leaves nothing,
  every change has its row, a line on stderr that it has none, or an error; with a bus and no
  failure, its row. `RemoteIsAccounted`: every child has a keeper, every
  tunnel the one identity, calls that do not overlap leave nothing behind. `ReadsAreSafe`: the
  pool is bounded, closes the least recently read, leaks no process, cuts no read short and never
  hands a read another's answer. `OnboardedIsConsistent`: keys, bindings and map agree, every
  file is reported, a unit is defined once as far as the map was read, a baseline is of its own run.
  `VersionMeansSchema`: the version never claims more than the file holds.
* `StreamIsFaithful`: events as they were sent, whatever the chunks and drops, given up only when
  nothing comes. `FeedIsTheBus`: nothing invented is fed to a found environment, what was sent live
  is stored, every row of a page has a key of its own, by which it is placed, and is cut off only
  after all that are older. `ProofsAreEarned`: a verdict is what the tool
  established about the candidate asked about, in whatever order it replayed; the half about
  other runs has no count below zero and, unless it is marked approximate, hides nothing of
  them; slot and directory come back.
  `CountsAreHonest`: nobody is charged with a claim, a cut column is marked, "normal" rests on enough
  days. `GraphIsFaithful`: the graph is a function of the set of events, its slices of the
  graph. `PanelsAreHonest`: what is shown was so while it was read; an outage is never an empty
  estate. `ReportsAreHonest`: final when it says so, of the routine it names, and hiding nothing of
  a source that could be read and understood but by a cap.
  `PackIsWhatItSays`: every artifact of a ticked tool is in the zip and the manifest or named
  missing, but for the Cloud's in an unsigned pack, and its bytes were given while this build
  ran, the FOCUS export's as far as temporary files can be removed.

## 4. Bounds

* **Ingest.** Two lines per file are enough for a line inside and a line outside the consumed
  prefix, and for a replacement that is shorter than, as long as, or longer than the
  journaled offset; the fingerprint spans both, as it does in a file of up to 64 KiB
  (section 8 has the other case). Two inode numbers and reuse give both the rename and the
  recreated file. One death falls at every point of a tick, two leave a second recovery on
  the state of the first.
* **Chain.** Four calls give two in flight at each of two process lives. The justified ones are
  symmetric; the unjustified one is kept out of the symmetry set.
* **Gate.** Two challenges and two requests give every pair that could share a proof; the
  enrolment takes three requests and one challenge: remove, start, finish.
* **Control.** Two calls over four entities, an agent, its owner, its unit and a unit whose name
  goes on after that unit's, overlap in every way (the ids of the second unit start with the
  prefix of the first); one death falls at every point, and so does one failed request or one
  agent that joins or leaves a list. Two calls on one agent with two runs give a run that starts
  before, between and after list and kill. Two environments give an older and a newer one, both
  half written.
* **Access.** Limits of one and two failures, a table of one key and one session put every table
  at its limit with two logins in flight. Two keys, two rotations and one failed fetch give a key
  withdrawn before, during and after a fetch, and between an answer and its arrival. Two attempts,
  of which one is cut short.
* **Copilot.** Three provider turns: call, draft, revision. Two seals of one incident with one
  death and one alteration. Token counts of a word of two values, so that sums reach its end.
* **Planes.** Three jobs over two addresses: two issues and a revoke. Three callers: a connect, a
  save and a second connect. Three reads of two agents over a pool of one: an eviction with
  a read under way. Two wizards over three agents, two of which flatten to one file name.
  A WireGuard console with an event bus and one without.
  The migration starts at every version with two deaths.
* **Panels.** Four events in chunks of up to three tokens with three cuts (with three events no
  connection can drop before the first id and leave room for a gap after it); three lines over
  channels of two; one proof of each kind over one slot, runs of up to two calls that cost 1 and 3
  at one step or two, in either order, and a candidate of each kind that stops some of them; three
  rows over a scan of two and a retention of three days; two builds with one death, or one where
  temporary files stay.
* Requests, calls and jobs that are interchangeable are symmetric, and no liveness property is
  checked under symmetry. Configurations that say `CHECK_DEADLOCK FALSE` bound the requests made:
  when they are used up nothing is left to happen, and in `ingest_replaced` a console whose
  bootstrap failed takes no step of its own. `ingest_crash` has no such end and the chain has an
  explicit `Finished` step; both are checked for deadlock.
* The MC modules narrow some parts further, each by a named predicate: `OneCutShort`, `CaseStart`,
  `CaseMoves`, `ProofMoves`, `StatsMoves`, `ProfileMoves`, `PackMoves`, `Within`, `InOrder`.
  `CaseStart` leaves out the classes of incident that are offered what another class is, or less,
  and `CaseMoves` lets the timeline turn only for an incident that names a run.

## 5. Fairness

* `FairSpec` of `BusIngest` adds `WF_vars(ConsoleStep)`: the tailer thread is a loop that sleeps,
  ticks and never exits, and a supervisor starts the process again after a death. A process
  whose bootstrap failed is alive and nothing starts it again or tries again in it: in
  "unavailable" no `ConsoleStep` is enabled and fairness asks for none. The
  disjunction is enough because a tick only runs forward: within one tick every
  console step consumes something (a source to register, a source to poll, a record, an
  offset). Nothing is assumed of the products, of faults or of deaths, which are bounded.
* `control` asks for weak fairness of the steps of calls under way, of the rebuild task with a plane
  that answers and of the restart (`LifecycleBlocks`), of calls and of the doors' polling
  (`AgentStop`), and of `Resolve` (`PlaneDiscovery`). Calls are tasks on the runtime whose
  requests carry deadlines, so each step ends, well or badly; which of the two is never assumed.
* The other modules state safety and have no fairness.

## 6. What is proved

Every theorem holds for any sets of files, lines, calls, users, keys, requests and any
bounds that satisfy the assumption of the component's module, which TLC evaluates on the instances
of section 3. The assumptions say what the code's types say and little more: a limit is a natural
number (`Capacity`, `MaxHeld`, `PageSize`, a day window: not zero), the sets of requests, reads and jobs
that are counted are finite, a marker such as `None` or `Nil` is not one of the values it stands
beside, the inputs of `FelyxAssumption` and `GraphAssumption` have their fields, the two kinds
of proof job in `IncidentAssumption` are apart. Three say more. `JwksAssumption` has
`Cooldown <= MaxAge`. `ConstantsAssumption` of `LifecycleBlocks` has that every id starts with its own
entity's prefix, which `block_prefix` and `member_id` give. `IncidentAssumption` says what of tokenfuse's
backtest, which is not in this repository, the theorem leans on: it blocks some of the calls it is
given and saves nothing unless it blocks, whether it blocks any does not depend on the order in
which calls of one step are loaded, and in a run without such calls what was blocked stays
blocked as the run goes on. The instance computes it from limits (`ReplayOf` in `MCPanels`) and TLC
checks that this meets the assumption.

| Theorem | States | Assumes |
|---|---|---|
| BusIngest `TypeCorrect` | `TypeOK` | nothing |
| BusIngest `NothingLostHolds`, `ResumeIsSafeHolds` | `NothingLost`, `ResumeIsSafe` | `Steady`: files only grow, no failed write, valid UTF-8; any number of deaths |
| BusIngest `ReplacedWhileDownLosesNothing` | `NothingLost` and `ResumeIsSafe`, which is what `ReplacedWhileDownIsRead` asks | `DownOnly`: files are replaced only while the console is down and gain a complete line only after their first poll; no failed write, valid UTF-8; the fingerprint spans the file (`MaxLines <= HeadLines`); any number of replacements and deaths, reused inodes |
| ConsoleChain `TypeCorrect`, `EveryLineHasRowHolds`, `NoForkHolds` | `TypeOK`, `EveryLineHasRow`, `NoFork` | nothing |
| ConsoleChain `AcknowledgedIsOnBusHolds` | `AcknowledgedIsOnBus` | `WholeWrites`: no truncation, and a failed write leaves nothing behind |
| ConsoleChain `OneChainHolds` | `OneChain` | `OwnFile`: `WholeWrites`, no other writer, a readable tail |
| BusIngest `ImplementsLogSafety` | `Log!Safety`: `BusIngest` implements the initial states and the steps of `BusLog` | nothing |
| PasskeyGate `TypeCorrect`, `OneShotHolds`, `BoundHolds`, `LastKeyHolds`, `AnsweredHolds` | `TypeOK`, `OneShot`, `BoundToWhatWasConfirmed`, `LastKeyNeedsPassword`, `AnsweredOutlivesRestart` | nothing |
| LifecycleBlocks `TypeCorrect` | `TypeOK` | nothing |
| LifecycleBlocks `BlockHoldsAlways`, `BadgesAreTrueHolds` | `BlockHolds`, `BadgesAreTrue` | nothing |
| AgentStop `TypeCorrect`, `StoppedIsStoppedHolds` | `StopTypeOK`, `StoppedIsStopped` | nothing |
| SignIn `TypeCorrect`, `SignInIsSoundHolds` | `SignInTypeOK`, `SignInIsSound` | nothing |
| LiveJwks `TypeCorrect`, `KeysAreTheProvidersHolds` | `JwksTypeOK`, `KeysAreTheProviders` | nothing; `JwksAssumption` has `Cooldown <= MaxAge` |
| OperatorCommands `EffectsAreJournaledHolds`, `AnswersAreTrueHolds` | `EffectsAreJournaled`, `AnswersAreTrue` | nothing |
| Felyx `NothingUngroundedHolds` | `NothingUngrounded` | nothing |
| CaseSeal `SealedIsTrueHolds` | `SealedIsTrue` | nothing |
| Residency `ResidencyHoldsAlways` | `ResidencyHolds`, an invariant and an action property | nothing |
| StoreMigration `VersionMeansSchemaHolds` | `VersionMeansSchema` | nothing |
| WgPeers `PeersAreAccountedHolds` | `PeersAreAccounted` | nothing |
| MemoryServers `ReadsAreSafeHolds` | `ReadsAreSafe`, an invariant and an action property | nothing |
| RemotePlane `RemoteIsAccountedHolds` | `RemoteIsAccounted` | nothing |
| Onboarding `OnboardedIsConsistentHolds` | `OnboardedIsConsistent` | nothing |
| IncidentProofs `ProofsAreEarnedHolds` | `ProofsAreEarned` | nothing |
| EvidencePack `PackIsWhatItSaysHolds` | `PackIsWhatItSays` | nothing |
| LiveFeed `FeedIsTheBusHolds` | `FeedIsTheBus` | nothing |
| CloudPanels `PanelsAreHonestHolds` | `PanelsAreHonest` | nothing |
| DelegationGraph `GraphIsFaithfulHolds` | `GraphIsFaithful` | nothing |
| EventStats `CountsAreHonestHolds` | `CountsAreHonest` | nothing |
| StorePanels `ReportsAreHonestHolds` | `ReportsAreHonest` | nothing |
| CloudStream `StreamIsFaithfulHolds` | `StreamIsFaithful` | nothing |

The arguments:

* **Ingest.** `NothingLost` is not inductive: it looks at the tail only, while a restart
  copies the journal into the tail, and the journal is copied from `toJournal`.
  `SafeInv` says the same of all three, each against its own set: what the tail passed is
  recorded, in `recs` or in `batch`; what was noted is recorded or in `batch`; what
  is journaled is recorded. `Within` keeps every offset within the complete lines,
  `InHand` says a record in hand is a line its tail has passed, `Settled` that nothing
  is in hand outside the first half of `poll_once`, `AbsentIsEmpty` that creating a
  file changes no line. `Steady` excludes exactly the cases of sections 7 and 8 in
  which the code itself breaks the chain.
* **Replaced files.** With replacements no offset of the journal stays within its file, so
  `SafeInv` fails. `DownInv` says instead what a journal row means whatever became of the
  file: it spans its head, and every line of the head is recorded at its place (`RowsTrue`).
  `ResumedIsRecorded` is the argument of `add_file_source`: an offset within the live file
  whose fingerprint is not another's covers lines equal to that head, at the same offsets,
  so the store accounts for them already, whichever file they came from. The inode is not
  needed for that, which is why a reused one does no harm; it decides only when the fingerprint is
  silent. A tail past the end of its file is left over from a longer one and `Reached` lets it be
  so until its first poll; `Whole` says that half a line does not bring it back within the file.
  Beyond `HeadLines` two files can agree in their fingerprint and differ in what follows, and
  the theorem would be false.
* **Chain.** `NoFork` holds without assumptions because a call's hash is a tip (the
  last line, the fragment or `next`) only until some line names it: `TipsAreFree` and
  `NamedIsDone` carry that over truncations and re-seeding. `OneChain` needs `Chained`, the
  stronger statement that every line links to the one right before it, and that an open
  sink's `next` is the hash of the tail.
* **Passkeys.** `GateInv` follows the life of a challenge: it is in the table, in exactly one
  handler's hands (`Held`, `HeldApart`), or spent on exactly one success (`Spent`), and it
  carries the same user and deed all along. `Proven` and `Carries` say what a handler
  brings to its last step. `LastKeyHolds` then only looks at the step that empties a
  user's keys. `KeptInv` adds where credentials come from: every key in memory or on disk was there
  at the start or was signed over a registration whose challenge is gone (`Traced`), and
  one credential is signed over one registration only (`FreshKeys`). Hence no registration still
  under way can bring back a key that was removed, nor leave out one that was answered.
* **The log.** A step of the ingest is a step or a stutter of `BusLog`, whatever fails, is replaced
  or dies: `LogInv` says that what is on disk or in the hands of a tick was completed by a
  product. That part needs no `Steady`: the cases it excludes lose lines or read them twice,
  but invent none. Nothing more is needed of the order of commits, since `Log` has none.
* **Blocks.** `BlockHolds` looks at confirmed blocks; `BlockInv` follows the calls that are still
  going on. A call is alone if no other that may change its entity's policies has been under way
  with it (`Alone`), which counts calls for other entities that take its policies along. A block
  that is alone has put a policy for every member it is done with (`PutSoFar`), an unblock that is
  alone and has its list holds every policy that is left (`ListedAll`), nothing is promised of an
  entity that some call under way takes along (`Unpromised`), and what is promised has its policy
  under an id no other agent's is written under (`Promise`, `Sole`). `ReflectInv` says that the
  store shows exactly the entities with a policy, except those that calls are under way for or
  left in doubt (`ShownRight`), and the same of the snapshot a rebuild has yet to apply
  (`SnapshotRight`). `BadgeInv` adds, with no request failed, that every agent listed all along
  has its owner cached and is a member of each block it should be (`OwnersKnown`, `CallWhole`,
  `OfMember`, `PolicyWhole`).
* **Stops.** `StopInv` carries, per stop, that the runs open at the ban are listed, or dead by
  then (`EarlyListed`), that the runs counted as killed are (`KillsCounted`), and that a ban
  confirmed as durable stays so until a lift that the stop has been told of
  (`BanHolds`, `LiftsNoted`). A verdict of "stopped" leaves nothing over in that count.
* **Sign-in.** `OvershootBounded` bounds the failures in a window, while a login that has passed the
  check counts only after the password hash. `AccountsFit` and `AddressesFit` bound the failures
  counted plus the logins past the check that can still join the window, and leave a login room to
  be in neither. A login that passes the check finds the count below the limit; one that fails
  moves from the second number into the first; a window that starts anew drops them all.
* **Keys.** `WithdrawnKeyAges` speaks of the moment of acceptance. `Cached` says of every cached key
  that it is still published or was withdrawn no earlier than the instant the set is
  dated from, `Answered` the same of the answer in flight; both rest on the set
  being dated from the start of its fetch, which is what `oidc.rs` does. `Succeeded` says that without
  a failure the last attempt is also the last success, so a set that is not asked for
  again because of the cooldown is younger than the cooldown. That is less than the age limit only
  with `Cooldown <= MaxAge`: five minutes and an hour in `oidc.rs:89`.
* **Mutations.** `CommandInv` says, per attempt, what its request and record may still do: nothing
  has happened before it is made, a request on the wire has not been acted on, an attempt
  that is over and acted on, or may still be, has a row or a reason not to (`Over`). Answers are
  about the plane's state for good because "refused" leaves nothing on the wire.

* **Answers of the copilot.** `NothingUngrounded` compares a proposal or a draft with what the tools
  returned; the checks compare it with `ids`, `spans` and the budget facts. `FelyxInv` says that the
  second follow from the first: an id was returned as that kind of thing or named by the
  operator (`IdsAreReturned`), and every text that asks for an action is held in a span (`TextIsHeld`),
  whatever the model wrote and in which order the tools were called.
* **Seals.** `CaseInv` follows one request from its first question: the pack it builds is the case
  its sources told (`PackIsTheCase`), a pack being written has its line already
  (`OnTheWayHasLine`), a file on the shelf has its line and is handed back only as it was sealed
  (`Shelved`), and the identity a refused alert claims is never asked for (`ClaimedIsNotAsked`).
* **Residency.** The gate looks at the name once, `NothingLeavesTheBox` at every connection for
  ever. `ClientIsGated` bridges them: without the opt-in the client is of the box, or of a name
  that is checked whenever it connects, and follows neither redirect nor proxy.
  `ConnectionsWereDialled` carries that to the idle connections of the pool.
* **Migrations.** `RunIsMade`: whatever a statement before the one to come makes is in the file,
  made by this process or found there; the version was read from the file by the process
  that migrates. Hence a death between any two statements leaves a version that is not ahead.
* **Peers.** `JobsAreInOrder` is the place of every issue and revoke, `GrantsStand` and
  `RevokesStand` what an answered one is still owed, each until the event that excuses it (an
  overlapping issue, the daemon's restart). Rows and peers are related at every point of a job
  (`RowsStand`), a journal that fails included.
* **Memory servers.** `PoolIsKept` bounds the pool, `HeldRuns` says that what somebody holds runs and
  what nobody holds does not, and `ReadsAreAnswered` ties a read to the server and the request
  id it holds, across late answers, noise on the pipe and reads that time out. That a server
  is closed only when idle or least recently read needs that no two entries share a `seq`, and
  that making room keeps exactly the largest of them.
* **The remote box.** `ChildrenAreKept`: a tunnel is kept by one connect under way or by the cell;
  `SerialIsSettled`: as long as no two calls overlapped at most one is between its cells.
* **Onboarding.** `BundlesAgree`, `CommitsAreEntries` and `UnitsAreOfBundles` tie the key list,
  the bindings and the map to the bundles of wizards, of which any number run side by side;
  `RunsAreOwn` says the run id of a baseline is that of its own child.
* **Proofs of an incident.** `CopyStands`: the private copy is the beginning of what the gateway has now,
  because calls are only added. The subtraction is of two replays: without a shared step (`TiesAreSeen`)
  each has one order, so what was blocked of the copy is blocked of the whole run and the
  difference hides nothing; with one, the proof is marked approximate and only its counts are bounded.
* **Packs.** `BuildStands` is the list of artifacts gathered so far, of this build and no other
  although the directory is shared; `RowsAreOfPacks` says that a row is of the pack its build
  assembled, handed back or not. `HandedBackIsWhole` accounts for what the build gathered, which
  is by Money as it was looked at once.
* **The feed.** A row that came live has a key below zero, counted down; one of the store has its
  id. `StreamIsInOrder` orders the rows still in the channel before those the page shows,
  `PageIsInOrder` those the page keeps, as they came, `AnswerIsStored` says the same of the answer
  under way: so no two rows meet in a key, although the page reads and listens at once, the sort
  gives each one place, and the list is cut at its oldest end.
* **Panels.** `AnswersWereTrue`: an answer that has come was the server's at some moment since the
  panel asked (`past`), and so is every figure computed of it. An outage is an answer of another kind.
* **The graph.** `Tallied` states the graph as a function of the set of events fed so far, so
  duplicates and order cannot matter; one event adds exactly its own names, links and key to each.
* **Statistics.** `RowsAreWritten` bounds the table by what was written; `PanelIsCharged`,
  `StopsAreCharged` and `ProfileIsCharged` carry what each half-made panel owes to the rows it
  read first, while later reads see other rows. The baseline is a median because half of the days
  lie on either side of it (`MedianSplits`).
* **Reports.** `RunIsRead` and `ModelsAreRead` say what is in hand between the reads of a file that grows.
* **The stream.** `StreamsAt(f, r)`: the connection has decoded f events, stands at the line that begins
  at position r of the next, and no end of line it could know of is pending. One turn of
  `feed`'s loop moves to the next such point and uses up part of the buffer (`TakeLineTakes`,
  `TakeLineAdvances`), so the loop ends with nothing due, wherever the chunk was cut
  (`FeedIs`); a lone CR is not yet an end. `Follows` relates the events of this connection to
  all received, `Resumes` the id the next one will ask with, which gives `NoGap` over any number
  of drops.

`feed`'s loop, the graph's folds and the day counts are recursive functions, for which the prover has
no induction. Where an invariant needs what such a definition returns, the proof goes by the
least counterexample (`FirstOfNaturals`, from the library's well-foundedness of the naturals):
the first turn at which the claim fails has a predecessor at which it held.

Changes the proofs asked of the models: a duplicate quarantine row in `BusLog`, overlapping guards
of a `CASE` (in which TLA+ leaves the choice open) written in the code's order,
`WithdrawnKeyAges` with the answer in flight, and `NoGap`, which claimed more than the code does: a
connection that drops before its first id has nothing to ask the server for, so what was
published meanwhile is never read. Three events were too few for TLC to show it; the run has four now,
and `NoGap` speaks of the events from the first id on.

Only model-checked, because liveness under fairness is out of the prover's reach:
`ImplementsBusLog` beyond `Log!Safety`, `LoopNeverWedges`, `RestartShowsBlocks`, `StopTakesHold`
and `PlanesSettleOnTheNewest`. Every other property of the passing runs is proved; two of them
under another name, because a run states them of its scenes: `NeverForks` is `NoFork` in the two
scenes of its run, and `ReplacedWhileDownIsRead` is what `ReplacedWhileDownLosesNothing` proves,
in one of the two scenes of its.
## 7. What the models found

1. `ingest_fault`: `FileTail::poll` advances before `poll_once` stores. A failed quarantine
   insert, batch or offset write leaves with `?`; the dropped lines are behind the tail
   and the next tick journals past them. The comment at `feed.rs:598` says such failures
   are "retried on the next tick".
2. `ingest_lossy`: the journaled offset is computed from the decoded text. An undecodable
   byte becomes three, so the offset is past what was read and a restart skips bytes.
3. `journal_hangup`: a command's future, its journaling included, is awaited inside the request
   handler. A browser that closes the connection while the plane answers drops it: the
   plane has acted and no row says so. `retained.rs:15` says "every attempt is journaled,
   whatever happens to it".

The modules also state, next to the properties that hold, sentences of the code's docs that the
same models refute. They are in no run; each has a comment that says how it fails:

| Statement | Module | Why it does not hold |
|---|---|---|
| `UnblockStaysExact`, `NeverAWrongBadge` | LifecycleBlocks | "unblock stays exact" (`lifecycle.rs:20`): unblocking `pay` deletes everything that starts with its prefix, the policies of `payments` too. "never a wrong badge" (`lifecycle.rs:43`): an agent first listed after its unit was stopped is shown stopped and has no policy |
| `StoreComesUp` | StoreMigration | a death after an `ALTER` of V3 or V4 and before the version leaves a store whose next open runs that `ALTER` again |
| `OneEnvironment`, `BomHoldsOwnActions` | PlaneDiscovery | each plane scans the directory when its own task runs; the BOM's loads are resolved before the first command creates the file |
| `NoDeviceSuperseded`, `JournalShowsWhoHasKeys` | WgPeers | two issues that read the interface together choose one address; the row that shows "who was given the keys" (`wg_operator.rs:576`) is best effort |
| `NothingLingers` | RemotePlane | a connect that began before a save finishes after it; two starts of a tail each spawn a child |
| `NeverReplacedUnasked`, `NewMeansNew` | Onboarding | two writes that both found no file both write; a console that is given no map calls every unit new, also the one its last bundle defined (`docs/ONBOARD.md:102`) |
| `BannerIsTrue` | Residency | with the opt-in, a local endpoint may redirect, or a proxy be named |
| `LiveShowsOnlyReal`, `NewestOnTop` | LiveFeed | `recent_events` answers with mock rows when the store cannot be read; live rows have keys below zero, so the sort puts them under the stored ones, the oldest first (`BusExplorer.tsx:54` says newest-first) |
| `NoMeansExamined`, `ExactIsExact` | IncidentProofs | "no" is also the answer when every decision was skipped; a call recorded between the copy and the whole run counts as another's |
| `NoSilentZero` | CaseSeal | the alerts' plane may be down while the radius is answered |
| `CountsStayExact`, `OperatorWithinBlocked`, `EveryStopIsListed`, `JudgedDayIsComplete` | EventStats | blocks are counted from a cut detail; a kill stored between two reads is in one column; the limit is on everybody's stops; a row dated ahead moves the judged day |
| `SpendIsReported`, `DriftIsOneEvent` | CloudPanels | a Cloud without month columns reads as zero; any number of events fit between two reads |
| `TotalsCoverTheScan`, `InventoryIsWhole`, `NothingIsSilent`, `NoRowsNoCalls` | StorePanels | the loop ends at `limit` rows, not at the end of the scan; only the first page is read; a history that cannot be read is shown without records and with nothing skipped (`routines/commands.rs:197-199`); costs in other words than a table are zero rows (`tokenfuse.rs:543-547`) |
| `NothingIsDropped` | EvidencePack | the Cloud ticked while Money is not Ready is neither an artifact nor named missing (`core/evidence.rs:92-93`) |

Two more are seen with a switch of the modules: a `write_all` that fails after part of a line
leaves a fragment to which the next acknowledged line is appended (`ConsoleChain` with
"torn" in `FaultKinds`), and a death inside `persist` leaves a `passkeys.json` that
`PasskeyStore::open` refuses, the password path with it (`PasskeyGate` with `TornWrites`;
`webauthn.rs:304`, `main.rs:929`).

## 8. What is not covered

Behaviour of the modelled parts that the passing runs leave out, because the property
fails there by the design of the code:

* `LiveReplace` with `NothingLost`: a file truncated under a running tail that
  regrows to the offset before the next tick is read from the middle. The length is all
  `FileTail` has to go by.
* `RegisterRace` with replacements: a replaced file that is still shorter than the
  journaled offset has no fingerprint when it is registered and may have reached the
  offset by the first poll.
* `HeadLines` below `MaxLines` with replacements: a replacement under a reused inode that
  agrees with its predecessor on the first `HEAD_FINGERPRINT_BYTES` and then differs is
  resumed. The comment on the constant (`store.rs:1296`) accepts this.
* A quarantine row has no dedupe key: a death before the offset is journaled quarantines
  the same line twice. No property forbids it.
* Another producer's line at the tail when the process restarts, or a tail that
  cannot be read: the console's lines no longer link to each other (`OneChain`), although
  they still never fork.
* The unit and the owner of an agent do not change in `LifecycleBlocks`; agents come to the lists and
  leave them (`Move`). The instance has `SameTail = {}`: no owner is written in two ways. The
  theorems hold for any `SameTail`.
* An event bus whose bootstrap failed: nothing is asked of its streams, because the code gives them up
  for the life of the process (`LoopNeverWedges`).
* The password path when `passkeys.json` cannot be read (end of section 7): no property has it.
* Limits of zero where the code has none: a detail scan, a page, a channel, a time window of zero are
  excluded by the assumptions.
* `Residency` takes the literal name `localhost` like a loopback address; the code does too, and
  does not look up what the name resolves to.
* `AheadDays`: rows dated past today (`JudgedDayIsComplete`).
* Signature counters are not in the model, so a counter written back out of
  order is not seen. A session is taken to be live.

Parts that are not modelled: drills, identity alerts, crypto and the policy lists forward one
request and reshape one answer (their bootstraps are in `PlaneDiscovery`, their mutations in
`OperatorCommands`); bench and replay are functions of one recorded file; signing is
cryptography, abstracted to what a signature binds; the event model and its conformance
check are a verdict per line; configuration and doctor are read once; the frontend is a view
over the API. Within the modelled parts, argon2, the claims of an ID token, JSON and text
layout, the splitting of sentences and the wording of messages are taken as their outcome.

## 9. Plan

What would say most next, in this order:

1. An abstract specification of the passkey ceremony, one confirmation one deed, with `PasskeyGate` shown
   to implement it, as `BusIngest` implements `BusLog`.
2. The signature counter in `PasskeyGate`, for the order in which two handlers write it back.
3. The composition of `ConsoleChain` and `BusIngest` through the lines of `console.ndjson`, so that
   `AcknowledgedIsOnBus` reaches the store.
