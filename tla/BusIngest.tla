----------------------------- MODULE BusIngest -----------------------------
(***************************************************************************)
(* The event bus reader of the console: FileTail and IngestService          *)
(* (crates/core/src/ingest.rs), the parts of the SQLite Store they write    *)
(* (crates/core/src/store.rs), and the tailer thread that drives them       *)
(* (crates/api/src/bus/feed.rs).                                            *)
(*                                                                          *)
(* Actors: the products that append to the *.ndjson streams (and that       *)
(* truncate, remove and recreate them), one console thread that runs the    *)
(* tick loop, and a crash of the console process.  The tick is split into   *)
(* the steps between which a product can write or the process can die.      *)
(*                                                                          *)
(* Offsets are bytes.  A complete line is LineBytes bytes on disk, one of   *)
(* content and the newline; a trailing half-written line is one byte.       *)
(*                                                                          *)
(* A definition marked Mutant is a wrong form of the one after it; no       *)
(* action uses it, it shows that a property would notice.                   *)
(***************************************************************************)
EXTENDS Integers, Sequences, FiniteSets

CONSTANTS
    File,         \* the streams the bus may tail
    Pinned,       \* the extra streams, each pinned to its own source
    Line,         \* what a producer can write on one line
    Conforming,   \* the lines the schema accepts
    Foreign,      \* the lines that claim a source other than their stream's
    Lossy,        \* the lines that are not valid UTF-8
    Old,          \* the lines dated before the retention horizon
    QuarAges,     \* can a quarantine row itself be past the horizon at a restart
    HeadLines,    \* how many lines HEAD_FINGERPRINT_BYTES spans
    MaxLines,     \* bound: lines in one file
    MaxInode,     \* bound: inode numbers handed out
    MaxReplace,   \* bound: truncations and removals
    MaxCrashes,   \* bound: process deaths
    MaxFaults,    \* bound: failed reads and failed store writes
    LiveReplace,  \* may a stream be truncated or removed while the console runs
    RegisterRace, \* may it grow between its registration and its first poll
    InodeReuse    \* does the filesystem hand a new file the freed inode

ASSUME ConstantsAssumption ==
    /\ Pinned \subseteq File
    /\ Conforming \subseteq Line /\ Foreign \subseteq Line
    /\ Lossy \subseteq Line /\ Old \subseteq Line
    /\ HeadLines \in Nat \ {0} /\ MaxInode \in Nat \ {0}
    /\ MaxLines \in Nat /\ MaxReplace \in Nat
    /\ MaxCrashes \in Nat /\ MaxFaults \in Nat
    /\ {QuarAges, LiveReplace, RegisterRace, InodeReuse} \subseteq BOOLEAN

VARIABLES
    present,   \* disk: the paths with a file at them
    lines,     \* disk: its complete lines
    half,      \* disk: the bytes of an unfinished line after them
    inode,     \* disk: the inode number the path has, or had last
    events,    \* store: the events table, as the set of its dedupe keys
    quar,      \* store: the event_quarantine table, in row order
    journal,   \* store: the source_offsets table
    pc,        \* console: where the tailer thread is in its tick; "down" without a
               \* process, "unavailable" in one that has no tailer
    stage,     \* console: bootstrap_live's own first tick, or run_tailer's loop
    tailed,    \* console: the files with a registered FileTail
    tail,      \* console: FileTail.offset
    todo,      \* console: the sources this phase of the tick still has to visit
    recs,      \* console: the records FileTail.poll returned, not yet conformed
    batch,     \* console: valid_events
    toJournal, \* console: offsets_to_journal, 0 when a file has no entry
    ever,      \* history: every line that was ever complete on disk
    pruned,    \* history: the lines whose row the retention horizon took
    replaces, crashes, faults   \* counters for the bounds

disk    == <<present, lines, half, inode, ever>>
store   == <<events, quar, journal, pruned>>
console == <<pc, stage, tailed, tail, todo, recs, batch, toJournal>>
bounds  == <<replaces, crashes, faults>>
vars    == <<disk, store, console, bounds>>

(***************************************************************************)
(* Bytes, keys and fingerprints.                                            *)
(***************************************************************************)
LineBytes == 2

\* The length of the file, as metadata().len() reports it.
FileBytes(f) == LineBytes * Len(lines[f]) + half[f]

\* RawRecord.raw.len(): from_utf8_lossy turns the one bad byte into three.
RawBytes(l) == IF l \in Lossy THEN 3 ELSE 1

\* The dedupe key: the file, the offset the line starts at, and its bytes.
\* The environment name is fixed for a store and is left out.
Key == [file : File, off : Nat, line : Line]
\* Mutant: the offset counted from the line before.
KeyAtOffByOne(f, i) == [file |-> f, off |-> LineBytes * (i - 2), line |-> lines[f][i]]
KeyAt(f, i) == [file |-> f, off |-> LineBytes * (i - 1), line |-> lines[f][i]]

\* source_offsets rows.  NoRow is "never journaled"; inode 0 and head <<>> are
\* the NULL columns.
NoRow == [off |-> 0, inode |-> 0, head |-> << >>]
SourceState == [off : Nat, inode : Nat, head : Seq(Line)]

\* inode_of: NULL when the file cannot be stat-ed.
InodeOf(f) == IF f \in present THEN inode[f] ELSE 0

\* head_fingerprint: the consumed prefix, capped at HeadLines; NULL at offset 0,
\* for a missing file, and for a file shorter than the offset.
HeadFingerprint(f, off) ==
    IF off = 0 \/ f \notin present \/ FileBytes(f) < off
    THEN << >>
    ELSE SubSeq(lines[f], 1, IF off \div LineBytes < HeadLines
                             THEN off \div LineBytes ELSE HeadLines)

\* add_file_source: a differing inode or a differing head means another file.
InodeSaysNew(f) ==
    /\ journal[f].inode # 0 /\ InodeOf(f) # 0
    /\ journal[f].inode # InodeOf(f)
\* Mutant: the inode alone decides.
HeadIsSilent(f) == FALSE

HeadSaysNew(f) ==
    LET live == HeadFingerprint(f, journal[f].off)
    IN  /\ journal[f].head # << >> /\ live # << >>
        /\ journal[f].head # live
ResumeOffset(f) ==
    IF InodeSaysNew(f) \/ HeadSaysNew(f) THEN 0 ELSE journal[f].off

\* Mutant: no truncation check.
OffsetAsItStands(f, off) == off

\* FileTail.poll: an offset past the end of the file means it was truncated.
EffectiveOffset(f, off) == IF FileBytes(f) < off THEN 0 ELSE off

\* poll_once's verdict on a record: stored, or refused into the quarantine.
Accepted(k) ==
    /\ k.line \in Conforming
    /\ ~ (k.file \in Pinned /\ k.line \in Foreign)

-----------------------------------------------------------------------------
Init ==
    /\ present = {}
    /\ lines = [f \in File |-> << >>]
    /\ half = [f \in File |-> 0]
    /\ inode = [f \in File |-> 0]
    /\ events = {} /\ quar = << >>
    /\ journal = [f \in File |-> NoRow]
    /\ pc = "down" /\ stage = "loop"
    /\ tailed = {} /\ tail = [f \in File |-> 0]
    /\ todo = {} /\ recs = {} /\ batch = {}
    /\ toJournal = [f \in File |-> 0]
    /\ ever = {} /\ pruned = {}
    /\ replaces = 0 /\ crashes = 0 /\ faults = 0

(***************************************************************************)
(* The products.  They own the event files; the console only reads them.    *)
(***************************************************************************)
\* A stream is created lazily, by the first tool with something to say.
Create(f) ==
    /\ f \notin present
    /\ present' = present \cup {f}
    /\ lines' = [lines EXCEPT ![f] = << >>]
    /\ half' = [half EXCEPT ![f] = 0]
    /\ \/ /\ inode[f] < MaxInode
          /\ inode' = [inode EXCEPT ![f] = @ + 1]
       \/ /\ InodeReuse /\ inode[f] > 0
          /\ UNCHANGED inode
    /\ UNCHANGED <<ever, store, console, bounds>>

\* A whole line and its newline, or the rest of a half-written one.
Append_(f, l) ==
    /\ f \in present /\ Len(lines[f]) < MaxLines
    /\ RegisterRace \/ ~(pc = "scan" \/ (pc = "poll" /\ f \in todo))
    /\ lines' = [lines EXCEPT ![f] = Append(@, l)]
    /\ half' = [half EXCEPT ![f] = 0]
    /\ ever' = ever \cup {[file |-> f, off |-> LineBytes * Len(lines[f]), line |-> l]}
    /\ UNCHANGED <<present, inode, store, console, bounds>>

\* A producer that writes a line and its newline in two writes.
AppendHalf(f) ==
    /\ f \in present /\ half[f] = 0 /\ Len(lines[f]) < MaxLines
    /\ half' = [half EXCEPT ![f] = 1]
    /\ UNCHANGED <<present, lines, inode, ever, store, console, bounds>>

MayReplace ==
    /\ replaces < MaxReplace /\ replaces' = replaces + 1
    /\ LiveReplace \/ pc = "down"

\* stack-up truncates its event files on every start.
Truncate(f) ==
    /\ f \in present /\ MayReplace
    /\ lines' = [lines EXCEPT ![f] = << >>]
    /\ half' = [half EXCEPT ![f] = 0]
    /\ UNCHANGED <<present, inode, ever, store, console, crashes, faults>>

\* Rotation: the file goes away; Create makes its successor.
Remove(f) ==
    /\ f \in present /\ MayReplace
    /\ present' = present \ {f}
    /\ lines' = [lines EXCEPT ![f] = << >>]
    /\ half' = [half EXCEPT ![f] = 0]
    /\ UNCHANGED <<inode, ever, store, console, crashes, faults>>

(***************************************************************************)
(* The console thread.                                                      *)
(***************************************************************************)
\* A read or a store write fails.
Fault == faults < MaxFaults /\ faults' = faults + 1

\* prune_history: events on the date of the line (an undated line is never in
\* Old), quarantine rows on the date they were written, so the oldest rows go.
PruneHistory ==
    LET old == {k \in events : k.line \in Old}
    IN  \E n \in (IF QuarAges THEN 0..Len(quar) ELSE {0}) :
            /\ events' = events \ old
            /\ quar' = SubSeq(quar, n + 1, Len(quar))
            /\ pruned' = pruned \cup old \cup {quar[i] : i \in 1..n}

\* bootstrap_live: open the store, prune it (best effort), list the sources.
Boot ==
    /\ pc = "down"
    /\ \/ PruneHistory /\ UNCHANGED faults
       \/ Fault /\ UNCHANGED <<events, quar, pruned>>
    /\ pc' = "scan" /\ stage' = "boot"
    /\ todo' = present
    /\ UNCHANGED <<disk, journal, tailed, tail, recs, batch, toJournal, replaces, crashes>>

\* run_tailer wakes: pick_up_new_sources lists the files not tailed yet.
Tick ==
    /\ pc = "idle"
    /\ pc' = "scan"
    /\ todo' = present \ tailed
    /\ UNCHANGED <<disk, store, stage, tailed, tail, recs, batch, toJournal, bounds>>

\* add_file_source / add_pinned_file_source for one listed file.
AddFileSource(f) ==
    /\ pc = "scan" /\ f \in todo
    /\ tailed' = tailed \cup {f}
    /\ tail' = [tail EXCEPT ![f] = ResumeOffset(f)]
    /\ todo' = todo \ {f}
    /\ UNCHANGED <<disk, store, pc, stage, recs, batch, toJournal, bounds>>

\* poll_once begins, over every registered source.
StartPoll ==
    /\ pc = "scan" /\ todo = {}
    /\ pc' = "poll" /\ todo' = tailed
    /\ UNCHANGED <<disk, store, stage, tailed, tail, recs, batch, toJournal, bounds>>

\* Mutant: the offset moves past the unfinished line as well.
PollSourcePastHalf(f) ==
    /\ pc = "poll" /\ recs = {} /\ f \in todo
    /\ todo' = todo \ {f}
    /\ recs' = {KeyAt(f, i) : i \in {j \in 1..Len(lines[f]) : LineBytes * j > tail[f]}}
    /\ tail' = [tail EXCEPT ![f] = LineBytes * (Len(lines[f]) + half[f])]
    /\ UNCHANGED <<disk, store, pc, stage, tailed, batch, toJournal, bounds>>

\* FileTail.poll on one source: every complete line past the offset, and the
\* offset moves past them at once.  A missing file is nothing to read.
PollSource(f) ==
    /\ pc = "poll" /\ recs = {} /\ f \in todo
    /\ todo' = todo \ {f}
    /\ IF f \in present
       THEN LET from == EffectiveOffset(f, tail[f])
            IN  /\ recs' = {KeyAt(f, i) : i \in {j \in 1..Len(lines[f]) :
                                                   LineBytes * j > from}}
                /\ tail' = [tail EXCEPT ![f] = IF LineBytes * Len(lines[f]) > from
                                               THEN LineBytes * Len(lines[f])
                                               ELSE from]
       ELSE UNCHANGED <<recs, tail>>
    /\ UNCHANGED <<disk, store, pc, stage, tailed, batch, toJournal, bounds>>

\* The next record in file order.  Its end is noted for the offset journal
\* from the length of the decoded text, whatever the verdict.
NextRecord(k) == k \in recs /\ \A o \in recs : k.off <= o.off

NoteOffset(k) ==
    LET next == k.off + RawBytes(k.line) + 1
    IN  toJournal' = [toJournal EXCEPT ![k.file] = IF @ < next THEN next ELSE @]

\* A line that conforms joins the batch.
ConformRecord(k) ==
    /\ pc = "poll" /\ NextRecord(k) /\ Accepted(k)
    /\ recs' = recs \ {k}
    /\ batch' = batch \cup {k}
    /\ NoteOffset(k)
    /\ UNCHANGED <<disk, store, pc, stage, tailed, tail, todo, bounds>>

\* A line that does not, or that claims a source its pinned stream may not
\* carry, is a quarantine row, committed on its own.
QuarantineRecord(k) ==
    /\ pc = "poll" /\ NextRecord(k) /\ ~Accepted(k)
    /\ recs' = recs \ {k}
    /\ quar' = Append(quar, k)
    /\ NoteOffset(k)
    /\ UNCHANGED <<disk, events, journal, pruned, pc, stage, tailed, tail, todo, batch, bounds>>

\* insert_batch: one transaction, INSERT OR IGNORE on the dedupe key.
InsertBatch ==
    /\ pc = "poll" /\ todo = {} /\ recs = {}
    /\ events' = events \cup batch
    /\ batch' = {}
    /\ pc' = "journal"
    /\ UNCHANGED <<disk, quar, journal, pruned, stage, tailed, tail, todo, recs, toJournal,
                   bounds>>

\* Mutant: the offset is journaled before the batch commits.
SetOffsetEarly(f) ==
    /\ pc \in {"poll", "journal"} /\ toJournal[f] # 0
    /\ journal' = [journal EXCEPT ![f] =
                     [off |-> toJournal[f], inode |-> InodeOf(f),
                      head |-> HeadFingerprint(f, toJournal[f])]]
    /\ toJournal' = [toJournal EXCEPT ![f] = 0]
    /\ UNCHANGED <<disk, events, quar, pruned, pc, stage, tailed, tail, todo, recs, batch,
                   bounds>>

\* set_offset for one file: the inode and the fingerprint are read now.
SetOffset(f) ==
    /\ pc = "journal" /\ toJournal[f] # 0
    /\ journal' = [journal EXCEPT ![f] =
                     [off |-> toJournal[f], inode |-> InodeOf(f),
                      head |-> HeadFingerprint(f, toJournal[f])]]
    /\ toJournal' = [toJournal EXCEPT ![f] = 0]
    /\ UNCHANGED <<disk, events, quar, pruned, pc, stage, tailed, tail, todo, recs, batch,
                   bounds>>

\* The tick is over; after the first one bootstrap_live hands the service to
\* the tailer thread.
EndTick ==
    /\ pc = "journal" /\ \A f \in File : toJournal[f] = 0
    /\ pc' = "idle" /\ stage' = "loop"
    /\ UNCHANGED <<disk, store, tailed, tail, todo, recs, batch, toJournal, bounds>>

(***************************************************************************)
(* Failures.  poll_once leaves with `?`: the records and the batch are      *)
(* dropped, the FileTail offsets stay where they are.  The tailer logs it   *)
(* and goes on; an error of bootstrap_live leaves the process without a     *)
(* tailer (BusMode::Unavailable), and nothing in it tries again.            *)
(***************************************************************************)
\* Nothing of the bus is left but the disk and the committed store.
Gone(to) ==
    /\ pc' = to /\ stage' = "loop"
    /\ tailed' = {} /\ tail' = [f \in File |-> 0]
    /\ todo' = {} /\ recs' = {} /\ batch' = {}
    /\ toJournal' = [f \in File |-> 0]

\* The store cannot be created or opened.
BootFails ==
    /\ pc = "down" /\ Fault
    /\ Gone("unavailable")
    /\ UNCHANGED <<disk, store, replaces, crashes>>

Abandon ==
    /\ \/ stage = "boot" /\ Gone("unavailable")
       \/ /\ stage = "loop" /\ pc' = "idle"
          /\ recs' = {} /\ batch' = {} /\ todo' = {}
          /\ toJournal' = [f \in File |-> 0]
          /\ UNCHANGED <<stage, tailed, tail>>
    /\ UNCHANGED <<disk, store, replaces, crashes>>

\* The journal row cannot be read: retried on the next tick, fatal at boot.
AddFileSourceFails(f) ==
    /\ pc = "scan" /\ f \in todo /\ Fault
    /\ \/ stage = "boot" /\ Gone("unavailable")
       \/ /\ stage = "loop" /\ todo' = todo \ {f}
          /\ UNCHANGED <<pc, stage, tailed, tail, recs, batch, toJournal>>
    /\ UNCHANGED <<disk, store, replaces, crashes>>

\* A source whose file is there and cannot be opened or read.
PollSourceFails(f) ==
    pc = "poll" /\ recs = {} /\ f \in todo /\ f \in present /\ Fault /\ Abandon

\* A quarantine insert, the batch transaction or an offset upsert fails (a
\* busy database, a full disk); the transaction rolls back.
StoreWriteFails ==
    /\ \/ pc = "poll" /\ \E k \in recs : NextRecord(k) /\ ~Accepted(k)
       \/ pc = "poll" /\ todo = {} /\ recs = {} /\ batch # {}
       \/ pc = "journal" /\ \E f \in File : toJournal[f] # 0
    /\ Fault /\ Abandon

\* The process dies.
Crash ==
    /\ pc # "down" /\ crashes < MaxCrashes /\ crashes' = crashes + 1
    /\ Gone("down")
    /\ UNCHANGED <<disk, store, replaces, faults>>

-----------------------------------------------------------------------------
ProductStep ==
    \E f \in File :
        \/ Create(f) \/ AppendHalf(f) \/ Truncate(f) \/ Remove(f)
        \/ \E l \in Line : Append_(f, l)

ConsoleStep ==
    \/ Boot \/ Tick \/ StartPoll \/ InsertBatch \/ EndTick
    \/ \E f \in File : AddFileSource(f) \/ PollSource(f) \/ SetOffset(f)
    \/ \E k \in recs : ConformRecord(k) \/ QuarantineRecord(k)

FailureStep ==
    \/ BootFails \/ StoreWriteFails \/ Crash
    \/ \E f \in File : AddFileSourceFails(f) \/ PollSourceFails(f)

Next == ProductStep \/ ConsoleStep \/ FailureStep

Spec == Init /\ [][Next]_vars

(***************************************************************************)
(* The tailer thread keeps running between crashes, and a supervisor starts *)
(* the process again after one; the products owe nothing.  A process whose  *)
(* bootstrap failed is alive, so nothing restarts it: no step of the        *)
(* console is enabled in "unavailable", and fairness asks for none.         *)
(***************************************************************************)
FairSpec == Spec /\ WF_vars(ConsoleStep)

-----------------------------------------------------------------------------
(***************************************************************************)
(* Properties.                                                              *)
(***************************************************************************)
\* The shape of the state: rows, offsets and records are what the store's
\* columns and the service's fields can hold.
TypeOK ==
    /\ present \subseteq File /\ half \in [File -> {0, 1}]
    /\ lines \in [File -> Seq(Line)] /\ inode \in [File -> Nat]
    /\ events \subseteq Key /\ quar \in Seq(Key)
    /\ journal \in [File -> SourceState]
    /\ pc \in {"down", "unavailable", "idle", "scan", "poll", "journal"} /\ stage \in {"boot", "loop"}
    /\ tailed \subseteq File /\ tail \in [File -> Nat] /\ todo \subseteq File
    /\ recs \subseteq Key /\ batch \subseteq Key
    /\ toJournal \in [File -> Nat] /\ ever \subseteq Key /\ pruned \subseteq Key
    /\ replaces \in Nat /\ crashes \in Nat /\ faults \in Nat

\* A line the store accounts for: an event row, a quarantine row, or a row the
\* retention horizon took.
Recorded(k) ==
    k \in events \/ k \in pruned \/ \E n \in DOMAIN quar : quar[n] = k

\* Every line of a tailed file that the next poll will not read again is in the
\* store, or is in the hands of the tick under way: no order of appends, ticks,
\* crashes and restarts lets FileTail.poll pass a line that poll_once then
\* neither stores nor quarantines.
NothingLost ==
    \A f \in tailed : \A i \in 1..Len(lines[f]) :
        LineBytes * i <= EffectiveOffset(f, tail[f])
            => Recorded(KeyAt(f, i)) \/ KeyAt(f, i) \in recs \cup batch

\* Whenever the process might restart, the lines add_file_source would skip are
\* in the store already: the journal never runs ahead of the batch it follows,
\* and a replaced file is never resumed at its predecessor's offset.
ResumeIsSafe ==
    \A f \in File : \A i \in 1..Len(lines[f]) :
        LineBytes * i <= EffectiveOffset(f, ResumeOffset(f)) => Recorded(KeyAt(f, i))

Log == INSTANCE BusLog WITH
    Message <- [file : File, off : {LineBytes * (i - 1) : i \in 1..MaxLines}, line : Line],
    published <- ever,
    stored <- events \cup {quar[n] : n \in DOMAIN quar},
    forgotten <- pruned

\* The bus is the log BusLog describes: whatever the files, the ticks and the
\* crashes do, a step of theirs records published lines, forgets old rows, or
\* changes nothing a reader of the tables can see, and every line arrives.
ImplementsBusLog == Log!Spec

\* Every complete line that is ever in a stream is stored or quarantined in the
\* end, whatever the crashes, as long as the console has a bus at all:
\* "quarantined, never dropped".
EveryLineIsRecorded == \A f \in File, i \in 1..MaxLines, l \in Line :
    LET k == [file |-> f, off |-> LineBytes * (i - 1), line |-> l]
    IN  (k \in ever) ~> (Recorded(k) \/ pc = "unavailable")

\* Once the disk holds still, every tail reaches the end of its file and stays
\* there: once bootstrap_live has succeeded no truncation, removal, undecodable
\* byte, failed read, failed write or crash wedges the loop or ends it.  Only an
\* error of bootstrap_live itself leaves a stream unread, and then the whole
\* process has no bus for as long as it lives (feed.rs:279,284, main.rs:304-322).
LoopNeverWedges ==
    /\ <>[](pc # "unavailable" =>
               \A f \in File : f \in present => tail[f] = LineBytes * Len(lines[f]))
    /\ [][pc' = "unavailable" => pc \in {"down", "unavailable"} \/ stage = "boot"]_vars

\* poll_once: the journaled offset is "never advanced past a partial line".
OffsetNotPastRead ==
    \A f \in File : journal[f].off <= LineBytes * Len(lines[f])
=============================================================================
