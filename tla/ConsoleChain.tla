---------------------------- MODULE ConsoleChain ----------------------------
(***************************************************************************)
(* How a privileged console action is put on record: the plane commands     *)
(* (crates/api/src/money/commands.rs and its twins) call the plane, then    *)
(* command::record (crates/core/src/command.rs) writes a commands_journal   *)
(* row and appends one hash-chained console_command line to console.ndjson. *)
(*                                                                          *)
(* Actors: the request handlers, each in one call of record and all sharing *)
(* the process-wide ChainSink; another producer that appends to the same    *)
(* file; stack-up, which truncates it; and a death of the console process.  *)
(*                                                                          *)
(* The hash of a line is the line without its own prev_hash, so a call      *)
(* stands for the hash of the line it writes.                               *)
(*                                                                          *)
(* A definition marked Mutant is a wrong form of the one after it; no       *)
(* action uses it, it shows that a property would notice.                   *)
(***************************************************************************)
EXTENDS Integers, Sequences

CONSTANTS
    Call,          \* the calls of record; a retry is another call
    Unjustified,   \* the break-glass calls without a reason
    None,          \* no prev_hash, and no fragment
    Foreign,       \* a line of another producer, and its hash
    Garbled,       \* bytes that do not parse
    MaxForeign,    \* bound: lines of another producer
    MaxTruncate,   \* bound: truncations of the file
    MaxCrashes,    \* bound: process deaths
    MaxFaults,     \* bound: errors of the store and of the file system
    FaultKinds     \* which errors may happen

ASSUME ConstantsAssumption ==
    /\ Unjustified \subseteq Call
    /\ None \notin Call /\ Foreign \notin Call /\ Garbled \notin Call
    /\ None # Foreign /\ None # Garbled /\ Foreign # Garbled
    /\ MaxForeign \in Nat /\ MaxTruncate \in Nat
    /\ MaxCrashes \in Nat /\ MaxFaults \in Nat
    /\ FaultKinds \subseteq {"journal", "open", "unreadable",
                             "write", "torn", "unterminated"}

VARIABLES
    file,    \* disk: the terminated lines of console.ndjson
    frag,    \* disk: the unterminated bytes after them
    rows,    \* store: the calls with a commands_journal row
    sink,    \* process: is the ChainSink of this file registered
    next,    \* process: ChainSink.next
    pc,      \* process: where each call is
    foreigns, truncates, crashes, faults   \* counters for the bounds

bounds == <<foreigns, truncates, crashes, faults>>
vars   == <<file, frag, rows, sink, next, pc, bounds>>

Hash  == Call \cup {Foreign, None}
Entry == [id : Call \cup {Foreign, Garbled}, prev : Hash]

\* A call's stages.  "opened": the plane answered; "journaled": the row is
\* committed; "linked": it holds the sink; "ok" and "failed" are what record
\* returned; "lost" died with its process.
Stage == {"idle", "opened", "journaled", "linked", "ok", "failed", "lost"}

\* chain_hash_of_line: a line that does not parse has none.
LineHash(id) == IF id = Garbled THEN None ELSE id

\* last_line_of, then its hash.  str::lines also yields a last line that has
\* no newline.
TailHash ==
    IF frag # None THEN LineHash(frag)
    ELSE IF file = << >> THEN None ELSE LineHash(file[Len(file)].id)

\* Mutant: a restart starts a chain of its own.
SeedsFresh == {None}

\* What sink_for may seed the chain with.  Bytes cut inside a character make
\* read_to_string refuse the whole file, which reads like an empty one.
Seeds ==
    {TailHash}
    \cup (IF frag = Garbled \/ \E i \in 1..Len(file) : file[i].id = Garbled
          THEN {None} ELSE {})

\* The bytes of a line land after whatever is at the end of the file; after
\* a fragment the two are one line that parses as neither.
Landed(id, prev) ==
    IF frag = None THEN [id |-> id, prev |-> prev]
                   ELSE [id |-> Garbled, prev |-> None]

-----------------------------------------------------------------------------
Init ==
    /\ file = << >> /\ frag = None /\ rows = {}
    /\ sink = "closed" /\ next = None
    /\ pc = [c \in Call |-> "idle"]
    /\ foreigns = 0 /\ truncates = 0 /\ crashes = 0 /\ faults = 0

Move(c, from, to) == pc[c] = from /\ pc' = [pc EXCEPT ![c] = to]

Fault(kind) ==
    /\ kind \in FaultKinds /\ faults < MaxFaults
    /\ faults' = faults + 1
    /\ UNCHANGED <<foreigns, truncates, crashes>>

\* finish_mutation: the plane has answered, yes or no, and the outcome is
\* about to be journaled.
Mutate(c) ==
    /\ Move(c, "idle", "opened")
    /\ UNCHANGED <<file, frag, rows, sink, next, bounds>>

\* require_break_glass_reason refuses before anything is written.
RefuseUnjustified(c) ==
    /\ c \in Unjustified
    /\ Move(c, "opened", "failed")
    /\ UNCHANGED <<file, frag, rows, sink, next, bounds>>

\* Mutant: the row is best effort and record goes on without it.
InsertCommandBestEffort(c) ==
    /\ c \notin Unjustified
    /\ Move(c, "opened", "journaled")
    /\ rows' \in {rows, rows \cup {c}}
    /\ UNCHANGED <<file, frag, sink, next, bounds>>

InsertCommand(c) ==
    /\ c \notin Unjustified
    /\ Move(c, "opened", "journaled")
    /\ rows' = rows \cup {c}
    /\ UNCHANGED <<file, frag, sink, next, bounds>>

\* No bus, Store::open or the INSERT failed: journal answers (false, why).
JournalFails(c) ==
    /\ Move(c, "opened", "failed") /\ Fault("journal")
    /\ UNCHANGED <<file, frag, rows, sink, next>>

\* sink_for, under the registry lock: the first call opens the file and seeds
\* the chain from its tail, every later one finds the sink.  A tail that
\* cannot be read counts as no tail.
SinkFor(c) ==
    /\ Move(c, "journaled", "linked")
    /\ sink' = "open"
    /\ \/ sink = "open" /\ next' = next /\ UNCHANGED bounds
       \/ sink = "closed" /\ next' \in Seeds /\ UNCHANGED bounds
       \/ sink = "closed" /\ next' = None /\ Fault("unreadable")
    /\ UNCHANGED <<file, frag, rows>>

SinkForFails(c) ==
    /\ sink = "closed"
    /\ Move(c, "journaled", "failed") /\ Fault("open")
    /\ UNCHANGED <<file, frag, rows, sink, next>>

\* Mutant: the chain is not advanced after the write.
AppendChainedStale(c) ==
    /\ Move(c, "linked", "ok")
    /\ file' = Append(file, Landed(c, next))
    /\ frag' = None
    /\ UNCHANGED <<rows, sink, next, bounds>>

\* append_chained, under the sink's lock: one write of the line and its
\* newline, then next advances.
AppendChained(c) ==
    /\ Move(c, "linked", "ok")
    /\ file' = Append(file, Landed(c, next))
    /\ frag' = None
    /\ next' = c
    /\ UNCHANGED <<rows, sink, bounds>>

\* write_all failed with none of the line on disk, with some of it, or with
\* all of it but the newline.
Leftover(c) ==
    \/ Fault("write") /\ frag' = frag
    \/ Fault("torn") /\ frag' = Garbled
    \/ Fault("unterminated") /\ frag' = IF frag = None THEN c ELSE Garbled

\* Mutant: the write error is swallowed.
AppendFailsSilently(c) ==
    /\ Move(c, "linked", "ok") /\ Leftover(c)
    /\ UNCHANGED <<file, rows, sink, next>>

\* append_chained returns the error: next stays where it was.
AppendFails(c) ==
    /\ Move(c, "linked", "failed") /\ Leftover(c)
    /\ UNCHANGED <<file, rows, sink, next>>

\* Another producer writes a line of its own, framed in one write.
ForeignAppend ==
    /\ foreigns < MaxForeign /\ foreigns' = foreigns + 1
    /\ file' = Append(file, Landed(Foreign, None))
    /\ frag' = None
    /\ UNCHANGED <<rows, sink, next, pc, truncates, crashes, faults>>

\* stack-up truncates the file in place; the sink still holds it for append.
Truncate ==
    /\ truncates < MaxTruncate /\ truncates' = truncates + 1
    /\ file' = << >> /\ frag' = None
    /\ UNCHANGED <<rows, sink, next, pc, foreigns, crashes, faults>>

\* The process dies: rows and lines stay, the sink and the calls in hand go.
Crash ==
    /\ crashes < MaxCrashes /\ crashes' = crashes + 1
    /\ sink' = "closed" /\ next' = None
    /\ pc' = [c \in Call |-> IF pc[c] \in {"opened", "journaled", "linked"}
                             THEN "lost" ELSE pc[c]]
    /\ UNCHANGED <<file, frag, rows, foreigns, truncates, faults>>

Step(c) ==
    \/ Mutate(c) \/ RefuseUnjustified(c)
    \/ InsertCommand(c) \/ JournalFails(c)
    \/ SinkFor(c) \/ SinkForFails(c)
    \/ AppendChained(c) \/ AppendFails(c)

\* Every call has returned or died, and nothing is left to happen.
Finished ==
    /\ \A c \in Call : pc[c] \in {"ok", "failed", "lost"}
    /\ UNCHANGED vars

Next ==
    \/ \E c \in Call : Step(c)
    \/ ForeignAppend \/ Truncate \/ Crash
    \/ Finished

Spec == Init /\ [][Next]_vars

-----------------------------------------------------------------------------
(***************************************************************************)
(* Properties.                                                              *)
(***************************************************************************)
\* The shape of the state: lines, rows and links are what console.ndjson, the
\* commands_journal table and ChainSink can hold.
TypeOK ==
    /\ file \in Seq(Entry)
    /\ frag \in Call \cup {None, Garbled}
    /\ rows \subseteq Call
    /\ sink \in {"open", "closed"}
    /\ next \in Hash
    /\ pc \in [Call -> Stage]
    /\ foreigns \in Nat /\ truncates \in Nat /\ crashes \in Nat /\ faults \in Nat

\* One chain per file (ChainSink, and assert_one_chain of the chain test): a
\* console line links to the console line before it, whatever was written in
\* between, and the first one to no console line at all.
OneChain ==
    \A j \in 1..Len(file) : file[j].id \in Call =>
        \/ /\ \A i \in 1..(j - 1) : file[i].id \notin Call
           /\ file[j].prev \notin Call
        \/ \E i \in 1..(j - 1) :
             /\ file[j].prev = file[i].id
             /\ file[i].id \in Call
             /\ \A k \in (i + 1)..(j - 1) : file[k].id \notin Call

\* The chain never forks (SINKS): no two lines name the same call as their
\* predecessor, whatever other writers, failed writes, truncations and
\* restarts do to the file.
NoFork ==
    \A i \in 1..Len(file) : \A j \in 1..Len(file) :
        file[i].prev \in Call /\ file[i].prev = file[j].prev => i = j

\* record journals first: every console line that can be read on the bus has
\* its commands_journal row, and an unjustified override has neither.
EveryLineHasRow ==
    /\ \A i \in 1..Len(file) : file[i].id \in Call => file[i].id \in rows
    /\ rows \cap Unjustified = {}

\* A command answered with bus_recorded: true is a readable line of the file.
AcknowledgedIsOnBus ==
    \A c \in Call : pc[c] = "ok" => \E i \in 1..Len(file) : file[i].id = c
=============================================================================
