----------------------------- MODULE LiveFeed -----------------------------
(***************************************************************************)
(* From the console's bus to the page: how the bus is opened (live, demo   *)
(* or not at all), the loop that polls it every two seconds and forwards   *)
(* what a poll broadcast, the bounded channels on the way, and a page that *)
(* reads recent_events and listens to the stream at once.                  *)
(*                                                                         *)
(* crates/api/src/bus/feed.rs, bus/mod.rs, events.rs, the SSE handler and  *)
(* the start of crates/web/src/main.rs, apps/web's BusExplorer.tsx.  How a *)
(* poll reads files is module BusIngest's subject; here a poll takes every *)
(* line that is waiting.                                                   *)
(***************************************************************************)
EXTENDS Integers, Sequences

CONSTANTS
    Page,        \* browser pages open on the bus
    MaxLines,    \* lines the products and the feeder write
    Capacity,    \* of the ingest's broadcast and of the SSE channel
    FetchLimit,  \* rows a page keeps and asks for
    MaxTrouble   \* failed starts and polls, failed reads of the store, dropped streams

VARIABLES
    found,     \* a taipan environment was found at startup
    named,     \* the state directories the process environment names, of StateDirs
    storeDir,  \* where the store was opened
    mode,      \* BusMode, "starting" until bootstrap has answered
    waiting,   \* lines in the tailed files, not yet polled
    stored,    \* rows of the store, by id
    batch,     \* broadcast by the last poll and not yet drained
    ticking,   \* the feeder loop: "asleep" or "draining"
    liveId,    \* NEXT_LIVE_ID
    ring,      \* per page, the SSE channel: open or not, and what it has not read yet
    asked,     \* per page, recent_events: "never", "asked", "answered" or "done", and the answer
    shown,     \* per page, the rows it keeps, the last received first
    written, trouble

feedVars == <<found, named, storeDir, mode, waiting, stored, batch, ticking, liveId, ring,
              asked, shown, written, trouble>>

\* Any count of the channel's, and a page's, places.
ASSUME FeedAssumption == Capacity \in Nat \ {0} /\ FetchLimit \in Nat

Line(by) == [by |-> by, n |-> written + 1]
Row(key, line) == [key |-> key, line |-> line]

\* events::mock_events: rows nobody emitted, numbered like rows of the store.
MockEvents == <<Row(2, [by |-> "mock", n |-> 2]),
                Row(1, [by |-> "mock", n |-> 1])>>

First(s) == SubSeq(s, 1, IF Len(s) < FetchLimit THEN Len(s) ELSE FetchLimit)

\* A bounded broadcast channel: a reader that falls behind finds the oldest gone.
SendAll(q, s) == LET all == q \o s
                 IN  IF Len(all) <= Capacity THEN all
                     ELSE SubSeq(all, Len(all) - Capacity + 1, Len(all))

\* GENARYX_STATE_DIR, TAIPAN_HOME and HOME, in the order store_dir_candidates tries them.
StateDirs == <<"state", "taipan", "home">>
StateDir  == {StateDirs[i] : i \in DOMAIN StateDirs}

Closed == [open |-> FALSE, q |-> <<>>]

FeedInit ==
    /\ found \in BOOLEAN
    /\ named \in SUBSET StateDir
    /\ storeDir = "none"
    /\ mode = "starting"
    /\ waiting = <<>> /\ stored = <<>> /\ batch = <<>>
    /\ ticking = "asleep"
    /\ liveId = -1
    /\ ring = [p \in Page |-> Closed]
    /\ asked = [p \in Page |-> [at |-> "never", rows |-> <<>>]]
    /\ shown = [p \in Page |-> <<>>]
    /\ written = 0 /\ trouble = 0

\* A product writes one line of the environment's event files.
Write ==
    /\ found
    /\ written < MaxLines
    /\ waiting' = Append(waiting, Line("product"))
    /\ written' = written + 1
    /\ UNCHANGED <<found, named, storeDir, mode, stored, batch, ticking, liveId, ring, asked, shown, trouble>>

Insert(lines) == stored' = stored \o lines /\ waiting' = <<>>

\* The first directory that the environment names and that can be created.
Usable(writable) == {i \in DOMAIN StateDirs : StateDirs[i] \in named \cap writable}
FirstUsable(writable) ==
    StateDirs[CHOOSE i \in Usable(writable) : \A j \in Usable(writable) : i <= j]

\* Mutant: a directory that cannot be created costs the session its history.
StoreDirOrScratch(writable) == IF Usable(writable) # {} THEN FirstUsable(writable) ELSE "scratch"

\* create_store_dir.  Scratch, kept for this process only, is for an environment that names none.
StoreDir(writable) ==
    IF Usable(writable) # {} THEN FirstUsable(writable) ELSE IF named = {} THEN "scratch" ELSE "none"

\* Mutant: a found environment whose store cannot be opened is served as a demo.
OpenedOrDemo(dir, fails) == IF found /\ dir # "none" /\ fails = "none" THEN "live" ELSE "demo"

\* bootstrap: live if an environment resolves, demo if none does.  Whatever fails there, and an
\* environment that names only directories that cannot be created, leaves this process no bus.
Opened(dir, fails) ==
    IF fails # "none" \/ (found /\ dir = "none") THEN "unavailable"
    ELSE IF found THEN "live" ELSE "demo"

\* bootstrap_live / bootstrap_demo: a store and its sources, subscribe, then the first poll.
\* The store may not open, nor a source or the demo's files; the poll may fail at the insert
\* or after it.  A demo is always scratch.
Bootstrap(writable, fails) ==
    /\ mode = "starting"
    /\ fails # "none" => trouble < MaxTrouble /\ trouble' = trouble + 1
    /\ fails = "none" => UNCHANGED trouble
    /\ mode' = Opened(StoreDir(writable), fails)
    /\ storeDir' = IF mode' = "live" THEN StoreDir(writable)
                   ELSE IF mode' = "demo" THEN "scratch" ELSE "none"
    /\ LET seed == IF found THEN waiting ELSE Append(waiting, Line("demo"))
       IN  IF fails \in {"open", "insert"} \/ (found /\ StoreDir(writable) = "none")
           THEN UNCHANGED <<stored, waiting, batch>>
           ELSE Insert(seed) /\ batch' = IF fails = "none" THEN SendAll(<<>>, seed) ELSE batch
    /\ written' = IF found \/ fails = "open" THEN written ELSE written + 1
    /\ UNCHANGED <<found, named, ticking, liveId, ring, asked, shown>>

\* What this tick polls: run_feeder first appends one synthetic line, run_tailer writes nothing.
ThisTick == IF mode = "demo" THEN Append(waiting, Line("demo")) ELSE waiting

\* Mutant: the batch is broadcast before the rows are inserted.
PollBroadcastsFirst(fails) ==
    /\ batch' = SendAll(batch, ThisTick)
    /\ IF fails = "insert" THEN UNCHANGED stored /\ waiting' = <<>> ELSE Insert(ThisTick)

\* poll_once: insert, journal the offsets, broadcast.  It may fail at the insert (the tails are
\* past the lines, which stay unread until a restart) or after it, the rows stored and not
\* broadcast.
PollOnce(fails) ==
    CASE fails = "insert" -> waiting' = <<>> /\ UNCHANGED <<stored, batch>>
      [] fails = "offset" -> Insert(ThisTick) /\ UNCHANGED batch
      [] fails = "none"   -> Insert(ThisTick) /\ batch' = SendAll(batch, ThisTick)

\* The first half of a tick.  A poll that fails skips the drain: the tick is over.
Poll(fails) ==
    /\ mode \in {"live", "demo"}
    /\ ticking = "asleep"
    /\ mode = "demo" => written < MaxLines
    /\ fails # "none" => trouble < MaxTrouble
    /\ PollOnce(fails)
    /\ ticking' = IF fails = "none" THEN "draining" ELSE "asleep"
    /\ trouble' = IF fails = "none" THEN trouble ELSE trouble + 1
    /\ written' = IF mode = "demo" THEN written + 1 ELSE written
    /\ UNCHANGED <<found, named, storeDir, mode, liveId, ring, asked, shown>>

\* Mutant: the key a live row would have if it were numbered like the store's.
LiveKeyOfRow(i) == i - liveId

\* NEXT_LIVE_ID counts down from -1, so no live row has a stored row's key.
LiveKey(i) == liveId - (i - 1)

\* drain_and_emit: every event of the batch to every page that is listening.
Drain ==
    /\ ticking = "draining"
    /\ LET rows == [i \in DOMAIN batch |-> Row(LiveKey(i), batch[i])]
       IN  ring' = [p \in Page |-> IF ring[p].open THEN [ring[p] EXCEPT !.q = SendAll(@, rows)]
                                   ELSE Closed]
    /\ liveId' = liveId - Len(batch)
    /\ batch' = <<>>
    /\ ticking' = "asleep"
    /\ UNCHANGED <<found, named, storeDir, mode, waiting, stored, asked, shown, written, trouble>>

(***************************************************************************)
(* A page                                                                  *)
(***************************************************************************)
Listen(p) ==
    /\ mode # "starting"
    /\ ~ring[p].open
    /\ ring' = [ring EXCEPT ![p].open = TRUE]
    /\ UNCHANGED <<found, named, storeDir, mode, waiting, stored, batch, ticking, liveId,
                   asked, shown, written, trouble>>

\* The stream drops; what the page had not read is gone, and the browser will reconnect.
StreamDrops(p) ==
    /\ ring[p].open
    /\ trouble < MaxTrouble
    /\ trouble' = trouble + 1
    /\ ring' = [ring EXCEPT ![p] = Closed]
    /\ UNCHANGED <<found, named, storeDir, mode, waiting, stored, batch, ticking, liveId,
                   asked, shown, written>>

AskEvents(p) ==
    /\ mode # "starting"
    /\ asked[p].at = "never"
    /\ asked' = [asked EXCEPT ![p].at = "asked"]
    /\ UNCHANGED <<found, named, storeDir, mode, waiting, stored, batch, ticking, liveId, ring,
                   shown, written, trouble>>

\* Store::recent_events: newest first.
Newest == First([i \in DOMAIN stored |->
                     LET id == Len(stored) + 1 - i IN Row(id, stored[id])])

\* recent_events: the store's rows, or the mock ones when there is no store or it cannot be read.
RecentEvents(readable) ==
    IF mode # "unavailable" /\ readable THEN Newest ELSE First(MockEvents)

ReadEvents(p, readable) ==
    /\ asked[p].at = "asked"
    /\ ~readable => trouble < MaxTrouble
    /\ asked' = [asked EXCEPT ![p] = [at |-> "answered", rows |-> RecentEvents(readable)]]
    /\ trouble' = IF readable THEN trouble ELSE trouble + 1
    /\ UNCHANGED <<found, named, storeDir, mode, waiting, stored, batch, ticking, liveId, ring,
                   shown, written>>

\* The answer arrives: it replaces what the page shows, live rows included.
ShowEvents(p) ==
    /\ asked[p].at = "answered"
    /\ shown' = [shown EXCEPT ![p] = asked[p].rows]
    /\ asked' = [asked EXCEPT ![p] = [at |-> "done", rows |-> <<>>]]
    /\ UNCHANGED <<found, named, storeDir, mode, waiting, stored, batch, ticking, liveId, ring,
                   written, trouble>>

\* sortEvents as the page opens, by time and downwards: the row with the greater id is above.
Above(r, s) == r.key > s.key

\* BusExplorer prepends what arrives and keeps FetchLimit rows; sortEvents puts them in place.
PutAbove(p) == First(<<Head(ring[p].q)>> \o shown[p])

Receive(p) ==
    /\ ring[p].q # <<>>
    /\ shown' = [shown EXCEPT ![p] = PutAbove(p)]
    /\ ring' = [ring EXCEPT ![p].q = Tail(@)]
    /\ UNCHANGED <<found, named, storeDir, mode, waiting, stored, batch, ticking, liveId,
                   asked, written, trouble>>

FeedNext ==
    \/ Write
    \/ \E w \in SUBSET StateDir, f \in {"none", "open", "insert", "offset"} : Bootstrap(w, f)
    \/ \E f \in {"none", "insert", "offset"} : Poll(f)
    \/ Drain
    \/ \E p \in Page : Listen(p) \/ StreamDrops(p) \/ AskEvents(p) \/ ShowEvents(p) \/ Receive(p)
    \/ \E p \in Page, r \in BOOLEAN : ReadEvents(p, r)

FeedSpec == FeedInit /\ [][FeedNext]_feedVars

(***************************************************************************)
(* Properties                                                              *)
(***************************************************************************)
Of(s) == {s[i] : i \in DOMAIN s}

\* A console that found an environment never feeds itself invented events: whatever fails at
\* startup, the synthetic feeder and its fixtures stay out of that environment's store, of the
\* stream and of what is waiting to be sent.
NeverFeedsInvented ==
    found => \A l \in Of(stored) \cup Of(batch) \cup Of(waiting) : l.by # "demo"

\* The history of a live bus outlives the process whenever the environment names a place for
\* it: no failure to create one is turned into a session that forgets.
HistoryIsKept == mode = "live" /\ named # {} => storeDir \in named

\* Nothing a page was sent live is missing from the store: a row that has scrolled away, or a
\* page that reloads, can be found again.
LiveIsStored ==
    \A p \in Page :
      LET held == Of(shown[p]) \cup Of(ring[p].q)
      IN  \A r \in held : r.key < 0 => r.line \in Of(stored)

\* No two rows of a page have one key, so the sort puts each at one place; and the list that is
\* cut at FetchLimit holds the live rows, newest first, and then the store's, newest first, so
\* what is cut off is always the oldest.
RowsKeepTheirPlace ==
    \A p \in Page : \A i, j \in DOMAIN shown[p] :
      i < j => LET r == shown[p][i]
                   s == shown[p][j]
               IN  /\ Above(r, s) \/ Above(s, r)
                   /\ r.key > 0 => s.key > 0 /\ r.key > s.key
                   /\ r.key < 0 /\ s.key < 0 => r.key < s.key

\* "grouped rows still read newest-first" (BusExplorer.tsx:54).
\* It does not hold: keys of live rows count down from -1, so the sort puts every row off the
\* stream below the store's, and the oldest of them first.
NewestOnTop ==
    \A p \in Page : \A i, j \in DOMAIN shown[p] :
      shown[p][i].line.n > shown[p][j].line.n => Above(shown[p][i], shown[p][j])

\* On a console that found its environment, every row a page shows is one a product wrote: a
\* fabricated stream is never presented in the place of an environment's own.
\* It does not hold: recent_events answers with the mock rows when the store cannot be read.
LiveShowsOnlyReal ==
    found => \A p \in Page : \A r \in Of(shown[p]) : r.line.by = "product"

\* What reaches the pages live is what the bus was given and keeps: nothing invented is fed
\* to a found environment, its history has a place, a row sent live is stored, and every row
\* of a page has a key of its own and is dropped only after all that are older (bus/mod.rs,
\* feed.rs, BusExplorer.tsx).
FeedIsTheBus ==
    /\ NeverFeedsInvented
    /\ HistoryIsKept
    /\ LiveIsStored
    /\ RowsKeepTheirPlace
=============================================================================
