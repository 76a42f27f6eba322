------------------------------- MODULE BusLog -------------------------------
(***************************************************************************)
(* What the event bus promises the rest of the console, without files,      *)
(* offsets, ticks or crashes: a line a product has completed is known to    *)
(* the store sooner or later, nothing else ever is, and a known line only   *)
(* leaves the tables by the retention horizon.  BusIngest implements it     *)
(* (crates/core/src/ingest.rs, crates/core/src/store.rs).                   *)
(***************************************************************************)
CONSTANT Message     \* a line at its place in a stream

VARIABLES
    published,  \* the lines completed by a product
    stored,     \* the lines with a row: an event, or a quarantined record
    forgotten   \* the lines whose row the retention horizon took

vars == <<published, stored, forgotten>>

Init == published = {} /\ stored = {} /\ forgotten = {}

\* A product completes a line.
Publish ==
    /\ \E m \in Message : published' = published \cup {m}
    /\ UNCHANGED <<stored, forgotten>>

\* The console commits rows for published lines, one or a batch; a line that is
\* stored already, or was forgotten, may be stored once more.
Record ==
    /\ stored \subseteq stored' /\ stored' \subseteq stored \cup published
    /\ UNCHANGED <<published, forgotten>>

\* The retention horizon takes rows; a line with a second row is stored still.
Forget ==
    /\ stored' \subseteq stored
    /\ forgotten \subseteq forgotten' /\ forgotten' \subseteq forgotten \cup stored
    /\ stored \subseteq stored' \cup forgotten'
    /\ UNCHANGED published

Next == Publish \/ Record \/ Forget

\* Nothing published stays unknown.
Delivered == \A m \in Message : (m \in published) ~> (m \in stored \cup forgotten)

Safety == Init /\ [][Next]_vars
Spec   == Safety /\ Delivered
=============================================================================
