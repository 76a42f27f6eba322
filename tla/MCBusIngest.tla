---------------------------- MODULE MCBusIngest ----------------------------
(***************************************************************************)
(* Small instances of BusIngest for TLC.  The cfg files name the streams    *)
(* and the lines as model values; a line is named for what the console      *)
(* makes of it: an event, one from another source, one with a byte that is  *)
(* not UTF-8, one past the retention horizon.                               *)
(***************************************************************************)
EXTENDS BusIngest

CONSTANTS stream, pinnedStream, event, event2, foreign, lossy, aged

OneStream == {stream}
TwoStreams == {stream, pinnedStream}

(***************************************************************************)
(* Streams that only grow and a store that does not fail: Next without the  *)
(* steps for which MaxReplace = 0 and MaxFaults = 0 leave no room.          *)
(***************************************************************************)
GrowingNext ==
    \/ \E f \in File : Create(f) \/ AppendHalf(f) \/ \E l \in Line : Append_(f, l)
    \/ ConsoleStep
    \/ Crash

GrowingSpec == Init /\ [][GrowingNext]_vars /\ WF_vars(ConsoleStep)
=============================================================================
