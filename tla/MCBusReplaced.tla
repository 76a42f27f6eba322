--------------------------- MODULE MCBusReplaced ---------------------------
(***************************************************************************)
(* BusIngest with files that are replaced, in two scenes: "chaos" is every  *)
(* trouble at once; "down" lets files be replaced only while the console is *)
(* down, and keeps the lines decodable, the store sound and the first poll  *)
(* prompt.                                                                  *)
(***************************************************************************)
EXTENDS MCBusIngest

VARIABLE scene

Down == INSTANCE BusIngest WITH
    Line <- {event, event2}, Conforming <- {event, event2}, Lossy <- {},
    MaxReplace <- 2, MaxCrashes <- 2, MaxFaults <- 0,
    LiveReplace <- FALSE, RegisterRace <- FALSE

Chaos == INSTANCE BusIngest WITH
    Line <- {event, lossy}, Conforming <- {lossy}

ScenesNext ==
    /\ UNCHANGED scene
    /\ \/ scene = "chaos" /\ Chaos!Next
       \/ scene = "down" /\ Down!Next

ScenesSpec ==
    /\ Init /\ scene \in {"chaos", "down"}
    /\ [][ScenesNext]_<<vars, scene>>
    /\ WF_<<vars, scene>>(ConsoleStep /\ UNCHANGED scene)

\* A file truncated, removed and recreated while the console is down, under a reused
\* inode too, is never resumed at its predecessor's offset: add_file_source goes by the
\* inode and by head_fingerprint, and as long as the fingerprint spans what was consumed
\* the two together leave no line out.
ReplacedWhileDownIsRead == scene = "down" => NothingLost /\ ResumeIsSafe
=============================================================================
