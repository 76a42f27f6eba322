---------------------------- MODULE EvidencePack ----------------------------
(***************************************************************************)
(* The Evidence Center: evidence_build gathers six artifacts from four      *)
(* tools, one after another, and hands back one zip with a manifest, signed *)
(* when the console holds a paired device, and journals it.  A tool that    *)
(* fails is recorded as missing.  The FOCUS export goes through a temporary *)
(* file named by the process id and a counter, so a console that died       *)
(* between the export and the read leaves one that its successor, under the *)
(* same process id, names again.                                            *)
(***************************************************************************)
EXTENDS Naturals, Sequences, FiniteSets

CONSTANTS
    Build,      \* concurrent calls of evidence_build
    Requests,   \* the sets of tools an operator ticks
    MaxEdits,   \* changes of what a tool would answer
    MaxDeaths,  \* deaths of the console
    Nothing     \* no file, no pack

ASSUME EvidenceAssumption ==
    /\ Nothing \notin Nat
    /\ \A want \in Requests : want \subseteq {"cloud", "qryx", "idryx", "tokenfuse"}

\* The artifacts in the order build_evidence_pack gathers them, and the tool of each.
Order == <<"compliance", "audit", "crypto", "cbom", "bom", "focus">>
Artifact == {Order[i] : i \in 1..6}
Tool == {"cloud", "qryx", "idryx", "tokenfuse"}
ToolOf == [compliance |-> "cloud", audit |-> "cloud", crypto |-> "qryx",
           cbom |-> "qryx", bom |-> "idryx", focus |-> "tokenfuse"]

VARIABLES
    money,      \* is the Money plane Ready, with its paired client
    resolved,   \* the tools whose binary was found at start
    removable,  \* can the console remove the temporary files
    edition,    \* how often the answer of each tool has changed
    build,      \* the calls
    temp,       \* temporary file: Nothing or the edition its export was of
    fresh,      \* the counter behind the names of temporary files
    journal,    \* the rows console.evidence_built
    deaths

packVars == <<money, resolved, removable, edition, build, temp, fresh, journal, deaths>>

Names == 0..(2 * Cardinality(Build))
NotBegun == [at |-> 0, request |-> Nothing, since |-> Nothing,
             got |-> {}, missing |-> {}, path |-> Nothing, pack |-> Nothing]

PackInit ==
    /\ money \in BOOLEAN
    /\ resolved \in SUBSET {"qryx", "idryx", "tokenfuse"}
    /\ removable \in BOOLEAN
    /\ edition = [t \in Tool |-> 0]
    /\ build = [b \in Build |-> NotBegun]
    /\ temp = [n \in Names |-> Nothing]
    /\ fresh = 0 /\ journal = {} /\ deaths = 0

(* The next artifact after the i-th of a tool that was asked for: a source that was not
   asked for leaves no trace in the pack.  7: all are gathered. *)
After(i, wants) ==
    LET rest == {j \in (i + 1)..6 : ToolOf[Order[j]] \in wants}
    IN  IF rest = {} THEN 7 ELSE CHOOSE j \in rest : \A k \in rest : j <= k

(* What is gathered: the Cloud is asked only with Money's own client.  Nothing in the
   manifest says that it was ticked and not asked. *)
Effective(request) == IF request.paired THEN request.asked ELSE request.asked \ {"cloud"}

(* A build of these tools, before its first artifact.  Money is looked at once. *)
Begun(asked) ==
    LET request == [asked |-> asked, paired |-> money]
    IN  [at |-> After(0, Effective(request)), request |-> request, since |-> edition,
         got |-> {}, missing |-> {}, path |-> Nothing, pack |-> Nothing]

(* evidence_build up to the call of build_evidence_pack. *)
Begin(b) ==
    /\ build[b] = NotBegun
    /\ \E asked \in Requests : build' = [build EXCEPT ![b] = Begun(asked)]
    /\ UNCHANGED <<money, resolved, removable, edition, temp, fresh, journal, deaths>>

Current(b) == Order[build[b].at]
Gathering(b) == build[b].at \in 1..6
Further(b) == After(build[b].at, Effective(build[b].request))

Artifacts(b, e) == build[b].got \cup {[of |-> Current(b), edition |-> e]}

(* compliance_evidence, audit_verify, the qryx scans and idryx bom: the bytes as
   the tool answered them. *)
Gather(b) ==
    /\ Gathering(b) /\ Current(b) # "focus"
    /\ ToolOf[Current(b)] \in resolved \cup {"cloud"}
    /\ build' = [build EXCEPT ![b].at = Further(b),
                              ![b].got = Artifacts(b, edition[ToolOf[Current(b)]])]
    /\ UNCHANGED <<money, resolved, removable, edition, temp, fresh, journal, deaths>>

\* Mutant: a tool that was never resolved is left out without a word.
AbsentUnresolved(b) ==
    build[b].missing \cup {s \in {Current(b)} : ToolOf[s] \in resolved \cup {"cloud"}}

(* An error of the tool, or the sentinel that stands for a tool never resolved. *)
Absent(b) == build[b].missing \cup {Current(b)}
GatherFails(b) ==
    /\ Gathering(b) /\ build[b].path = Nothing
    /\ build' = [build EXCEPT ![b].at = Further(b), ![b].missing = Absent(b)]
    /\ UNCHANGED <<money, resolved, removable, edition, temp, fresh, journal, deaths>>

\* Mutant: what an earlier export left is not cleared.
ClearedNot(n) == temp[n]

(* What the name of the next temporary file holds when the export starts, and after what
   it held has been read: nothing, unless the file could not be removed, which is ignored. *)
Cleared(n) == IF removable THEN Nothing ELSE temp[n]

(* focus_export up to the end of its child, which exits well with or without having
   written the file.  (A spawn error or a bad exit is GatherFails.) *)
Export(b) ==
    /\ Gathering(b) /\ Current(b) = "focus" /\ "tokenfuse" \in resolved
    /\ build[b].path = Nothing
    /\ fresh \in Names
    /\ fresh' = fresh + 1
    /\ \E written \in {edition["tokenfuse"], Cleared(fresh)} :
         temp' = [temp EXCEPT ![fresh] = written]
    /\ build' = [build EXCEPT ![b].path = fresh]
    /\ UNCHANGED <<money, resolved, removable, edition, journal, deaths>>

(* The file is read back and removed; no file is an error, hence missing. *)
ReadBack(b) ==
    /\ build[b].path # Nothing
    /\ LET held == temp[build[b].path]
       IN  /\ IF held = Nothing
              THEN build' = [build EXCEPT ![b].at = Further(b), ![b].path = Nothing,
                                          ![b].missing = Absent(b)]
              ELSE build' = [build EXCEPT ![b].at = Further(b), ![b].path = Nothing,
                                          ![b].got = Artifacts(b, held)]
           /\ temp' = [temp EXCEPT ![build[b].path] = IF removable THEN Nothing ELSE @]
    /\ UNCHANGED <<money, resolved, removable, edition, fresh, journal, deaths>>

(* NoArtifacts, or a device that could not sign: no pack. *)
NoPack(b) ==
    /\ build[b].at = 7
    /\ build[b].got = {} \/ build[b].request.paired
    /\ build' = [build EXCEPT ![b].at = 9]
    /\ UNCHANGED <<money, resolved, removable, edition, temp, fresh, journal, deaths>>

(* EvidenceManifest::build, the signature, assemble_zip: the manifest lists what was
   gathered and what is missing; without a device the pack is unsigned. *)
Assembled(b, journaled) ==
    [zip |-> build[b].got, artifacts |-> build[b].got, missing |-> build[b].missing,
     signed |-> build[b].request.paired, journaled |-> journaled]

(* journal_build under the client the build began with.  It may fail before its row or
   after it, and says only in the first case rightly that there is none. *)
JournalRow(b) == [build |-> b, zip |-> build[b].got]
Journal(b) ==
    /\ build[b].at = 7 /\ build[b].got # {}
    /\ \E row, journaled \in BOOLEAN :
          /\ row => build[b].request.paired
          /\ journaled => row
          /\ build' = [build EXCEPT ![b].at = 8, ![b].pack = Assembled(b, journaled)]
          /\ journal' = IF row THEN journal \cup {JournalRow(b)} ELSE journal
    /\ UNCHANGED <<money, resolved, removable, edition, temp, fresh, deaths>>

(* The pack is handed back, journaled or not. *)
HandBack(b) ==
    /\ build[b].at = 8
    /\ build' = [build EXCEPT ![b].at = 9]
    /\ UNCHANGED <<money, resolved, removable, edition, temp, fresh, journal, deaths>>

\* The tools' answers change; Money's bootstrap ends; the console dies, and its calls
\* with it, also one that is journaled and not answered; the counter starts again and the
\* temporary files stay.
Edit(t) ==
    /\ edition[t] < MaxEdits
    /\ edition' = [edition EXCEPT ![t] = @ + 1]
    /\ UNCHANGED <<money, resolved, removable, build, temp, fresh, journal, deaths>>
Paired ==
    /\ ~money /\ money' = TRUE
    /\ UNCHANGED <<resolved, removable, edition, build, temp, fresh, journal, deaths>>
AfterDeath(b) ==
    IF build[b].at = 9 THEN build[b]
    ELSE IF build[b].at = 8 THEN [build[b] EXCEPT !.at = 9, !.pack = Nothing]
    ELSE NotBegun
Die ==
    /\ deaths < MaxDeaths
    /\ deaths' = deaths + 1 /\ fresh' = 0 /\ money' = FALSE
    /\ build' = [b \in Build |-> AfterDeath(b)]
    /\ UNCHANGED <<resolved, removable, edition, temp, journal>>

PackNext ==
    \/ \E b \in Build : \/ Begin(b) \/ Gather(b) \/ GatherFails(b) \/ Export(b)
                        \/ ReadBack(b) \/ NoPack(b) \/ Journal(b) \/ HandBack(b)
    \/ \E t \in Tool : Edit(t)
    \/ Paired \/ Die

PackSpec == PackInit /\ [][PackNext]_packVars

-----------------------------------------------------------------------------
(* A pack states what it contains: each artifact of a tool that was ticked is in the *)
(* zip and hashed in the manifest or named missing, never both, all but those of the *)
(* Cloud in an unsigned pack, and none of a tool that was not ticked; its bytes are   *)
(* an answer the tool gave while this build ran, never a file left by another (of the *)
(* FOCUS export as far as temporary files can be removed); a pack said to be          *)
(* journaled has its row, and the rows of a build are of its pack, which is signed.   *)
PackIsWhatItSays ==
    \A b \in Build : build[b].pack # Nothing =>
        LET p == build[b].pack
            held == {a.of : a \in p.artifacts}
        IN  /\ held \cup p.missing =
                  {s \in Artifact : /\ ToolOf[s] \in build[b].request.asked
                                    /\ ToolOf[s] = "cloud" => p.signed}
            /\ held \cap p.missing = {}
            /\ p.zip = p.artifacts
            /\ \A a \in p.artifacts : a.of # "focus" \/ removable =>
                 a.edition \in build[b].since[ToolOf[a.of]]..edition[ToolOf[a.of]]
            /\ p.journaled => \E row \in journal : row.build = b
            /\ \A row \in journal : row.build = b => row.zip = p.zip /\ p.signed

(* "A source that was requested but could not be included, recorded honestly in the   *)
(* manifest" (core/evidence.rs:92-93; 23-26: "NOT silently dropped").                  *)
(* It does not hold: the Cloud ticked while Money is not Ready is not in the manifest, *)
(* the answer's cloud_included alone says so.                                          *)
NothingIsDropped ==
    \A b \in Build : build[b].pack # Nothing =>
        {a.of : a \in build[b].pack.artifacts} \cup build[b].pack.missing
            = {s \in Artifact : ToolOf[s] \in build[b].request.asked}
=============================================================================
