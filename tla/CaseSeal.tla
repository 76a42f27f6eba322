------------------------------ MODULE CaseSeal ------------------------------
(***************************************************************************)
(* A case is what the console can say about one incident: nine sections,   *)
(* three from its own store and six from planes asked side by side         *)
(* (crates/api/src/case).  case_seal assembles the case again, asks for    *)
(* the named proofs again, puts both with the operator's decision in one   *)
(* canonical document, journals the document's digest and then stores the  *)
(* document under it; case_pack reads one back (crates/api/src/seal).      *)
(* remedy_check says what may be done about the incident                   *)
(* (crates/api/src/remedy).                                                *)
(*                                                                         *)
(* A source holds rows about the incident, holds nothing, or does not      *)
(* answer, and may turn while a case is being assembled.  A digest is the  *)
(* document it is taken of: sha256 is injective here.                      *)
(***************************************************************************)
EXTENDS Naturals, FiniteSets

CONSTANTS
    Sealing,   \* requests to seal
    MaxTurns,  \* times a source's state changes
    MaxDeaths, \* deaths of the console
    MaxAlter,  \* times somebody alters a stored file
    LastSecond \* the clock's bound: sealed_at is in whole seconds

\* The store's three reads, each of which may fail by itself, and the planes.
StoreRead == {"store", "timeline", "similar"}
Source == StoreRead \cup {"money", "identities", "alerts", "policy", "approvals", "memory"}
Standing == {"rows", "nothing", "down"}

VARIABLES
    incident,  \* the event row: who it is filed under, whether it names a run, its class
    standing,  \* per source, what it would answer now
    journal,   \* whether the bus can be appended to
    sealing,   \* per request: phase, questions still out, what each source said, the pack
    chained,   \* digests with a console.case_close line
    packs,     \* the stored files: digest to text
    temps,     \* digests with a temporary file of this pid
    handed,    \* what case_pack gave: digest and text
    advised,   \* what remedy_check answered, once
    second, turns, ends, alterations

caseVars == <<incident, standing, journal, sealing, chained, packs, temps, handed, advised,
              second, turns, ends, alterations>>

(***************************************************************************)
(* What to ask                                                             *)
(***************************************************************************)
Section == {"event", "run_timeline", "spend", "identity", "blast_radius", "policy",
            "decisions", "similar", "rulings"}

\* Mutant: the envelope's agent is asked about whatever the event is.
NotAskedByEnvelope == IF incident.run THEN {} ELSE {"run_timeline", "spend", "decisions"}

\* questions_for: an incident filed under a key is not asked of the agent it claimed, one
\* without a run is not asked what its run did.
NotAsked ==
    (IF incident.filedUnder = "key" THEN {"identity", "blast_radius"} ELSE {}) \cup
    (IF incident.run THEN {} ELSE {"run_timeline", "spend", "decisions"})

\* The planes' questions; the alert list is asked after an identity was found.
FirstQuestions ==
    {"policy", "memory"} \cup
    (IF "identity" \in NotAsked THEN {} ELSE {"identities"}) \cup
    (IF "spend" \in NotAsked THEN {} ELSE {"money"}) \cup
    (IF "decisions" \in NotAsked THEN {} ELSE {"approvals"})

\* The source whose answer makes each section's line.
SourceOf ==
    [s \in Section |->
        CASE s = "event" -> "store"
          [] s = "run_timeline" -> "timeline"
          [] s = "similar" -> "similar"
          [] s = "spend" -> "money"
          [] s \in {"identity", "blast_radius"} -> "identities"
          [] s = "policy" -> "policy"
          [] s = "decisions" -> "approvals"
          [] s = "rulings" -> "memory"]

\* Mutant: a plane that cannot be read is one that holds nothing.
LineOfSilence(s, said) ==
    IF s \in NotAsked THEN "not_asked"
    ELSE IF said[SourceOf[s]] = "rows" THEN "answered" ELSE "empty"

\* assemble: one line per section whatever was gathered.
Line(s, said) ==
    IF s \in NotAsked THEN "not_asked"
    ELSE CASE said[SourceOf[s]] = "rows" -> "answered"
           [] said[SourceOf[s]] = "nothing" -> "empty"
           [] OTHER -> "unavailable"

\* The notes the console adds to a line that is true and partial.
Note(said) == IF said["alerts"] = "down" THEN {"identity"} ELSE {}

\* The alert count in the blast radius row: the rows that were read, none when none could be.
AlertCount(said) == IF said["alerts"] = "rows" THEN 1 ELSE 0

Case(said) ==
    [lines |-> [s \in Section |-> Line(s, said)],
     notes |-> Note(said),
     alerts |-> AlertCount(said),
     said |-> said]

(***************************************************************************)
(* Sealing                                                                 *)
(***************************************************************************)
Silent == [s \in Source |-> "unasked"]
NoPack == [case |-> Case(Silent), proofs |-> "none", at |-> 0]
NewSeal == [phase |-> "idle", out |-> {}, said |-> Silent, pack |-> NoPack, stored |-> FALSE]

IncidentClass == {"spend", "loop", "policy", "approval", "data", "quality", "identity",
                  "unclassified"}

CaseInit ==
    /\ incident \in {i \in [filedUnder : {"agent", "key"}, run : BOOLEAN,
                            class : IncidentClass] :
                        i.filedUnder = "key" <=> i.class = "identity"}
    /\ standing = [s \in Source |-> "rows"]
    /\ journal \in BOOLEAN
    /\ sealing = [j \in Sealing |-> NewSeal]
    /\ chained = {} /\ packs = [d \in {} |-> NoPack] /\ temps = {}
    /\ handed = {} /\ advised = {}
    /\ second = 0 /\ turns = 0 /\ ends = 0 /\ alterations = 0

world == <<incident, standing, journal, second, turns, ends, alterations>>
shelf == <<chained, packs, temps, handed, advised>>

\* event_id_of, Store::open and event_by_id: a case starts from an event row or not at all.
Readable == standing["store"] = "rows"

\* store_sections: the row, the run's events and the like incidents, each read by a query of
\* its own before the first plane is asked.
StoreSections(said) == [s \in Source |-> IF s \in StoreRead THEN standing[s] ELSE said[s]]

\* case_seal_at up to the first await: the decision is checked, the store read and closed.  The
\* time sealed_at names is taken before the case is read.
Begin(j, wellFormed) ==
    /\ sealing[j].phase = "idle"
    /\ sealing' = [sealing EXCEPT ![j] =
         IF ~wellFormed THEN [@ EXCEPT !.phase = "refused"]
         ELSE IF ~Readable THEN [@ EXCEPT !.phase = "no_case"]
         ELSE [@ EXCEPT !.phase = "asking", !.out = FirstQuestions,
                        !.said = StoreSections(sealing[j].said), !.pack.at = second]]
    /\ UNCHANGED <<world, shelf>>

\* One plane answers; the five questions are out at once and end in any order.
Answer(j, q) ==
    /\ sealing[j].phase = "asking" /\ q \in sealing[j].out
    /\ sealing' = [sealing EXCEPT
         ![j].said[q] = standing[q],
         ![j].out = (sealing[j].out \ {q}) \cup
                    (IF q = "identities" /\ standing[q] = "rows" THEN {"alerts"} ELSE {})]
    /\ UNCHANGED <<world, shelf>>

\* run_proofs, asked for one after the other once the case is whole: each is made or is sealed
\* as the cause it could not be.
Prove(j, result) ==
    /\ sealing[j].phase = "asking" /\ sealing[j].out = {}
    /\ sealing' = [sealing EXCEPT ![j].phase = "proved",
                                  ![j].pack.case = Case(sealing[j].said),
                                  ![j].pack.proofs = result]
    /\ UNCHANGED <<world, shelf>>

\* Mutant: the pack is stored whether or not its line was written.
JournaledOrNot == {"storing"}

\* What follows the append: a seal that cannot be journaled stores nothing.
Journaled == IF journal THEN {"storing"} ELSE {"not_journaled"}

\* build_pack, seal_value and record_console_action.  A pack with an inexact integer or of more
\* than a mebibyte is refused.
Journal(j, canonical) ==
    /\ sealing[j].phase = "proved"
    /\ UNCHANGED <<world, packs, temps, handed, advised>>
    /\ IF ~canonical
       THEN /\ sealing' = [sealing EXCEPT ![j].phase = "unsealed"]
            /\ UNCHANGED chained
       ELSE /\ \E p \in Journaled : sealing' = [sealing EXCEPT ![j].phase = p]
            /\ chained' = IF journal THEN chained \cup {sealing[j].pack} ELSE chained

Finish(j, stored) == sealing' = [sealing EXCEPT ![j].phase = "sealed", ![j].stored = stored]

\* Mutant: a temporary file of this very document is as good as the document.
TempCountsAsStored == TRUE

\* create_new on a temporary file that is there is an error.
ExistingTempIsStored == FALSE

\* store_pack up to the temporary file.
Place(j) ==
    LET d == sealing[j].pack
    IN  /\ sealing[j].phase = "storing"
        /\ UNCHANGED <<world, chained, packs, handed, advised>>
        /\ CASE d \in DOMAIN packs -> Finish(j, packs[d] = d) /\ UNCHANGED temps
             [] d \notin DOMAIN packs /\ d \in temps ->
                    Finish(j, ExistingTempIsStored) /\ UNCHANGED temps
             [] OTHER -> /\ temps' = temps \cup {d}
                         /\ sealing' = [sealing EXCEPT ![j].phase = "placed"]

\* The text is written, synced and renamed into place, or the temporary file is removed.
Rename(j, ok) ==
    LET d == sealing[j].pack
    IN  /\ sealing[j].phase = "placed"
        /\ temps' = temps \ {d}
        /\ packs' = IF ok THEN [k \in DOMAIN packs \cup {d} |-> IF k = d THEN d ELSE packs[k]]
                    ELSE packs
        /\ Finish(j, ok)
        /\ UNCHANGED <<world, chained, handed, advised>>

\* Mutant: the file is handed back when it parses as a pack.
VerifyByForm(d, text) == TRUE

\* verify: the text is canonical, of this format and hashes to the digest.
Verify(d, text) == text = d

\* case_pack.
ReadBack(d) ==
    /\ d \in DOMAIN packs /\ Verify(d, packs[d])
    /\ handed' = handed \cup {<<d, packs[d]>>}
    /\ UNCHANGED <<world, sealing, chained, packs, temps, advised>>

(***************************************************************************)
(* Remedies                                                                *)
(***************************************************************************)
Remedy == {"policy_candidate", "budget_limit", "stop_agent", "revoke_delegation"}

\* offered, per class.
Offered(class) ==
    CASE class \in {"spend", "loop"} -> {"budget_limit", "stop_agent"}
      [] class \in {"policy", "approval", "data"} -> {"policy_candidate", "stop_agent"}
      [] class = "quality" -> {"stop_agent"}
      [] OTHER -> {}

\* remedy_check_in: a candidate is proved or the proof failed, an act on one subject is
\* unproven; the route is named and nothing is applied.
Advise(r, proved) ==
    /\ Readable
    /\ advised = {}
    /\ advised' = {[remedy |-> r, fits |-> r \in Offered(incident.class),
                    proof |-> IF r \in {"stop_agent", "revoke_delegation"} THEN "unproven"
                              ELSE IF proved THEN "proved" ELSE "failed"]}
    /\ UNCHANGED <<world, sealing, chained, packs, temps, handed>>

(***************************************************************************)
(* The world                                                               *)
(***************************************************************************)
\* A source gains or loses rows, stops or starts answering.  The row is there, and a run it
\* names has it in its timeline.
Turn(s, to) ==
    /\ turns < MaxTurns /\ to # standing[s] /\ (s \in {"store", "timeline"} => to = "down")
    /\ standing' = [standing EXCEPT ![s] = to]
    /\ turns' = turns + 1
    /\ UNCHANGED <<incident, journal, sealing, shelf, second, ends, alterations>>

PassSecond ==
    /\ second < LastSecond
    /\ second' = second + 1
    /\ UNCHANGED <<incident, standing, journal, sealing, shelf, turns, ends, alterations>>

\* The console dies: requests in flight are gone, their temporary files are not.
Die ==
    /\ ends < MaxDeaths
    /\ ends' = ends + 1
    /\ sealing' = [j \in Sealing |->
         IF sealing[j].phase \in {"asking", "proved", "storing", "placed"}
         THEN [sealing[j] EXCEPT !.phase = "lost"] ELSE sealing[j]]
    /\ UNCHANGED <<incident, standing, journal, shelf, second, turns, alterations>>

\* Somebody with the disk alters a stored file.
Alter(d) ==
    /\ alterations < MaxAlter /\ d \in DOMAIN packs
    /\ packs' = [packs EXCEPT ![d] = [@ EXCEPT !.proofs = "altered"]]
    /\ alterations' = alterations + 1
    /\ UNCHANGED <<incident, standing, journal, sealing, chained, temps, handed, advised,
                   second, turns, ends>>

CaseNext ==
    \/ \E j \in Sealing, ok \in BOOLEAN : Begin(j, ok) \/ Journal(j, ok) \/ Rename(j, ok)
    \/ \E j \in Sealing, q \in Source : Answer(j, q)
    \/ \E j \in Sealing, result \in {"proof", "error"} : Prove(j, result)
    \/ \E j \in Sealing : Place(j)
    \/ \E d \in DOMAIN packs : ReadBack(d) \/ Alter(d)
    \/ \E r \in Remedy, proved \in BOOLEAN : Advise(r, proved)
    \/ \E s \in Source, to \in Standing : Turn(s, to)
    \/ PassSecond
    \/ Die

CaseSpec == CaseInit /\ [][CaseNext]_caseVars

(***************************************************************************)
(* Properties                                                              *)
(***************************************************************************)
Assembled == {sealing[j].pack.case : j \in {k \in Sealing :
                  sealing[k].phase \in {"proved", "storing", "placed", "sealed"}}}

\* Whatever dies or fails on the way, a stored document has its line in the chain: no file
\* claims to have been sealed and was not.
FileHasLine == DOMAIN packs \subseteq chained

\* An answer that says the pack was stored is true of the shelf, two seals of one second and a
\* console that died in the first of them included.
StoredMeansStored ==
    \A j \in Sealing : sealing[j].stored => sealing[j].pack \in DOMAIN packs

\* What case_pack hands back is the document that was sealed, however the file was altered.
HandedBackIsSealed == \A h \in handed : h[2] = h[1] /\ h[1] \in chained

\* A plane that did not answer is never a line that reads "holds nothing", and a line that
\* holds facts is one its plane answered when it was asked.
SilenceIsNamed ==
    \A c \in Assembled : \A s \in Section :
      /\ c.lines[s] = "empty" => c.said[SourceOf[s]] = "nothing"
      /\ c.lines[s] = "answered" => c.said[SourceOf[s]] = "rows"

\* The agent an identity refusal claimed is charged with nothing: no plane is asked about it
\* and no act on it is offered.
ClaimedIsNeverCharged ==
    incident.filedUnder = "key" =>
      /\ \A j \in Sealing : sealing[j].said["identities"] = "unasked"
                            /\ sealing[j].said["alerts"] = "unasked"
      /\ \A a \in advised : ~a.fits

\* A zero in the blast radius is a zero somebody counted, or its line says otherwise.
\* It does not hold: the alerts' plane may be down
\* while the radius is answered.
NoSilentZero ==
    \A c \in Assembled :
      c.lines["blast_radius"] = "answered" /\ c.alerts = 0 =>
        c.said["alerts"] = "nothing" \/ "blast_radius" \in c.notes

\* A sealed case is what was assembled and says what was known: no file without its line,
\* no "stored" without the file, no altered document handed back, no silent plane read as
\* an empty one and nobody charged with a refused claim (case/commands.rs, case/mod.rs,
\* seal/commands.rs, remedy/commands.rs).
SealedIsTrue ==
    /\ FileHasLine
    /\ StoredMeansStored
    /\ HandedBackIsSealed
    /\ SilenceIsNamed
    /\ ClaimedIsNeverCharged
=============================================================================
