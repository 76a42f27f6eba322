-------------------------- MODULE BusIngestProofs --------------------------
(***************************************************************************)
(* Theorems about BusIngest, for every number of streams, lines, crashes    *)
(* and ticks.                                                               *)
(***************************************************************************)
EXTENDS BusIngest, TLAPS

\* Subsequences and appends stay sequences of keys.
LEMMA KeyTyping ==
    ASSUME TypeOK, NEW f \in File, NEW i \in 1..Len(lines[f])
    PROVE  KeyAt(f, i) \in Key
  <1>1. lines[f] \in Seq(Line) /\ i \in Nat /\ i >= 1
    BY DEF TypeOK
  <1>2. lines[f][i] \in Line
    BY <1>1
  <1>3. LineBytes * (i - 1) \in Nat
    BY <1>1 DEF LineBytes
  <1> QED  BY <1>2, <1>3 DEF KeyAt, Key

\* The fingerprint head_fingerprint computes is a sequence of lines.
LEMMA HeadTyping ==
    ASSUME TypeOK, NEW f \in File, NEW off \in Nat
    PROVE  HeadFingerprint(f, off) \in Seq(Line)
  <1>1. lines[f] \in Seq(Line)
    BY DEF TypeOK
  <1>2. CASE off = 0 \/ f \notin present \/ FileBytes(f) < off
    BY <1>2 DEF HeadFingerprint
  <1>3. CASE ~(off = 0 \/ f \notin present \/ FileBytes(f) < off)
    <2> DEFINE n == IF off \div LineBytes < HeadLines THEN off \div LineBytes ELSE HeadLines
    <2>0. HeadLines \in Nat /\ half[f] \in {0, 1}
      BY ConstantsAssumption DEF TypeOK
    <2>a. Len(lines[f]) \in Nat
      BY <1>1
    <2>c. ~(FileBytes(f) < off)
      BY <1>3
    <2>1. off <= 2 * Len(lines[f]) + 1
      BY <2>0, <2>a, <2>c DEF FileBytes, LineBytes
    <2>2. off \div LineBytes \in 0..Len(lines[f])
      BY <2>a, <2>1 DEF LineBytes
    <2>3. n \in 0..Len(lines[f])
      BY <2>0, <2>2
    <2>4. SubSeq(lines[f], 1, n) \in Seq(Line)
      BY <1>1, <2>3
    <2> QED  BY <1>3, <2>4 DEF HeadFingerprint
  <1> QED  BY <1>2, <1>3

\* One step of the reader, a product or a failure keeps the shape of the state.
LEMMA TypeStep == TypeOK /\ [Next]_vars => TypeOK'
  <1> USE DEF disk, store, console, bounds
  <1> SUFFICES ASSUME TypeOK, [Next]_vars PROVE TypeOK'
    OBVIOUS
  <1>1. ASSUME NEW f \in File, Create(f) PROVE TypeOK'
    <2>1. inode' \in [File -> Nat]
      <3>1. inode' = [inode EXCEPT ![f] = @ + 1] \/ inode' = inode
        BY <1>1 DEF Create
      <3>2. inode \in [File -> Nat]
        BY DEF TypeOK
      <3>3. CASE inode' = [inode EXCEPT ![f] = @ + 1]
        BY <3>2, <3>3
      <3> QED  BY <3>1, <3>2, <3>3
    <2>2. /\ present' \subseteq File /\ lines' \in [File -> Seq(Line)]
          /\ half' \in [File -> {0, 1}]
      BY <1>1 DEF TypeOK, Create
    <2> QED  BY <1>1, <2>1, <2>2 DEF TypeOK, Create
  <1>2. ASSUME NEW f \in File, NEW l \in Line, Append_(f, l) PROVE TypeOK'
    <2>1. lines[f] \in Seq(Line) /\ Append(lines[f], l) \in Seq(Line)
      BY DEF TypeOK
    <2>2. [file |-> f, off |-> LineBytes * Len(lines[f]), line |-> l] \in Key
      BY <2>1 DEF Key, LineBytes
    <2> QED  BY <1>2, <2>1, <2>2 DEF TypeOK, Append_
  <1>3. ASSUME NEW f \in File, AppendHalf(f) PROVE TypeOK'
    BY <1>3 DEF TypeOK, AppendHalf
  <1>4. ASSUME NEW f \in File, Truncate(f) PROVE TypeOK'
    BY <1>4 DEF TypeOK, Truncate, MayReplace
  <1>5. ASSUME NEW f \in File, Remove(f) PROVE TypeOK'
    BY <1>5 DEF TypeOK, Remove, MayReplace
  <1>6. ASSUME Boot PROVE TypeOK'
    <2>1. quar \in Seq(Key) /\ events \subseteq Key /\ pruned \subseteq Key
      BY DEF TypeOK
    <2>2. ASSUME NEW n \in 0..Len(quar)
          PROVE  SubSeq(quar, n + 1, Len(quar)) \in Seq(Key)
      <3>1. Len(quar) \in Nat
        BY <2>1
      <3> QED  BY <2>1, <2>2, <3>1
    <2>3. ASSUME NEW n \in 0..Len(quar)
          PROVE  {quar[i] : i \in 1..n} \subseteq Key
      BY <2>1, <2>3
    <2>4. ASSUME PruneHistory
          PROVE  events' \subseteq Key /\ quar' \in Seq(Key) /\ pruned' \subseteq Key
      <3>1. PICK n \in 0..Len(quar) :
              /\ events' = events \ {k \in events : k.line \in Old}
              /\ quar' = SubSeq(quar, n + 1, Len(quar))
              /\ pruned' = pruned \cup {k \in events : k.line \in Old}
                                 \cup {quar[i] : i \in 1..n}
        <4>1. Len(quar) \in Nat
          BY <2>1
        <4> QED  BY <2>4, <4>1 DEF PruneHistory
      <3> QED  BY <2>1, <2>2, <2>3, <3>1
    <2>5. events' \subseteq Key /\ quar' \in Seq(Key) /\ pruned' \subseteq Key
      BY <1>6, <2>1, <2>4 DEF Boot
    <2>6. faults' \in Nat
      BY <1>6 DEF Boot, Fault, TypeOK
    <2> QED  BY <1>6, <2>5, <2>6 DEF TypeOK, Boot
  <1>7. ASSUME Tick PROVE TypeOK'
    BY <1>7 DEF TypeOK, Tick
  <1>8. ASSUME NEW f \in File, AddFileSource(f) PROVE TypeOK'
    <2>1. ResumeOffset(f) \in Nat
      BY DEF TypeOK, ResumeOffset, SourceState
    <2> QED  BY <1>8, <2>1 DEF TypeOK, AddFileSource
  <1>9. ASSUME StartPoll PROVE TypeOK'
    BY <1>9 DEF TypeOK, StartPoll
  <1>10. ASSUME NEW f \in File, PollSource(f) PROVE TypeOK'
    <2>1. Len(lines[f]) \in Nat /\ EffectiveOffset(f, tail[f]) \in Nat
      BY DEF TypeOK, EffectiveOffset
    <2>2. recs' \subseteq Key
      <3>1. CASE f \in present
        BY <1>10, <3>1, KeyTyping DEF PollSource
      <3>2. CASE f \notin present
        BY <1>10, <3>2 DEF PollSource, TypeOK
      <3> QED  BY <3>1, <3>2
    <2>3. tail' \in [File -> Nat]
      <3>1. tail \in [File -> Nat]
        BY DEF TypeOK
      <3>2. CASE f \in present
        BY <1>10, <2>1, <3>1, <3>2 DEF PollSource, LineBytes
      <3>3. CASE f \notin present
        BY <1>10, <3>1, <3>3 DEF PollSource
      <3> QED  BY <3>2, <3>3
    <2> QED  BY <1>10, <2>2, <2>3 DEF TypeOK, PollSource
  <1>11. ASSUME NEW k \in recs, ConformRecord(k) PROVE TypeOK'
    <2>1. k \in Key /\ toJournal \in [File -> Nat]
      BY DEF TypeOK
    <2>2. k.off + RawBytes(k.line) + 1 \in Nat
      BY <2>1 DEF Key, RawBytes
    <2>3. toJournal' \in [File -> Nat]
      <3>1. PICK next \in Nat : toJournal' = [toJournal EXCEPT ![k.file] = IF @ < next THEN next ELSE @]
        BY <1>11, <2>2 DEF ConformRecord, NoteOffset
      <3> QED  BY <2>1, <3>1
    <2>4. recs' \subseteq Key /\ batch' \subseteq Key
      BY <1>11, <2>1 DEF TypeOK, ConformRecord
    <2> QED  BY <1>11, <2>3, <2>4 DEF TypeOK, ConformRecord
  <1>12. ASSUME NEW k \in recs, QuarantineRecord(k) PROVE TypeOK'
    <2>1. k \in Key /\ quar \in Seq(Key)
      BY DEF TypeOK
    <2>2. Append(quar, k) \in Seq(Key)
      BY <2>1
    <2>3. toJournal' \in [File -> Nat]
      BY <1>12, <2>1 DEF TypeOK, QuarantineRecord, NoteOffset, Key, RawBytes
    <2> QED  BY <1>12, <2>2, <2>3 DEF TypeOK, QuarantineRecord
  <1>13. ASSUME InsertBatch PROVE TypeOK'
    BY <1>13 DEF TypeOK, InsertBatch
  <1>14. ASSUME NEW f \in File, SetOffset(f) PROVE TypeOK'
    <2>1. toJournal[f] \in Nat /\ InodeOf(f) \in Nat
      BY DEF TypeOK, InodeOf
    <2>2. HeadFingerprint(f, toJournal[f]) \in Seq(Line)
      BY <2>1, HeadTyping
    <2> QED  BY <1>14, <2>1, <2>2 DEF TypeOK, SetOffset, SourceState
  <1>15. ASSUME EndTick PROVE TypeOK'
    BY <1>15 DEF TypeOK, EndTick
  <1>16. ASSUME StoreWriteFails PROVE TypeOK'
    BY <1>16 DEF TypeOK, StoreWriteFails, Abandon, Gone, Fault
  <1>21. ASSUME BootFails PROVE TypeOK'
    BY <1>21 DEF TypeOK, BootFails, Gone, Fault
  <1>17. ASSUME Crash PROVE TypeOK'
    BY <1>17 DEF TypeOK, Crash, Gone
  <1>18. ASSUME NEW f \in File, AddFileSourceFails(f) PROVE TypeOK'
    <2>1. CASE stage = "boot"
      BY <1>18, <2>1 DEF TypeOK, AddFileSourceFails, Gone, Fault
    <2>2. CASE stage # "boot"
      BY <1>18, <2>2 DEF TypeOK, AddFileSourceFails, Fault
    <2> QED  BY <2>1, <2>2
  <1>19. ASSUME NEW f \in File, PollSourceFails(f) PROVE TypeOK'
    <2>1. CASE stage = "boot"
      BY <1>19, <2>1 DEF TypeOK, PollSourceFails, Abandon, Gone, Fault
    <2>2. CASE stage # "boot"
      BY <1>19, <2>2 DEF TypeOK, PollSourceFails, Abandon, Fault
    <2> QED  BY <2>1, <2>2
  <1>20. ASSUME UNCHANGED vars PROVE TypeOK'
    BY <1>20 DEF TypeOK, vars
  <1> QED
    BY <1>1, <1>2, <1>3, <1>4, <1>5, <1>6, <1>7, <1>8, <1>9, <1>10, <1>11, <1>12, <1>13,
       <1>14, <1>15, <1>16, <1>17, <1>18, <1>19, <1>20, <1>21
       DEF Next, ProductStep, ConsoleStep, FailureStep

\* Type correctness: whatever the products, the failures and the crashes do, the
\* rows, offsets and records stay what the store's columns and the fields of
\* FileTail and IngestService can hold.
THEOREM TypeCorrect == Spec => []TypeOK
  <1>1. Init => TypeOK
    BY ConstantsAssumption DEF Init, TypeOK, NoRow, SourceState
  <1> QED  BY <1>1, TypeStep, PTL DEF Spec

-----------------------------------------------------------------------------
(***************************************************************************)
(* No line is lost, on a bus whose streams only grow, whose lines are       *)
(* UTF-8 and whose store does not fail: the process may die anywhere.       *)
(***************************************************************************)
Steady == MaxReplace = 0 /\ MaxFaults = 0 /\ Lossy = {}

\* The lines of f before the byte off are in the store, or are in S.
Covered(f, off, S) ==
    \A i \in 1..Len(lines[f]) :
        LineBytes * i <= off => Recorded(KeyAt(f, i)) \/ KeyAt(f, i) \in S

\* A path with no file has no lines; Create then changes no line.
AbsentIsEmpty == \A f \in File \ present : lines[f] = << >>

\* No offset is past the complete lines.
Within ==
    \A f \in File :
        /\ tail[f] <= LineBytes * Len(lines[f])
        /\ journal[f].off <= LineBytes * Len(lines[f])
        /\ toJournal[f] <= LineBytes * Len(lines[f])

\* A record in hand is a line its tail has passed.
InHand ==
    \A k \in recs : \E i \in 1..Len(lines[k.file]) :
        k = KeyAt(k.file, i) /\ LineBytes * i <= tail[k.file]

\* Nothing is in hand outside poll_once's first half.
Settled == pc # "poll" => recs = {} /\ batch = {}

\* What the tail passed is recorded or in hand; what the journal passed is
\* recorded; what poll_once noted is recorded or in the batch.
TailDone == \A f \in File : Covered(f, tail[f], recs \cup batch)
JournalDone == \A f \in File : Covered(f, journal[f].off, {})
NotedDone == \A f \in File : Covered(f, toJournal[f], batch)

SafeInv ==
    /\ AbsentIsEmpty /\ Within /\ InHand /\ Settled
    /\ TailDone /\ JournalDone /\ NotedDone

\* A step never takes a line out of the store's account: prune_history moves it
\* to what the horizon took, everything else only adds.
LEMMA RecordedStays ==
    ASSUME TypeOK, [Next]_vars, NEW k, Recorded(k)
    PROVE  Recorded(k)'
  <1> USE DEF disk, store, console, bounds
  <1>0. quar \in Seq(Key)
    BY DEF TypeOK
  <1>1. CASE UNCHANGED <<events, quar, pruned>>
    BY <1>1 DEF Recorded
  <1>2. ASSUME PruneHistory PROVE Recorded(k)'
    <2>0. Len(quar) \in Nat
      BY <1>0
    <2>1. PICK n \in 0..Len(quar) :
            /\ events' = events \ {e \in events : e.line \in Old}
            /\ quar' = SubSeq(quar, n + 1, Len(quar))
            /\ pruned' = pruned \cup {e \in events : e.line \in Old}
                               \cup {quar[i] : i \in 1..n}
      BY SMTT(20), <1>2, <2>0 DEF PruneHistory
    <2>2. CASE k \in events \/ k \in pruned
      BY <2>1, <2>2 DEF Recorded
    <2>3. ASSUME NEW m \in DOMAIN quar, quar[m] = k PROVE Recorded(k)'
      <3>1. m \in 1..Len(quar)
        BY <1>0
      <3>2. CASE m <= n
        BY <2>1, <2>3, <3>1, <3>2 DEF Recorded
      <3>3. CASE m > n
        <4>1. m - n \in 1..Len(quar')
          BY <1>0, <2>0, <2>1, <3>1, <3>3
        <4>2. quar'[m - n] = quar[m]
          BY <1>0, <2>0, <2>1, <3>1, <3>3
        <4>3. m - n \in DOMAIN quar'
          BY <1>0, <2>0, <2>1, <3>1, <3>3, <4>1
        <4> QED  BY <2>3, <4>2, <4>3 DEF Recorded
      <3> QED  BY <2>0, <3>1, <3>2, <3>3
    <2> QED  BY <2>2, <2>3 DEF Recorded
  <1>3. CASE Boot
    BY <1>1, <1>2, <1>3 DEF Boot
  <1>4. CASE \E r \in recs : QuarantineRecord(r)
    <2>1. PICK r \in recs : quar' = Append(quar, r) /\ UNCHANGED <<events, pruned>>
      BY <1>4 DEF QuarantineRecord
    <2>2. ASSUME NEW m \in DOMAIN quar PROVE m \in DOMAIN quar' /\ quar'[m] = quar[m]
      BY <1>0, <2>1
    <2> QED  BY <2>1, <2>2 DEF Recorded
  <1>5. CASE InsertBatch
    BY <1>5 DEF InsertBatch, Recorded
  <1>6. CASE ProductStep \/ FailureStep \/ UNCHANGED vars
    BY <1>1, <1>6 DEF ProductStep, FailureStep, Create, Append_, AppendHalf, Truncate, Remove,
       BootFails, StoreWriteFails, Crash, AddFileSourceFails, PollSourceFails, Abandon, vars
  <1>7. CASE ConsoleStep
    BY <1>1, <1>3, <1>4, <1>5, <1>7 DEF ConsoleStep, Tick, StartPoll, EndTick, AddFileSource,
       PollSource, SetOffset, ConformRecord
  <1> QED  BY <1>6, <1>7 DEF Next

\* Unless a file is replaced the streams only grow: the lines that are there stay
\* where they are.
LEMMA Growth ==
    ASSUME TypeOK, AbsentIsEmpty, [Next]_vars, ~MayReplace, NEW f \in File
    PROVE  /\ Len(lines[f]) \in Nat /\ Len(lines[f])' \in Nat
           /\ Len(lines[f]) <= Len(lines[f])'
           /\ \A i \in 1..Len(lines[f]) : KeyAt(f, i)' = KeyAt(f, i)
  <1> USE DEF disk, store, console, bounds
  <1>0. lines[f] \in Seq(Line) /\ lines \in [File -> Seq(Line)] /\ Len(lines[f]) \in Nat
    BY DEF TypeOK
  <1>1. CASE lines'[f] = lines[f]
    BY <1>0, <1>1 DEF KeyAt
  <1>2. CASE \E g \in File, l \in Line : Append_(g, l)
    <2>1. PICK g \in File, l \in Line : lines' = [lines EXCEPT ![g] = Append(@, l)]
      BY <1>2 DEF Append_
    <2>2. CASE f # g
      BY <1>0, <1>1, <2>1, <2>2
    <2>3. CASE f = g
      <3>1. lines'[f] = Append(lines[f], l)
        BY <1>0, <2>1, <2>3
      <3>2. Len(lines'[f]) = Len(lines[f]) + 1
        BY <1>0, <3>1
      <3>3. \A i \in 1..Len(lines[f]) : lines'[f][i] = lines[f][i]
        BY <1>0, <3>1
      <3> QED  BY <1>0, <3>2, <3>3 DEF KeyAt
    <2> QED  BY <2>2, <2>3
  <1>3. CASE \E g \in File : Create(g)
    BY <1>0, <1>1, <1>3 DEF Create, AbsentIsEmpty
  <1>4. CASE \E g \in File : Truncate(g) \/ Remove(g)
    BY <1>4 DEF Truncate, Remove
  <1>5. CASE (\E g \in File : AppendHalf(g)) \/ ConsoleStep \/ FailureStep \/ UNCHANGED vars
    BY <1>1, <1>5 DEF AppendHalf, ConsoleStep, FailureStep, Boot, Tick, StartPoll, InsertBatch,
       EndTick, AddFileSource, PollSource, SetOffset, ConformRecord, QuarantineRecord,
       BootFails, StoreWriteFails, Crash, AddFileSourceFails, PollSourceFails, Abandon, vars
  <1> QED  BY <1>2, <1>3, <1>4, <1>5 DEF Next, ProductStep

\* One step of a steady bus keeps SafeInv.  An offset that stays within the
\* lines there were before the step covers lines the step did not move.
LEMMA SafeStep ==
    ASSUME Steady, TypeOK, TypeOK', SafeInv, [Next]_vars
    PROVE  SafeInv'
  <1> USE DEF disk, store, console, bounds, LineBytes
  <1>g. \A f \in File :
          /\ Len(lines[f]) \in Nat /\ Len(lines'[f]) \in Nat
          /\ Len(lines[f]) <= Len(lines'[f])
          /\ \A i \in 1..Len(lines[f]) : KeyAt(f, i)' = KeyAt(f, i)
    <2>1. ~MayReplace
      BY DEF Steady, MayReplace, TypeOK
    <2> QED  BY <2>1, Growth DEF SafeInv
  <1>r. \A k : Recorded(k) => Recorded(k)'
    BY RecordedStays
  <1>n. \A f \in File : /\ tail[f] \in Nat /\ tail'[f] \in Nat
                        /\ toJournal[f] \in Nat /\ toJournal'[f] \in Nat
                        /\ journal[f].off \in Nat /\ journal'[f].off \in Nat
    BY DEF TypeOK, SourceState
  <1>w. \A f \in File : /\ tail[f] <= 2 * Len(lines[f])
                        /\ journal[f].off <= 2 * Len(lines[f])
                        /\ toJournal[f] <= 2 * Len(lines[f])
    BY DEF SafeInv, Within
  <1>k. \A k \in recs : k.file \in File
    BY DEF TypeOK, Key
  <1>d. \A f \in File : \A i \in 1..Len(lines[f]) :
          /\ 2 * i <= tail[f] => Recorded(KeyAt(f, i)) \/ KeyAt(f, i) \in recs \cup batch
          /\ 2 * i <= journal[f].off => Recorded(KeyAt(f, i))
          /\ 2 * i <= toJournal[f] => Recorded(KeyAt(f, i)) \/ KeyAt(f, i) \in batch
    BY DEF SafeInv, TailDone, JournalDone, NotedDone, Covered
  <1> DEFINE Offsets == \A f \in File : /\ tail'[f] <= 2 * Len(lines[f])
                                        /\ journal'[f].off <= 2 * Len(lines[f])
                                        /\ toJournal'[f] <= 2 * Len(lines[f])
             Hand == \A k \in recs' : /\ k.file \in File
                                      /\ \E i \in 1..Len(lines[k.file]) :
                                          k = KeyAt(k.file, i) /\ 2 * i <= tail'[k.file]
             Done == \A f \in File : \A i \in 1..Len(lines[f]) : \A k :
                       k = KeyAt(f, i)
                       => /\ 2 * i <= tail'[f] => Recorded(k)' \/ k \in recs' \cup batch'
                          /\ 2 * i <= journal'[f].off => Recorded(k)'
                          /\ 2 * i <= toJournal'[f] => Recorded(k)' \/ k \in batch'
  <1>c. ASSUME AbsentIsEmpty', Settled', Offsets, Hand, Done
        PROVE  SafeInv'
    <2>1. Within'
      BY <1>c, <1>g, <1>n DEF Within
    <2>2. InHand'
      BY <1>c, <1>g DEF InHand
    <2>3. ASSUME NEW f \in File, NEW i \in 1..Len(lines'[f])
          PROVE  /\ 2 * i <= tail'[f] => Recorded(KeyAt(f, i))' \/ KeyAt(f, i)' \in recs' \cup batch'
                 /\ 2 * i <= journal'[f].off => Recorded(KeyAt(f, i))'
                 /\ 2 * i <= toJournal'[f] => Recorded(KeyAt(f, i))' \/ KeyAt(f, i)' \in batch'
      <3>1. CASE i \in 1..Len(lines[f])
        <4>1. KeyAt(f, i)' = KeyAt(f, i)
          BY <1>g, <3>1
        <4>2. PICK k : k = KeyAt(f, i)
          OBVIOUS
        <4> QED  BY <1>c, <3>1, <4>1, <4>2
      <3>2. CASE i \notin 1..Len(lines[f])
        BY <1>c, <1>g, <1>n, <3>2
      <3> QED  BY <3>1, <3>2
    <2>4. TailDone' /\ JournalDone' /\ NotedDone'
      BY <2>3 DEF TailDone, JournalDone, NotedDone, Covered
    <2> QED  BY <1>c, <2>1, <2>2, <2>4 DEF SafeInv
  <1>h. ASSUME UNCHANGED <<tail, journal, toJournal, recs, batch>>
        PROVE  Offsets /\ Hand /\ Done
    <2>1. Offsets
      BY <1>h, <1>w
    <2>2. Hand
      BY <1>h, <1>k DEF SafeInv, InHand
    <2>3. Done
      BY <1>h, <1>r, <1>d
    <2> QED  BY <2>1, <2>2, <2>3
  <1>1. ASSUME NEW f \in File, Create(f) PROVE SafeInv'
    <2>1. AbsentIsEmpty' /\ Settled'
      BY <1>1 DEF Create, SafeInv, AbsentIsEmpty, Settled, TypeOK
    <2> QED  BY <1>1, <1>c, <1>h, <2>1 DEF Create
  <1>2. ASSUME NEW f \in File, NEW l \in Line, Append_(f, l) PROVE SafeInv'
    <2>1. AbsentIsEmpty' /\ Settled'
      BY <1>2 DEF Append_, SafeInv, AbsentIsEmpty, Settled, TypeOK
    <2> QED  BY <1>2, <1>c, <1>h, <2>1 DEF Append_
  <1>3. ASSUME NEW f \in File, AppendHalf(f) PROVE SafeInv'
    <2>1. AbsentIsEmpty' /\ Settled'
      BY <1>3 DEF AppendHalf, SafeInv, AbsentIsEmpty, Settled
    <2> QED  BY <1>3, <1>c, <1>h, <2>1 DEF AppendHalf
  <1>4. ASSUME NEW f \in File, Truncate(f) \/ Remove(f) PROVE SafeInv'
    BY <1>4 DEF Truncate, Remove, MayReplace, Steady, TypeOK
  <1>5. ASSUME Boot \/ Tick \/ StartPoll \/ EndTick PROVE SafeInv'
    <2>1. AbsentIsEmpty' /\ Settled'
      BY <1>5 DEF Boot, Tick, StartPoll, EndTick, SafeInv, AbsentIsEmpty, Settled
    <2>2. UNCHANGED <<tail, journal, toJournal, recs, batch>>
      BY <1>5 DEF Boot, Tick, StartPoll, EndTick
    <2> QED  BY <1>c, <1>h, <2>1, <2>2
  <1>6. ASSUME NEW f \in File, AddFileSource(f) PROVE SafeInv'
    <2>0. UNCHANGED <<disk, store, pc, recs, batch, toJournal>>
      BY <1>6 DEF AddFileSource
    <2>1. AbsentIsEmpty' /\ Settled'
      BY <2>0 DEF SafeInv, AbsentIsEmpty, Settled
    <2>2. recs = {} /\ batch = {}
      BY <1>6 DEF AddFileSource, SafeInv, Settled
    <2>3. \A g \in File : tail'[g] = tail[g] \/ tail'[g] = 0 \/ tail'[g] = journal[g].off
      BY <1>6 DEF AddFileSource, ResumeOffset, TypeOK
    <2>4. Offsets
      BY <1>n, <1>w, <1>g, <2>0, <2>3
    <2>5. Done
      BY <1>r, <1>d, <1>n, <2>0, <2>3
    <2> QED  BY <1>c, <2>0, <2>1, <2>2, <2>4, <2>5
  <1>7. ASSUME NEW f \in File, PollSource(f) PROVE SafeInv'
    <2>0. UNCHANGED <<disk, store, pc, batch, toJournal>> /\ recs = {} /\ pc = "poll"
      BY <1>7 DEF PollSource
    <2>1. AbsentIsEmpty' /\ Settled'
      BY <2>0 DEF SafeInv, AbsentIsEmpty, Settled
    <2>2. CASE f \notin present
      <3>1. UNCHANGED <<tail, journal, toJournal, recs, batch>>
        BY <1>7, <2>0, <2>2 DEF PollSource
      <3> QED  BY <1>c, <1>h, <2>1, <3>1
    <2>3. CASE f \in present
      <3>0. EffectiveOffset(f, tail[f]) = tail[f]
        <4>1. half[f] \in {0, 1}
          BY DEF TypeOK
        <4> QED  BY <1>w, <1>g, <1>n, <4>1 DEF EffectiveOffset, FileBytes
      <3>1. recs' = {KeyAt(f, i) : i \in {j \in 1..Len(lines[f]) : 2 * j > tail[f]}}
        BY <1>7, <2>3, <3>0 DEF PollSource
      <3>2. tail' = [tail EXCEPT ![f] = 2 * Len(lines[f])]
        BY <1>7, <1>w, <1>g, <1>n, <2>3, <3>0 DEF PollSource
      <3>3. tail'[f] = 2 * Len(lines[f]) /\ \A g \in File \ {f} : tail'[g] = tail[g]
        BY <3>2 DEF TypeOK
      <3>4. Offsets
        BY <1>w, <1>g, <1>n, <2>0, <3>3
      <3>5. Hand
        <4>1. ASSUME NEW i \in 1..Len(lines[f]) PROVE KeyAt(f, i).file = f
          BY DEF KeyAt
        <4> QED  BY <1>g, <3>1, <3>3, <4>1
      <3>6. Done
        <4>1. ASSUME NEW i \in 1..Len(lines[f]), 2 * i > tail[f] PROVE KeyAt(f, i) \in recs'
          BY <3>1, <4>1
        <4> QED  BY <1>r, <1>d, <1>n, <1>g, <2>0, <3>3, <4>1
      <3> QED  BY <1>c, <2>1, <3>4, <3>5, <3>6
    <2> QED  BY <2>2, <2>3
  <1>8. ASSUME NEW k \in recs, ConformRecord(k) \/ QuarantineRecord(k) PROVE SafeInv'
    <2>0. /\ UNCHANGED <<disk, journal, pc, tail>> /\ pc = "poll" /\ recs' = recs \ {k}
          /\ batch \subseteq batch' /\ (Recorded(k)' \/ k \in batch')
      <3>1. CASE ConformRecord(k)
        BY <3>1 DEF ConformRecord
      <3>2. CASE QuarantineRecord(k)
        <4>1. quar \in Seq(Key) /\ quar' = Append(quar, k)
          BY <3>2 DEF QuarantineRecord, TypeOK
        <4>2. Len(quar) + 1 \in DOMAIN quar' /\ quar'[Len(quar) + 1] = k
          BY <4>1
        <4>3. Recorded(k)'
          BY <4>2 DEF Recorded
        <4> QED  BY <3>2, <4>3 DEF QuarantineRecord
      <3> QED  BY <1>8, <3>1, <3>2
    <2>1. AbsentIsEmpty' /\ Settled'
      BY <2>0 DEF SafeInv, AbsentIsEmpty, Settled
    <2>2. PICK j \in 1..Len(lines[k.file]) : k = KeyAt(k.file, j) /\ 2 * j <= tail[k.file]
      BY DEF SafeInv, InHand
    <2>3. k.off = 2 * (j - 1) /\ k.file \in File /\ RawBytes(k.line) = 1
      BY <1>k, <2>2 DEF KeyAt, RawBytes, Steady
    <2>4. \A f \in File : \/ toJournal'[f] = toJournal[f]
                          \/ f = k.file /\ toJournal'[f] = 2 * j
      <3>1. toJournal' = [toJournal EXCEPT ![k.file] =
                            IF toJournal[k.file] < 2 * j THEN 2 * j ELSE toJournal[k.file]]
        BY SMTT(20), <1>8, <1>k, <1>n, <1>g, <2>2, <2>3 DEF ConformRecord, QuarantineRecord, NoteOffset, TypeOK
      <3>2. toJournal \in [File -> Nat]
        BY DEF TypeOK
      <3>3. \A f \in File \ {k.file} : toJournal'[f] = toJournal[f]
        BY <3>1, <3>2
      <3>4. toJournal'[k.file] = toJournal[k.file] \/ toJournal'[k.file] = 2 * j
        BY <2>3, <3>1, <3>2
      <3>5. TAKE f \in File
      <3>6. CASE f = k.file
        BY <3>4, <3>6
      <3>7. CASE f # k.file
        BY <3>3, <3>7
      <3> QED  BY <3>6, <3>7
    <2>5. Offsets
      BY <1>w, <1>n, <1>g, <2>0, <2>2, <2>3, <2>4
    <2>6. Hand
      BY <1>k, <2>0 DEF SafeInv, InHand
    <2>7. ASSUME NEW i \in 1..Len(lines[k.file]), 2 * i <= 2 * j
          PROVE  \/ Recorded(KeyAt(k.file, i)) \/ KeyAt(k.file, i) \in batch
                 \/ KeyAt(k.file, i) = k
      <3>1. CASE i = j
        BY <2>2, <3>1
      <3>2. CASE i # j
        <4>1. KeyAt(k.file, i).off = 2 * (i - 1)
          BY DEF KeyAt
        <4>2. KeyAt(k.file, i).off < k.off
          BY <1>g, <2>3, <2>7, <3>2, <4>1
        <4>3. KeyAt(k.file, i) \notin recs
          <5>1. \A o \in recs : k.off <= o.off
            BY <1>8 DEF ConformRecord, QuarantineRecord, NextRecord
          <5>2. KeyAt(k.file, i).off \in Int /\ k.off \in Int
            BY <1>g, <2>3, <4>1
          <5> QED  BY <4>2, <5>1, <5>2
        <4>4. 2 * i <= tail[k.file]
          BY <1>g, <1>n, <2>2, <2>3, <2>7
        <4> QED  BY <1>d, <2>3, <4>3, <4>4
      <3> QED  BY <3>1, <3>2
    <2>8. Done
      <3>1. SUFFICES ASSUME NEW f \in File, NEW i \in 1..Len(lines[f]), NEW c, c = KeyAt(f, i)
                     PROVE  /\ 2 * i <= tail'[f] => Recorded(c)' \/ c \in recs' \cup batch'
                            /\ 2 * i <= journal'[f].off => Recorded(c)'
                            /\ 2 * i <= toJournal'[f] => Recorded(c)' \/ c \in batch'
        OBVIOUS
      <3>2. 2 * i <= tail'[f] => Recorded(c)' \/ c \in recs' \cup batch'
        BY <1>d, <1>r, <2>0, <3>1
      <3>3. 2 * i <= journal'[f].off => Recorded(c)'
        BY <1>d, <1>r, <2>0, <3>1
      <3>4. 2 * i <= toJournal'[f] => Recorded(c)' \/ c \in batch'
        BY <1>d, <1>r, <2>0, <2>4, <2>7, <3>1
      <3> QED  BY <3>2, <3>3, <3>4
    <2> QED  BY <1>c, <2>1, <2>5, <2>6, <2>8
  <1>9. ASSUME InsertBatch PROVE SafeInv'
    <2>0. /\ UNCHANGED <<disk, journal, tail, toJournal, recs>> /\ recs = {}
          /\ events' = events \cup batch /\ batch' = {} /\ pc' = "journal"
      BY <1>9 DEF InsertBatch
    <2>1. AbsentIsEmpty' /\ Settled'
      BY <2>0 DEF SafeInv, AbsentIsEmpty, Settled
    <2>2. \A c \in batch : Recorded(c)'
      BY <2>0 DEF Recorded
    <2>3. Offsets /\ Hand
      BY <1>w, <2>0
    <2>4. Done
      BY <1>d, <1>r, <2>0, <2>2
    <2> QED  BY <1>c, <2>1, <2>3, <2>4
  <1>10. ASSUME NEW f \in File, SetOffset(f) PROVE SafeInv'
    <2>0. UNCHANGED <<disk, pc, tail, recs, batch>> /\ pc = "journal"
      BY <1>10 DEF SetOffset
    <2>1. AbsentIsEmpty' /\ Settled'
      BY <2>0 DEF SafeInv, AbsentIsEmpty, Settled
    <2>2. recs = {} /\ batch = {}
      BY <2>0 DEF SafeInv, Settled
    <2>3. \A g \in File : journal'[g].off = journal[g].off \/ journal'[g].off = toJournal[g]
      BY <1>10 DEF SetOffset, TypeOK
    <2>a. \A g \in File : toJournal'[g] = toJournal[g] \/ toJournal'[g] = 0
      BY <1>10 DEF SetOffset, TypeOK
    <2>4. Offsets
      <3>1. ASSUME NEW g \in File PROVE journal'[g].off <= 2 * Len(lines[g])
        BY <1>w, <2>3
      <3>2. ASSUME NEW g \in File PROVE toJournal'[g] <= 2 * Len(lines[g])
        BY <1>w, <1>g, <2>a
      <3> QED  BY <1>w, <2>0, <3>1, <3>2
    <2>5. Done
      <3>1. ASSUME NEW g \in File, NEW i \in 1..Len(lines[g]), NEW c, c = KeyAt(g, i)
            PROVE  /\ 2 * i <= journal'[g].off => Recorded(c)'
                   /\ 2 * i <= toJournal'[g] => Recorded(c)' \/ c \in batch'
        <4>1. CASE journal'[g].off = journal[g].off
          BY <1>d, <1>r, <1>g, <2>0, <2>2, <2>a, <3>1, <4>1
        <4>2. CASE journal'[g].off = toJournal[g]
          BY <1>d, <1>r, <1>g, <2>0, <2>2, <2>a, <3>1, <4>2
        <4> QED  BY <2>3, <4>1, <4>2
      <3> QED  BY <1>d, <1>r, <2>0, <3>1
    <2> QED  BY <1>c, <2>0, <2>1, <2>2, <2>4, <2>5
  <1>11. ASSUME Crash PROVE SafeInv'
    <2>0. /\ UNCHANGED <<disk, store>> /\ recs' = {} /\ batch' = {} /\ pc' = "down"
          /\ \A f \in File : tail'[f] = 0 /\ toJournal'[f] = 0
      BY <1>11 DEF Crash, Gone
    <2>1. AbsentIsEmpty' /\ Settled'
      BY <2>0 DEF SafeInv, AbsentIsEmpty, Settled
    <2>2. Offsets /\ Hand
      BY <1>w, <1>g, <2>0
    <2>3. Done
      BY <1>d, <1>r, <2>0
    <2> QED  BY <1>c, <2>1, <2>2, <2>3
  <1>12. ASSUME BootFails \/ StoreWriteFails \/ \E f \in File : AddFileSourceFails(f) \/ PollSourceFails(f)
         PROVE  SafeInv'
    <2>1. Fault
      BY <1>12 DEF BootFails, StoreWriteFails, AddFileSourceFails, PollSourceFails
    <2> QED  BY <2>1 DEF Fault, Steady, TypeOK
  <1>13. ASSUME UNCHANGED vars PROVE SafeInv'
    <2>1. AbsentIsEmpty' /\ Settled'
      BY <1>13 DEF vars, SafeInv, AbsentIsEmpty, Settled
    <2> QED  BY <1>13, <1>c, <1>h, <2>1 DEF vars
  <1> QED
    BY <1>1, <1>2, <1>3, <1>4, <1>5, <1>6, <1>7, <1>8, <1>9, <1>10, <1>11, <1>12, <1>13
       DEF Next, ProductStep, ConsoleStep, FailureStep

\* Every reachable state of a steady bus satisfies the inductive invariant.
LEMMA SafeInvariant == ASSUME Steady PROVE Spec => []SafeInv
  <1>1. Init => SafeInv
    BY DEF Init, NoRow, SafeInv, AbsentIsEmpty, Within, InHand, Settled, TailDone, JournalDone,
           NotedDone, Covered, LineBytes
  <1>2. TypeOK /\ TypeOK' /\ SafeInv /\ [Next]_vars => SafeInv'
    BY SafeStep
  <1> QED  BY <1>1, <1>2, TypeCorrect, PTL DEF Spec

\* FileTail.poll never passes a line that poll_once then neither stores nor
\* quarantines, for any number of streams, lines, ticks and process deaths, on a
\* bus that only grows and whose store does not fail.
THEOREM NothingLostHolds == ASSUME Steady PROVE Spec => []NothingLost
  <1>1. TypeOK /\ SafeInv => NothingLost
    BY DEF TypeOK, SafeInv, TailDone, Covered, NothingLost, EffectiveOffset, LineBytes
  <1> QED  BY <1>1, TypeCorrect, SafeInvariant, PTL

\* add_file_source, after a death at any point of a tick, resumes only past lines
\* the store accounts for, under the same assumption.
THEOREM ResumeIsSafeHolds == ASSUME Steady PROVE Spec => []ResumeIsSafe
  <1>1. TypeOK /\ SafeInv => ResumeIsSafe
    BY DEF TypeOK, SafeInv, JournalDone, Covered, ResumeIsSafe, ResumeOffset, EffectiveOffset,
           LineBytes
  <1> QED  BY <1>1, TypeCorrect, SafeInvariant, PTL

-----------------------------------------------------------------------------
(***************************************************************************)
(* No line is lost when files are truncated, removed and recreated, under a *)
(* reused inode too, as long as that happens while the console is down and  *)
(* the fingerprint spans the file.  What a journal row says holds of the    *)
(* tables whatever became of the file: its head is of lines the store       *)
(* accounts for.  add_file_source skips what the row covers only when the   *)
(* live file begins with that head.                                         *)
(***************************************************************************)
DownOnly ==
    /\ MaxFaults = 0 /\ Lossy = {} /\ ~LiveReplace /\ ~RegisterRace
    /\ MaxLines <= HeadLines

\* An offset at the start of a line.
Whole(n) == n % LineBytes = 0

Short == \A f \in File : Len(lines[f]) <= MaxLines

\* Nothing of the console is left while it is down.
AtRest ==
    pc = "down" => /\ tailed = {} /\ todo = {} /\ recs = {} /\ batch = {}
                   /\ \A f \in File : toJournal[f] = 0

\* No file goes away under the running console, and it polls what it tails.
Listed ==
    /\ tailed \cup todo \subseteq present
    /\ pc = "poll" => todo \subseteq tailed

\* A journal row spans its head, and the store accounts for every line of it.
TrueRow(f, row) ==
    /\ row.off = LineBytes * Len(row.head)
    /\ \A i \in 1..Len(row.head) :
          Recorded([file |-> f, off |-> LineBytes * (i - 1), line |-> row.head[i]])

RowsTrue == \A f \in File : TrueRow(f, journal[f])

\* A record in hand is of a file whose tail is within it.
Passed ==
    \A k \in recs : k.file \in tailed /\ tail[k.file] <= LineBytes * Len(lines[k.file])

Noted ==
    \A f \in File : Whole(toJournal[f]) /\ toJournal[f] <= LineBytes * Len(lines[f])

\* A tail past the end of its file was resumed from the row of a longer file and
\* is reset by its first poll; what any other tail passed is recorded or in hand.
Reached ==
    \A f \in tailed :
        /\ Whole(tail[f])
        /\ IF tail[f] <= LineBytes * Len(lines[f])
           THEN Covered(f, tail[f], recs \cup batch)
           ELSE pc = "scan" \/ (pc = "poll" /\ f \in todo)

DownInv ==
    /\ AbsentIsEmpty /\ Settled /\ Short /\ AtRest /\ Listed /\ RowsTrue
    /\ InHand /\ Passed /\ Noted /\ NotedDone /\ Reached

LEMMA WholeLines == \A n \in Nat : Whole(LineBytes * n)
  BY DEF Whole, LineBytes

\* A whole offset within the bytes of a file is within its complete lines.
LEMMA WholeWithin ==
    ASSUME NEW t \in Nat, NEW n \in Nat, NEW h \in {0, 1}, Whole(t), t <= LineBytes * n + h
    PROVE  t <= LineBytes * n
  <1>1. t % 2 = 0 /\ t <= 2 * n + h
    BY DEF Whole, LineBytes
  <1> QED  BY <1>1 DEF LineBytes

\* The store does not fail, so poll_once never leaves early.
LEMMA NoFault ==
    ASSUME DownOnly, TypeOK
    PROVE  ~ (BootFails \/ StoreWriteFails \/ \E f \in File : AddFileSourceFails(f) \/ PollSourceFails(f))
  <1>1. ~Fault
    BY DEF DownOnly, TypeOK, Fault
  <1> QED  BY <1>1 DEF BootFails, StoreWriteFails, AddFileSourceFails, PollSourceFails

\* The fingerprint of a whole offset within a file no longer than the fingerprint
\* spans is the lines before it.
LEMMA HeadIsPrefix ==
    ASSUME DownOnly, TypeOK, AbsentIsEmpty, Short, NEW f \in File,
           NEW n \in Nat, n # 0, LineBytes * n <= FileBytes(f)
    PROVE  /\ n <= Len(lines[f])
           /\ HeadFingerprint(f, LineBytes * n) = SubSeq(lines[f], 1, n)
           /\ SubSeq(lines[f], 1, n) \in Seq(Line) /\ Len(SubSeq(lines[f], 1, n)) = n
           /\ \A i \in 1..n : SubSeq(lines[f], 1, n)[i] = lines[f][i]
  <1>1. /\ lines[f] \in Seq(Line) /\ Len(lines[f]) \in Nat /\ half[f] \in {0, 1}
        /\ HeadLines \in Nat /\ MaxLines \in Nat
    BY ConstantsAssumption DEF TypeOK
  <1>2. n <= Len(lines[f])
    BY <1>1 DEF FileBytes, LineBytes
  <1>3. f \in present
    BY <1>1, <1>2 DEF AbsentIsEmpty
  <1>4. (LineBytes * n) \div LineBytes = n /\ LineBytes * n # 0 /\ ~ (FileBytes(f) < LineBytes * n)
    BY <1>1 DEF LineBytes, FileBytes
  <1>5. n <= HeadLines
    BY <1>1, <1>2 DEF DownOnly, Short
  <1>6. (IF n < HeadLines THEN n ELSE HeadLines) = n
    BY <1>1, <1>5
  <1>7. HeadFingerprint(f, LineBytes * n) = SubSeq(lines[f], 1, n)
    BY <1>3, <1>4, <1>6 DEF HeadFingerprint
  <1> QED  BY <1>1, <1>2, <1>7

\* What add_file_source skips of the file that is there now, the store accounts
\* for: the row it resumes from is this file's, or its offset is past the end.
LEMMA ResumedIsRecorded ==
    ASSUME DownOnly, TypeOK, DownInv, NEW f \in File
    PROVE  /\ Whole(ResumeOffset(f))
           /\ ResumeOffset(f) <= FileBytes(f)
              => /\ ResumeOffset(f) <= LineBytes * Len(lines[f])
                 /\ Covered(f, ResumeOffset(f), {})
  <1> DEFINE head == journal[f].head
             n    == Len(head)
  <1>1. /\ head \in Seq(Line) /\ n \in Nat /\ journal[f].off = LineBytes * n
        /\ Len(lines[f]) \in Nat /\ lines[f] \in Seq(Line)
    BY DEF TypeOK, SourceState, DownInv, RowsTrue, TrueRow
  <1>2. CASE ResumeOffset(f) = 0
    <2>1. Whole(0) /\ 0 <= LineBytes * Len(lines[f])
      BY <1>1 DEF Whole, LineBytes
    <2>2. Covered(f, 0, {})
      BY <1>1 DEF Covered, LineBytes
    <2> QED  BY <1>2, <2>1, <2>2
  <1>3. CASE ResumeOffset(f) # 0
    <2>1. ResumeOffset(f) = LineBytes * n /\ ~HeadSaysNew(f) /\ n # 0
      BY <1>1, <1>3 DEF ResumeOffset, LineBytes
    <2>2. Whole(LineBytes * n)
      BY <1>1, WholeLines
    <2>3. ASSUME LineBytes * n <= FileBytes(f)
          PROVE  n <= Len(lines[f]) /\ Covered(f, LineBytes * n, {})
      <3>1. /\ n <= Len(lines[f])
            /\ HeadFingerprint(f, LineBytes * n) = SubSeq(lines[f], 1, n)
            /\ SubSeq(lines[f], 1, n) \in Seq(Line) /\ Len(SubSeq(lines[f], 1, n)) = n
            /\ \A i \in 1..n : SubSeq(lines[f], 1, n)[i] = lines[f][i]
        BY <1>1, <2>1, <2>3, HeadIsPrefix DEF DownInv
      <3>2. head = SubSeq(lines[f], 1, n)
        <4>1. head # << >> /\ SubSeq(lines[f], 1, n) # << >>
          BY <1>1, <2>1, <3>1
        <4> QED  BY <1>1, <2>1, <3>1, <4>1 DEF HeadSaysNew
      <3>3. \A i \in 1..n : KeyAt(f, i) = [file |-> f, off |-> LineBytes * (i - 1), line |-> head[i]]
        BY <3>1, <3>2 DEF KeyAt
      <3>4. \A i \in 1..n : Recorded(KeyAt(f, i))
        BY <3>3 DEF DownInv, RowsTrue, TrueRow
      <3>5. \A i \in 1..Len(lines[f]) : LineBytes * i <= LineBytes * n => i \in 1..n
        BY <1>1 DEF LineBytes
      <3> QED  BY <3>1, <3>4, <3>5 DEF Covered
    <2>4. n <= Len(lines[f]) => LineBytes * n <= LineBytes * Len(lines[f])
      BY <1>1 DEF LineBytes
    <2> QED  BY <2>1, <2>2, <2>3, <2>4
  <1> QED  BY <1>2, <1>3

LEMMA DownRest ==
    ASSUME DownOnly, TypeOK, DownInv, [Next]_vars
    PROVE  (AbsentIsEmpty /\ Settled /\ Short /\ AtRest /\ Listed)'
  <1> USE DEF disk, store, console, bounds
  <1>t. /\ lines \in [File -> Seq(Line)] /\ MaxLines \in Nat
        /\ \A f \in File : Len(lines[f]) \in Nat
    BY ConstantsAssumption DEF TypeOK
  <1>i. AbsentIsEmpty /\ Settled /\ Short /\ AtRest /\ Listed
    BY DEF DownInv
  <1>1. ASSUME NEW f \in File, Create(f) \/ Truncate(f) \/ Remove(f)
        PROVE  (AbsentIsEmpty /\ Settled /\ Short /\ AtRest /\ Listed)'
    <2>1. /\ lines' = [lines EXCEPT ![f] = << >>] /\ UNCHANGED console
          /\ present \ {f} \subseteq present' /\ (pc # "down" => present \subseteq present')
      BY <1>1 DEF Create, Truncate, Remove, MayReplace, DownOnly
    <2>2. lines'[f] = << >> /\ \A g \in File \ {f} : lines'[g] = lines[g]
      BY <1>t, <2>1
    <2>3. AbsentIsEmpty'
      BY <1>i, <2>1, <2>2 DEF AbsentIsEmpty
    <2>4. Short'
      BY <1>i, <1>t, <2>2 DEF Short
    <2>5. Settled' /\ AtRest'
      BY <1>i, <2>1 DEF Settled, AtRest
    <2>6. Listed'
      BY <1>i, <2>1 DEF Listed, AtRest
    <2> QED  BY <2>3, <2>4, <2>5, <2>6
  <1>2. ASSUME NEW f \in File, NEW l \in Line, Append_(f, l)
        PROVE  (AbsentIsEmpty /\ Settled /\ Short /\ AtRest /\ Listed)'
    <2>1. /\ lines' = [lines EXCEPT ![f] = Append(@, l)] /\ UNCHANGED <<present, console>>
          /\ f \in present /\ Len(lines[f]) < MaxLines
      BY <1>2 DEF Append_
    <2>2. Len(lines'[f]) = Len(lines[f]) + 1 /\ \A g \in File \ {f} : lines'[g] = lines[g]
      BY <1>t, <2>1
    <2>3. AbsentIsEmpty'
      BY <1>i, <2>1, <2>2 DEF AbsentIsEmpty
    <2>4. Short'
      BY <1>i, <1>t, <2>1, <2>2 DEF Short
    <2> QED  BY <1>i, <2>1, <2>3, <2>4 DEF Settled, AtRest, Listed
  <1>3. ASSUME UNCHANGED <<present, lines>>, Settled', AtRest', Listed'
        PROVE  (AbsentIsEmpty /\ Settled /\ Short /\ AtRest /\ Listed)'
    BY <1>i, <1>3 DEF AbsentIsEmpty, Short
  <1>4. CASE (\E f \in File : AppendHalf(f)) \/ UNCHANGED vars
    <2>1. UNCHANGED <<present, lines, console>>
      BY <1>4 DEF AppendHalf, vars
    <2> QED  BY <1>3, <1>i, <2>1 DEF Settled, AtRest, Listed
  <1>5. CASE Boot \/ Tick \/ StartPoll \/ EndTick \/ \E f \in File : AddFileSource(f) \/ SetOffset(f)
    <2>1. UNCHANGED <<present, lines>> /\ pc # "poll" /\ pc' # "down" /\ UNCHANGED <<recs, batch>>
      BY <1>5 DEF Boot, Tick, StartPoll, EndTick, AddFileSource, SetOffset
    <2>2. /\ tailed' \cup todo' \subseteq present
          /\ pc' = "poll" => todo' \subseteq tailed'
      BY <1>5, <1>i DEF Listed, Boot, Tick, StartPoll, EndTick, AddFileSource, SetOffset
    <2> QED  BY <1>3, <1>i, <2>1, <2>2 DEF Settled, AtRest, Listed
  <1>6. CASE \/ InsertBatch \/ \E f \in File : PollSource(f)
             \/ \E k \in recs : ConformRecord(k) \/ QuarantineRecord(k)
    <2>1. /\ UNCHANGED <<present, lines, tailed>> /\ todo' \subseteq todo
          /\ pc = "poll" /\ pc' # "down"
          /\ pc' = "poll" \/ (recs' = {} /\ batch' = {})
      BY <1>6 DEF InsertBatch, PollSource, ConformRecord, QuarantineRecord
    <2> QED  BY <1>3, <1>i, <2>1 DEF Settled, AtRest, Listed
  <1>7. CASE Crash
    <2>1. UNCHANGED <<present, lines>> /\ Gone("down")
      BY <1>7 DEF Crash
    <2> QED  BY <1>3, <2>1 DEF Gone, Settled, AtRest, Listed
  <1> QED
    BY <1>1, <1>2, <1>4, <1>5, <1>6, <1>7, NoFault
       DEF Next, ProductStep, ConsoleStep, FailureStep

\* set_offset writes a row of the file as it is while poll_once runs; no other
\* step writes one, and what becomes of the file is nothing to the row.
LEMMA DownRows ==
    ASSUME DownOnly, TypeOK, DownInv, [Next]_vars
    PROVE  RowsTrue'
  <1> USE DEF disk, store, console, bounds
  <1>r. \A k : Recorded(k) => Recorded(k)'
    BY RecordedStays
  <1>1. CASE UNCHANGED journal
    <2>1. ASSUME NEW g \in File, NEW row, row = journal[g] PROVE TrueRow(g, row)'
      BY <1>r, <2>1 DEF DownInv, RowsTrue, TrueRow
    <2> QED  BY <1>1, <2>1 DEF RowsTrue, TrueRow, Recorded
  <1>2. ASSUME NEW f \in File, SetOffset(f) PROVE RowsTrue'
    <2>1. PICK n \in Nat : /\ n # 0 /\ toJournal[f] = LineBytes * n
                           /\ n <= Len(lines[f]) /\ LineBytes * n <= FileBytes(f)
      <3>1. /\ toJournal[f] \in Nat /\ toJournal[f] # 0 /\ toJournal[f] % 2 = 0
            /\ toJournal[f] <= 2 * Len(lines[f]) /\ Len(lines[f]) \in Nat /\ half[f] \in {0, 1}
        BY <1>2 DEF SetOffset, DownInv, Noted, Whole, LineBytes, TypeOK
      <3>2. PICK n \in Nat : n = toJournal[f] \div 2
        BY <3>1
      <3>3. toJournal[f] = 2 * n
        BY <3>1, <3>2
      <3>4. n # 0 /\ n <= Len(lines[f]) /\ 2 * n <= 2 * Len(lines[f]) + half[f]
        BY <3>1, <3>3
      <3> QED  BY <3>3, <3>4 DEF LineBytes, FileBytes
    <2>2. PICK head : /\ HeadFingerprint(f, toJournal[f]) = head
                      /\ Len(head) = n /\ \A i \in 1..n : head[i] = lines[f][i]
      BY <2>1, HeadIsPrefix DEF DownInv
    <2>3. \A i \in 1..n : KeyAt(f, i) = [file |-> f, off |-> LineBytes * (i - 1), line |-> head[i]]
      BY <2>2 DEF KeyAt
    <2>4. \A i \in 1..n : Recorded(KeyAt(f, i))
      <3>1. batch = {}
        BY <1>2 DEF SetOffset, DownInv, Settled
      <3>2. \A i \in 1..n : i \in 1..Len(lines[f]) /\ LineBytes * i <= toJournal[f]
        BY <2>1 DEF LineBytes, TypeOK
      <3> QED  BY <3>1, <3>2 DEF DownInv, NotedDone, Covered
    <2>5. /\ journal'[f].off = LineBytes * n /\ journal'[f].head = head
          /\ \A g \in File \ {f} : journal'[g] = journal[g]
      BY <1>2, <2>1, <2>2 DEF SetOffset, TypeOK
    <2>6. ASSUME NEW g \in File, NEW row, row = journal'[g] PROVE TrueRow(g, row)'
      <3>1. CASE g # f
        BY <1>r, <2>5, <2>6, <3>1 DEF DownInv, RowsTrue, TrueRow
      <3>2. CASE g = f
        <4>1. \A i \in 1..n : Recorded([file |-> f, off |-> LineBytes * (i - 1), line |-> head[i]])'
          BY <1>r, <2>3, <2>4
        <4> QED  BY <2>2, <2>5, <2>6, <3>2, <4>1 DEF TrueRow
      <3> QED  BY <3>1, <3>2
    <2> QED  BY <2>6 DEF RowsTrue, TrueRow, Recorded
  <1>3. CASE ~(\E f \in File : SetOffset(f))
    BY <1>1, <1>3 DEF Next, ProductStep, ConsoleStep, FailureStep, vars,
       Create, Append_, AppendHalf, Truncate, Remove, Boot, Tick, StartPoll, InsertBatch, EndTick,
       AddFileSource, PollSource, ConformRecord, QuarantineRecord,
       BootFails, StoreWriteFails, Crash, AddFileSourceFails, PollSourceFails, Abandon
  <1> QED  BY <1>2, <1>3

\* The running console's tails, records and notes stay true to files that only
\* grow under it; while it is down it has none.
LEMMA DownHand ==
    ASSUME DownOnly, TypeOK, TypeOK', DownInv, [Next]_vars
    PROVE  (InHand /\ Passed /\ Noted /\ NotedDone /\ Reached)'
  <1> USE DEF disk, store, console, bounds, LineBytes
  <1>r. \A k : Recorded(k) => Recorded(k)'
    BY RecordedStays
  <1>n. \A f \in File : /\ tail[f] \in Nat /\ tail'[f] \in Nat /\ half[f] \in {0, 1}
                        /\ toJournal[f] \in Nat /\ toJournal'[f] \in Nat
                        /\ Len(lines[f]) \in Nat /\ Len(lines'[f]) \in Nat
    BY DEF TypeOK
  <1>k. tailed \subseteq File /\ tailed' \subseteq File /\ \A k \in recs : k.file \in File
    BY DEF TypeOK, Key
  <1>i. \A k \in recs : /\ k.file \in tailed /\ tail[k.file] <= 2 * Len(lines[k.file])
                        /\ \E i \in 1..Len(lines[k.file]) :
                              k = KeyAt(k.file, i) /\ 2 * i <= tail[k.file]
    BY DEF DownInv, InHand, Passed
  <1>o. \A f \in File : /\ Whole(toJournal[f]) /\ toJournal[f] <= 2 * Len(lines[f])
                        /\ \A i \in 1..Len(lines[f]) : 2 * i <= toJournal[f]
                              => Recorded(KeyAt(f, i)) \/ KeyAt(f, i) \in batch
    BY DEF DownInv, Noted, NotedDone, Covered
  <1>e. \A f \in tailed : /\ Whole(tail[f])
                          /\ tail[f] <= 2 * Len(lines[f])
                             => \A i \in 1..Len(lines[f]) : 2 * i <= tail[f]
                                  => Recorded(KeyAt(f, i)) \/ KeyAt(f, i) \in recs \cup batch
                          /\ ~(tail[f] <= 2 * Len(lines[f]))
                             => pc = "scan" \/ (pc = "poll" /\ f \in todo)
    BY DEF DownInv, Reached, Covered
  <1> DEFINE Goal  == (InHand /\ Passed /\ Noted /\ NotedDone /\ Reached)'
             Grown == \A f \in File :
                        /\ Len(lines[f]) <= Len(lines'[f])
                        /\ \A i \in 1..Len(lines[f]) : KeyAt(f, i)' = KeyAt(f, i)
             Hand  == \A k \in recs' :
                        /\ k.file \in tailed' /\ tail'[k.file] <= 2 * Len(lines[k.file])
                        /\ \E i \in 1..Len(lines[k.file]) :
                              k = KeyAt(k.file, i) /\ 2 * i <= tail'[k.file]
             Notes == \A f \in File :
                        /\ Whole(toJournal'[f]) /\ toJournal'[f] <= 2 * Len(lines[f])
                        /\ \A i \in 1..Len(lines[f]) : \A k : k = KeyAt(f, i) /\ 2 * i <= toJournal'[f]
                              => Recorded(k)' \/ k \in batch'
             Tails == \A f \in tailed' :
                        /\ Whole(tail'[f])
                        /\ tail'[f] <= 2 * Len(lines[f])
                           => \A i \in 1..Len(lines[f]) : \A k : k = KeyAt(f, i) /\ 2 * i <= tail'[f]
                                => Recorded(k)' \/ k \in recs' \cup batch'
                        /\ ~(tail'[f] <= 2 * Len(lines[f]))
                           => /\ Len(lines'[f]) = Len(lines[f])
                              /\ pc' = "scan" \/ (pc' = "poll" /\ f \in todo')
  <1>g. ~MayReplace => Grown
    BY Growth DEF DownInv
  <1>c. ASSUME Grown, Hand, Notes, Tails PROVE Goal
    <2>1. InHand' /\ Passed'
      BY SMTT(20), <1>c, <1>k, <1>n DEF InHand, Passed
    <2>2. ASSUME NEW f \in File, NEW i \in 1..Len(lines'[f]), 2 * i <= 2 * Len(lines[f])
          PROVE  /\ i \in 1..Len(lines[f]) /\ KeyAt(f, i)' = KeyAt(f, i)
                 /\ 2 * i <= toJournal'[f] => Recorded(KeyAt(f, i))' \/ KeyAt(f, i)' \in batch'
                 /\ f \in tailed' /\ 2 * i <= tail'[f] /\ tail'[f] <= 2 * Len(lines[f])
                      => Recorded(KeyAt(f, i))' \/ KeyAt(f, i)' \in recs' \cup batch'
      <3>1. i \in 1..Len(lines[f]) /\ KeyAt(f, i)' = KeyAt(f, i)
        BY <1>c, <1>n, <2>2
      <3>2. PICK k : k = KeyAt(f, i)
        OBVIOUS
      <3>3. Recorded(KeyAt(f, i))' <=> Recorded(k)'
        BY <3>1, <3>2 DEF Recorded
      <3> QED  BY <1>c, <3>1, <3>2, <3>3
    <2>3. Noted' /\ NotedDone'
      <3>1. \A f \in File : Whole(toJournal'[f]) /\ toJournal'[f] <= 2 * Len(lines[f])
        BY <1>c
      <3>2. Noted'
        BY <1>c, <1>n, <3>1 DEF Noted, Whole
      <3>3. ASSUME NEW f \in File, NEW i \in 1..Len(lines'[f]), 2 * i <= toJournal'[f]
            PROVE  Recorded(KeyAt(f, i))' \/ KeyAt(f, i)' \in batch'
        BY <1>n, <2>2, <3>1, <3>3
      <3> QED  BY <3>2, <3>3 DEF NotedDone, Covered
    <2>4. Reached'
      <3>1. SUFFICES ASSUME NEW f \in tailed'
                     PROVE  /\ Whole(tail'[f])
                            /\ IF tail'[f] <= 2 * Len(lines'[f])
                               THEN \A i \in 1..Len(lines'[f]) : 2 * i <= tail'[f]
                                      => Recorded(KeyAt(f, i))' \/ KeyAt(f, i)' \in recs' \cup batch'
                               ELSE pc' = "scan" \/ (pc' = "poll" /\ f \in todo')
        BY DEF Reached, Covered, Whole
      <3>2. CASE tail'[f] <= 2 * Len(lines[f])
        BY <1>c, <1>n, <1>k, <2>2, <3>2
      <3>3. CASE ~(tail'[f] <= 2 * Len(lines[f]))
        BY <1>c, <1>n, <1>k, <3>3
      <3> QED  BY <3>2, <3>3
    <2> QED  BY <2>1, <2>3, <2>4
  <1>z. ASSUME tailed' = {}, recs' = {}, \A f \in File : toJournal'[f] = 0 PROVE Goal
    BY <1>z, <1>n DEF InHand, Passed, Noted, NotedDone, Reached, Covered, Whole
  <1> HIDE DEF Goal
  <1>h. ASSUME UNCHANGED <<tailed, tail, toJournal, recs, batch>>
        PROVE  /\ Hand /\ Notes
               /\ \A f \in tailed' :
                    /\ Whole(tail'[f])
                    /\ tail'[f] <= 2 * Len(lines[f])
                       => \A i \in 1..Len(lines[f]) : \A k : k = KeyAt(f, i) /\ 2 * i <= tail'[f]
                            => Recorded(k)' \/ k \in recs' \cup batch'
    <2>1. Hand
      BY <1>h, <1>i
    <2>2. Notes
      BY <1>h, <1>o, <1>r
    <2> QED  BY <1>h, <1>e, <1>r, <2>1, <2>2
  <1>p. ASSUME UNCHANGED replaces PROVE Grown
    <2>1. ~MayReplace
      BY <1>p DEF MayReplace, TypeOK
    <2> QED  BY <1>g, <2>1
  <1>l. ASSUME UNCHANGED lines, NEW f \in File PROVE Len(lines'[f]) = Len(lines[f])
    BY <1>l
  <1> HIDE DEF Grown
  <1>1. ASSUME (\E f \in File : Truncate(f) \/ Remove(f)) \/ Boot PROVE Goal
    <2>1. /\ UNCHANGED <<tailed, recs, toJournal>> /\ pc = "down"
      BY <1>1 DEF Truncate, Remove, MayReplace, DownOnly, Boot
    <2>2. tailed = {} /\ recs = {} /\ \A f \in File : toJournal[f] = 0
      BY <2>1 DEF DownInv, AtRest
    <2> QED  BY <1>z, <2>1, <2>2
  <1>2. ASSUME Crash PROVE Goal
    BY <1>2, <1>z DEF Crash, Gone
  <1>3. ASSUME NEW f \in File, Create(f) PROVE Goal
    <2>1. /\ UNCHANGED <<replaces, console>> /\ f \notin present
          /\ lines' = [lines EXCEPT ![f] = << >>]
      BY <1>3 DEF Create
    <2>2. \A g \in tailed : lines'[g] = lines[g]
      <3>1. f \notin tailed
        BY <2>1 DEF DownInv, Listed
      <3> QED  BY <1>k, <2>1, <3>1 DEF TypeOK
    <2>3. Tails
      BY <1>h, <1>e, <2>1, <2>2
    <2> QED  BY <1>c, <1>h, <1>p, <2>1, <2>3
  <1>4. ASSUME NEW f \in File, NEW l \in Line, Append_(f, l) PROVE Goal
    <2>1. /\ UNCHANGED <<replaces, console>>
          /\ lines' = [lines EXCEPT ![f] = Append(@, l)]
          /\ ~(pc = "scan" \/ (pc = "poll" /\ f \in todo))
      BY <1>4 DEF Append_, DownOnly
    <2>2. ASSUME NEW g \in tailed, ~(tail'[g] <= 2 * Len(lines[g]))
          PROVE  /\ Len(lines'[g]) = Len(lines[g])
                 /\ pc' = "scan" \/ (pc' = "poll" /\ g \in todo')
      <3>1. g # f /\ (pc = "scan" \/ (pc = "poll" /\ g \in todo))
        BY <1>e, <2>1, <2>2
      <3>2. lines'[g] = lines[g]
        BY <1>k, <2>1, <3>1 DEF TypeOK
      <3> QED  BY <2>1, <3>1, <3>2
    <2>3. Tails
      BY <1>h, <2>1, <2>2
    <2> QED  BY <1>c, <1>h, <1>p, <2>1, <2>3
  <1>5. ASSUME (\E f \in File : AppendHalf(f)) \/ Tick \/ StartPoll \/ EndTick \/ UNCHANGED vars
        PROVE  Goal
    <2>1. UNCHANGED <<replaces, lines, tailed, tail, toJournal, recs, batch>>
      BY <1>5 DEF AppendHalf, Tick, StartPoll, EndTick, vars
    <2>2. \/ pc \in {"idle", "journal"} \/ (pc' = "poll" /\ todo' = tailed)
          \/ UNCHANGED <<pc, todo>>
      BY <1>5 DEF AppendHalf, Tick, StartPoll, EndTick, vars
    <2>3. Tails
      BY <1>h, <1>e, <2>1, <2>2
    <2> QED  BY <1>c, <1>h, <1>p, <2>1, <2>3
  <1>6. ASSUME NEW f \in File, AddFileSource(f) PROVE Goal
    <2>1. /\ UNCHANGED <<replaces, lines, half, toJournal, recs, batch, pc>> /\ pc = "scan"
          /\ tailed' = tailed \cup {f} /\ tail' = [tail EXCEPT ![f] = ResumeOffset(f)]
      BY <1>6 DEF AddFileSource
    <2>2. recs = {} /\ batch = {}
      BY <2>1 DEF DownInv, Settled
    <2>3. tail'[f] = ResumeOffset(f) /\ \A g \in File \ {f} : tail'[g] = tail[g]
      BY <2>1 DEF TypeOK
    <2>4. /\ Whole(ResumeOffset(f))
          /\ ResumeOffset(f) <= 2 * Len(lines[f])
               => \A i \in 1..Len(lines[f]) : 2 * i <= ResumeOffset(f) => Recorded(KeyAt(f, i))
      BY <1>n, <2>3, ResumedIsRecorded DEF Covered, FileBytes
    <2>5. Hand
      BY <2>1, <2>2
    <2>6. Notes
      BY <1>o, <1>r, <2>1
    <2>7. Tails
      <3>1. ASSUME NEW g \in tailed', g # f
            PROVE  /\ Whole(tail'[g])
                   /\ tail'[g] <= 2 * Len(lines[g])
                      => \A i \in 1..Len(lines[g]) : \A k : k = KeyAt(g, i) /\ 2 * i <= tail'[g]
                           => Recorded(k)' \/ k \in recs' \cup batch'
        BY <1>e, <1>r, <1>k, <2>1, <2>3, <3>1
      <3>2. ASSUME tail'[f] <= 2 * Len(lines[f]),
                   NEW i \in 1..Len(lines[f]), NEW k, k = KeyAt(f, i), 2 * i <= tail'[f]
            PROVE  Recorded(k)'
        BY <1>r, <2>3, <2>4, <3>2
      <3> QED  BY <1>l, <1>k, <2>1, <2>3, <2>4, <3>1, <3>2
    <2> QED  BY <1>c, <1>p, <2>1, <2>5, <2>6, <2>7
  <1>7. ASSUME NEW f \in File, PollSource(f) PROVE Goal
    <2>1. /\ UNCHANGED <<replaces, lines, toJournal, tailed, batch, pc>> /\ pc = "poll"
          /\ recs = {} /\ f \in todo /\ todo' = todo \ {f}
      BY <1>7 DEF PollSource
    <2>2. f \in present /\ f \in tailed
      BY <2>1 DEF DownInv, Listed
    <2> DEFINE from == EffectiveOffset(f, tail[f])
    <2>3. /\ recs' = {KeyAt(f, i) : i \in {j \in 1..Len(lines[f]) : 2 * j > from}}
          /\ tail' = [tail EXCEPT ![f] = IF 2 * Len(lines[f]) > from
                                         THEN 2 * Len(lines[f]) ELSE from]
      BY <1>7, <2>2 DEF PollSource
    <2>4. from \in Nat /\ (from = 0 \/ (from = tail[f] /\ from <= 2 * Len(lines[f])))
      <3>1. FileBytes(f) = 2 * Len(lines[f]) + half[f] /\ FileBytes(f) \in Nat
        BY <1>n DEF FileBytes
      <3>2. tail[f] <= FileBytes(f) => tail[f] <= 2 * Len(lines[f])
        BY <1>e, <1>n, <2>2, <3>1, WholeWithin
      <3>3. CASE FileBytes(f) < tail[f]
        BY <3>3 DEF EffectiveOffset
      <3>4. CASE ~(FileBytes(f) < tail[f])
        BY <1>n, <3>1, <3>2, <3>4 DEF EffectiveOffset
      <3> QED  BY <3>3, <3>4
    <2>5. tail'[f] = 2 * Len(lines[f]) /\ \A g \in File \ {f} : tail'[g] = tail[g]
      <3>1. (IF 2 * Len(lines[f]) > from THEN 2 * Len(lines[f]) ELSE from) = 2 * Len(lines[f])
        BY <1>n, <2>4
      <3> QED  BY <2>3, <3>1 DEF TypeOK
    <2> HIDE DEF from
    <2>6. Hand
      <3>1. \A i \in 1..Len(lines[f]) : KeyAt(f, i).file = f
        BY DEF KeyAt
      <3> QED  BY <1>n, <2>1, <2>2, <2>3, <2>5, <3>1
    <2>7. Notes
      BY <1>o, <1>r, <2>1
    <2>8. Tails
      <3>1. ASSUME NEW i \in 1..Len(lines[f]), NEW k, k = KeyAt(f, i)
            PROVE  Recorded(k)' \/ k \in recs' \cup batch'
        <4>1. CASE 2 * i > from
          BY <2>3, <3>1, <4>1
        <4>2. CASE ~(2 * i > from)
          BY <1>e, <1>n, <1>r, <2>1, <2>2, <2>4, <3>1, <4>2
        <4> QED  BY <4>1, <4>2
      <3>2. Whole(tail'[f]) /\ tail'[f] <= 2 * Len(lines[f])
        BY <1>n, <2>5, WholeLines
      <3>3. \A g \in tailed : g # f => tail'[g] = tail[g] /\ (g \in todo => g \in todo')
        BY <1>k, <2>1, <2>5
      <3>4. ASSUME NEW g \in tailed', g # f
            PROVE  /\ Whole(tail'[g])
                   /\ tail'[g] <= 2 * Len(lines[g])
                      => \A i \in 1..Len(lines[g]) : \A k : k = KeyAt(g, i) /\ 2 * i <= tail'[g]
                           => Recorded(k)' \/ k \in recs' \cup batch'
        BY <1>e, <1>r, <2>1, <3>3, <3>4
      <3>5. ASSUME NEW g \in tailed', ~(tail'[g] <= 2 * Len(lines[g]))
            PROVE  /\ Len(lines'[g]) = Len(lines[g])
                   /\ pc' = "scan" \/ (pc' = "poll" /\ g \in todo')
        BY <1>e, <2>1, <3>2, <3>3, <3>5
      <3> QED  BY <3>1, <3>2, <3>4, <3>5
    <2> QED  BY <1>c, <1>p, <2>1, <2>6, <2>7, <2>8
  <1>8. ASSUME NEW k \in recs, ConformRecord(k) \/ QuarantineRecord(k) PROVE Goal
    <2>1. /\ UNCHANGED <<replaces, lines, tail, tailed, todo, pc>> /\ recs' = recs \ {k}
          /\ batch \subseteq batch' /\ NextRecord(k) /\ NoteOffset(k)
      BY <1>8 DEF ConformRecord, QuarantineRecord
    <2>2. Recorded(k)' \/ k \in batch'
      <3>1. CASE ConformRecord(k)
        BY <3>1 DEF ConformRecord
      <3>2. CASE QuarantineRecord(k)
        <4>1. quar \in Seq(Key) /\ quar' = Append(quar, k)
          BY <3>2 DEF QuarantineRecord, TypeOK
        <4>2. Len(quar) + 1 \in DOMAIN quar' /\ quar'[Len(quar) + 1] = k
          BY <4>1
        <4> QED  BY <4>2 DEF Recorded
      <3> QED  BY <1>8, <3>1, <3>2
    <2>3. PICK f \in File : f = k.file /\ f \in tailed /\ tail[f] <= 2 * Len(lines[f])
      BY <1>i, <1>k
    <2>4. PICK j \in 1..Len(lines[f]) : k = KeyAt(f, j) /\ 2 * j <= tail[f]
      BY <1>i, <2>3
    <2>5. k.off = 2 * (j - 1) /\ RawBytes(k.line) = 1
      BY <2>4 DEF KeyAt, RawBytes, DownOnly
    <2>6. /\ toJournal'[f] = toJournal[f] \/ toJournal'[f] = 2 * j
          /\ \A g \in File \ {f} : toJournal'[g] = toJournal[g]
      <3>1. k.off + RawBytes(k.line) + 1 = 2 * j
        BY <1>n, <2>5
      <3> QED  BY <2>1, <2>3, <3>1 DEF NoteOffset, TypeOK
    <2>7. ASSUME NEW i \in 1..Len(lines[f]), i <= j, NEW c, c = KeyAt(f, i)
          PROVE  Recorded(c)' \/ c \in batch'
      <3>1. CASE i = j
        BY <2>2, <2>4, <2>7, <3>1
      <3>2. CASE i # j
        <4>1. c.off = 2 * (i - 1) /\ ~(k.off <= c.off)
          BY <1>n, <2>5, <2>7, <3>2 DEF KeyAt
        <4>2. c \notin recs
          BY <2>1, <4>1 DEF NextRecord
        <4>3. 2 * i <= tail[f]
          BY <1>n, <2>4, <2>7
        <4> QED  BY <1>e, <1>r, <2>1, <2>3, <2>7, <4>2, <4>3
      <3> QED  BY <3>1, <3>2
    <2>8. Hand
      BY <1>i, <2>1
    <2>9. Notes
      <3>1. Whole(2 * j) /\ 2 * j <= 2 * Len(lines[f])
        BY <1>n, WholeLines
      <3>2. \A i \in 1..Len(lines[f]) : 2 * i <= 2 * j => i <= j
        BY <1>n
      <3>3. CASE toJournal'[f] = 2 * j
        BY <1>o, <1>r, <2>1, <2>6, <2>7, <3>1, <3>2, <3>3
      <3>4. CASE toJournal'[f] = toJournal[f]
        BY <1>o, <1>r, <2>1, <2>6, <3>4
      <3> QED  BY <2>6, <3>3, <3>4
    <2>10. Tails
      BY <1>e, <1>r, <2>1, <2>2
    <2> QED  BY <1>c, <1>p, <2>1, <2>8, <2>9, <2>10
  <1>9. ASSUME InsertBatch PROVE Goal
    <2>1. /\ UNCHANGED <<replaces, lines, tail, tailed, toJournal>> /\ recs = {} /\ recs' = {}
          /\ events' = events \cup batch /\ pc = "poll" /\ todo = {}
      BY <1>9 DEF InsertBatch
    <2>2. \A c \in batch : Recorded(c)'
      BY <2>1 DEF Recorded
    <2>3. Hand
      BY <2>1
    <2>4. Notes
      BY <1>o, <1>r, <2>1, <2>2
    <2>5. Tails
      BY <1>e, <1>r, <2>1, <2>2
    <2> QED  BY <1>c, <1>p, <2>1, <2>3, <2>4, <2>5
  <1>10. ASSUME NEW f \in File, SetOffset(f) PROVE Goal
    <2>1. /\ UNCHANGED <<replaces, lines, tail, tailed, recs, batch, pc, todo>>
          /\ toJournal' = [toJournal EXCEPT ![f] = 0]
      BY <1>10 DEF SetOffset
    <2>2. toJournal'[f] = 0 /\ \A g \in File \ {f} : toJournal'[g] = toJournal[g]
      BY <2>1 DEF TypeOK
    <2>3. Hand
      BY <1>i, <2>1
    <2>4. Notes
      <3>1. Whole(0) /\ 0 <= 2 * Len(lines[f])
        BY <1>n DEF Whole
      <3> QED  BY <1>n, <1>o, <1>r, <2>1, <2>2, <3>1
    <2>5. Tails
      BY <1>e, <1>r, <2>1
    <2> QED  BY <1>c, <1>p, <2>1, <2>3, <2>4, <2>5
  <1> QED
    BY <1>1, <1>2, <1>3, <1>4, <1>5, <1>6, <1>7, <1>8, <1>9, <1>10, NoFault
       DEF Goal, Next, ProductStep, ConsoleStep, FailureStep

\* Every reachable state of such a bus satisfies the inductive invariant.
LEMMA DownInvariant == ASSUME DownOnly PROVE Spec => []DownInv
  <1>1. Init => DownInv
    BY ConstantsAssumption
       DEF Init, NoRow, DownInv, AbsentIsEmpty, Settled, Short, AtRest, Listed, RowsTrue, TrueRow,
           InHand, Passed, Noted, NotedDone, Reached, Covered, Whole, LineBytes
  <1>2. TypeOK /\ TypeOK' /\ DownInv /\ [Next]_vars => DownInv'
    BY DownRest, DownRows, DownHand DEF DownInv
  <1> QED  BY <1>1, <1>2, TypeCorrect, PTL DEF Spec

\* A file truncated, removed or recreated while the console is down, under a
\* reused inode too, is never resumed at its predecessor's offset and no line of
\* it is passed over, for any number of streams, replacements, ticks and process
\* deaths: add_file_source goes by the inode and by head_fingerprint, and as long
\* as the fingerprint spans the file the two leave no line out.
THEOREM ReplacedWhileDownLosesNothing ==
    ASSUME DownOnly PROVE Spec => [](NothingLost /\ ResumeIsSafe)
  <1>1. TypeOK /\ DownInv => NothingLost
    <2> SUFFICES ASSUME TypeOK, DownInv, NEW f \in tailed, NEW i \in 1..Len(lines[f]),
                        LineBytes * i <= EffectiveOffset(f, tail[f])
                 PROVE  Recorded(KeyAt(f, i)) \/ KeyAt(f, i) \in recs \cup batch
      BY DEF NothingLost
    <2>1. /\ f \in File /\ Len(lines[f]) \in Nat /\ half[f] \in {0, 1} /\ tail[f] \in Nat
      BY DEF TypeOK
    <2>2. tail[f] <= FileBytes(f) /\ LineBytes * i <= tail[f]
      BY <2>1 DEF EffectiveOffset, FileBytes, LineBytes
    <2>3. tail[f] <= LineBytes * Len(lines[f])
      BY <2>1, <2>2, WholeWithin DEF DownInv, Reached, FileBytes
    <2> QED  BY <2>2, <2>3 DEF DownInv, Reached, Covered
  <1>2. TypeOK /\ DownInv => ResumeIsSafe
    <2> SUFFICES ASSUME TypeOK, DownInv, NEW f \in File, NEW i \in 1..Len(lines[f]),
                        LineBytes * i <= EffectiveOffset(f, ResumeOffset(f))
                 PROVE  Recorded(KeyAt(f, i))
      BY DEF ResumeIsSafe
    <2>1. Len(lines[f]) \in Nat /\ half[f] \in {0, 1} /\ ResumeOffset(f) \in Nat
      BY DEF TypeOK, ResumeOffset, SourceState
    <2>2. ResumeOffset(f) <= FileBytes(f) /\ LineBytes * i <= ResumeOffset(f)
      BY <2>1 DEF EffectiveOffset, FileBytes, LineBytes
    <2> QED  BY <2>2, ResumedIsRecorded DEF Covered
  <1> QED  BY <1>1, <1>2, TypeCorrect, DownInvariant, PTL

-----------------------------------------------------------------------------
(***************************************************************************)
(* The bus implements the log, with everything the code has to live with:   *)
(* replaced files, failed reads and writes, lines that are not UTF-8.  What *)
(* is on disk or in the hands of a tick was completed by a product.         *)
(***************************************************************************)
OnDisk    == \A f \in File : \A i \in 1..Len(lines[f]) : KeyAt(f, i) \in ever
Published == recs \cup batch \subseteq ever
LogInv    == TypeOK /\ OnDisk /\ Published

Rows == events \cup {quar[n] : n \in DOMAIN quar}

LEMMA OnDiskStep ==
    ASSUME LogInv, [Next]_vars
    PROVE  OnDisk'
  <1> USE DEF disk, LineBytes
  <1>0. lines \in [File -> Seq(Line)]
    BY DEF LogInv, TypeOK
  <1>1. CASE UNCHANGED <<lines, ever>>
    BY <1>1 DEF LogInv, OnDisk, KeyAt
  <1>2. ASSUME NEW f \in File, ever' = ever, lines' = [lines EXCEPT ![f] = << >>] PROVE OnDisk'
    BY <1>0, <1>2 DEF LogInv, OnDisk, KeyAt
  <1>3. ASSUME NEW f \in File, NEW l \in Line, Append_(f, l) PROVE OnDisk'
    <2>1. /\ lines' = [lines EXCEPT ![f] = Append(@, l)]
          /\ ever' = ever \cup {[file |-> f, off |-> 2 * Len(lines[f]), line |-> l]}
      BY <1>3 DEF Append_
    <2>2. lines[f] \in Seq(Line) /\ Len(lines[f]) \in Nat
      BY <1>0
    <2>3. lines'[f] = Append(lines[f], l)
      BY <1>0, <2>1
    <2>4. Len(lines'[f]) = Len(lines[f]) + 1
      BY <2>2, <2>3
    <2> SUFFICES ASSUME NEW g \in File, NEW i \in 1..Len(lines'[g])
                 PROVE  [file |-> g, off |-> 2 * (i - 1), line |-> lines'[g][i]] \in ever'
      BY DEF OnDisk, KeyAt
    <2>5. CASE g # f
      BY <1>0, <2>1, <2>5 DEF LogInv, OnDisk, KeyAt
    <2>6. CASE g = f /\ i = Len(lines[f]) + 1
      <3>1. lines'[f][i] = l /\ i - 1 = Len(lines[f])
        BY <2>2, <2>3, <2>6
      <3>2. QED
        BY <2>1, <2>6, <3>1
    <2>7. CASE g = f /\ i \in 1..Len(lines[f])
      <3>1. lines'[f][i] = lines[f][i]
        BY <2>2, <2>3, <2>7
      <3>2. QED
        BY <2>1, <2>7, <3>1 DEF LogInv, OnDisk, KeyAt
    <2>8. QED
      BY <2>2, <2>4, <2>5, <2>6, <2>7
  <1>4. CASE ProductStep
    <2>1. PICK f \in File : \/ Create(f) \/ AppendHalf(f) \/ Truncate(f) \/ Remove(f)
                            \/ \E l \in Line : Append_(f, l)
      BY <1>4 DEF ProductStep
    <2>2. CASE Create(f) \/ Truncate(f) \/ Remove(f)
      BY <1>2, <2>2 DEF Create, Truncate, Remove
    <2>3. CASE AppendHalf(f)
      BY <1>1, <2>3 DEF AppendHalf
    <2>4. QED
      BY <1>3, <2>1, <2>2, <2>3
  <1>5. CASE ConsoleStep
    BY <1>1, <1>5 DEF ConsoleStep, Boot, Tick, StartPoll, InsertBatch, EndTick, AddFileSource, PollSource,
                      SetOffset, ConformRecord, QuarantineRecord
  <1>6. CASE FailureStep
    BY <1>1, <1>6 DEF FailureStep, BootFails, StoreWriteFails, Crash, AddFileSourceFails, PollSourceFails, Abandon
  <1>7. CASE UNCHANGED vars
    BY <1>1, <1>7 DEF vars
  <1>8. QED
    BY <1>4, <1>5, <1>6, <1>7 DEF Next

LEMMA PublishedStep ==
    ASSUME LogInv, [Next]_vars
    PROVE  Published'
  <1> USE DEF disk, console, LineBytes
  <1>1. ASSUME ever \subseteq ever', recs' \cup batch' \subseteq recs \cup batch PROVE Published'
    BY <1>1 DEF LogInv, Published
  <1>2. ASSUME NEW f \in File, PollSource(f) PROVE Published'
    <2>1. UNCHANGED <<ever, batch>> /\ recs = {}
      BY <1>2 DEF PollSource
    <2>2. CASE f \notin present
      BY <1>1, <1>2, <2>1, <2>2 DEF PollSource
    <2>3. CASE f \in present
      BY <1>2, <2>1, <2>3 DEF PollSource, LogInv, OnDisk, Published
    <2>4. QED
      BY <2>2, <2>3
  <1>3. CASE ProductStep
    BY <1>1, <1>3 DEF ProductStep, Create, AppendHalf, Truncate, Remove, Append_
  <1>4. CASE ConsoleStep
    BY <1>1, <1>2, <1>4 DEF ConsoleStep, Boot, Tick, StartPoll, InsertBatch, EndTick, AddFileSource,
                            SetOffset, ConformRecord, QuarantineRecord
  <1>5. CASE FailureStep
    BY <1>1, <1>5 DEF FailureStep, BootFails, StoreWriteFails, Crash, AddFileSourceFails, PollSourceFails, Abandon, Gone
  <1>6. CASE UNCHANGED vars
    BY <1>1, <1>6 DEF vars
  <1>7. QED
    BY <1>3, <1>4, <1>5, <1>6 DEF Next

\* A step publishes a line, records published ones, forgets rows, or changes
\* nothing a reader of the log can see.
LEMMA LogStep ==
    ASSUME LogInv, [Next]_vars
    PROVE  [Log!Next]_(Log!vars)
  <1> USE DEF disk, store, LineBytes
  <1>0. /\ quar \in Seq(Key) /\ lines \in [File -> Seq(Line)]
        /\ MaxLines \in Nat
    BY ConstantsAssumption DEF LogInv, TypeOK
  <1>1. ASSUME UNCHANGED <<ever, events, quar, pruned>> PROVE [Log!Next]_(Log!vars)
    BY <1>1 DEF Log!vars
  <1>2. ASSUME NEW f \in File, NEW l \in Line, Append_(f, l) PROVE [Log!Next]_(Log!vars)
    <2> DEFINE m == [file |-> f, off |-> 2 * Len(lines[f]), line |-> l]
    <2>1. /\ ever' = ever \cup {m} /\ UNCHANGED <<events, quar, pruned>>
          /\ Len(lines[f]) < MaxLines
      BY <1>2 DEF Append_
    <2>2. Len(lines[f]) + 1 \in 1..MaxLines /\ Len(lines[f]) = (Len(lines[f]) + 1) - 1
      BY <1>0, <2>1
    <2>3. m \in [file : File, off : {2 * (i - 1) : i \in 1..MaxLines}, line : Line]
      BY <2>2
    <2>4. QED
      BY <2>1, <2>3 DEF Log!Next, Log!Publish
  <1>3. ASSUME UNCHANGED <<ever, pruned>>, Rows \subseteq Rows', Rows' \subseteq Rows \cup ever
        PROVE  [Log!Next]_(Log!vars)
    BY <1>3 DEF Log!Next, Log!Record, Rows
  <1>4. ASSUME UNCHANGED ever, PruneHistory PROVE [Log!Next]_(Log!vars)
    <2>0. Len(quar) \in Nat
      BY <1>0
    <2>1. PICK n \in 0..Len(quar) :
            /\ events' = events \ {e \in events : e.line \in Old}
            /\ quar' = SubSeq(quar, n + 1, Len(quar))
            /\ pruned' = pruned \cup {e \in events : e.line \in Old}
                               \cup {quar[i] : i \in 1..n}
      <3> DEFINE Ages == IF QuarAges THEN 0..Len(quar) ELSE {0}
      <3>1. Ages \subseteq 0..Len(quar)
        BY <2>0
      <3>2. PICK n \in Ages :
              /\ events' = events \ {e \in events : e.line \in Old}
              /\ quar' = SubSeq(quar, n + 1, Len(quar))
              /\ pruned' = pruned \cup {e \in events : e.line \in Old}
                                 \cup {quar[i] : i \in 1..n}
        BY <1>4, Zenon DEF PruneHistory
      <3> HIDE DEF Ages
      <3>3. QED
        BY <3>1, <3>2
    <2>2. /\ DOMAIN quar = 1..Len(quar) /\ Len(quar) \in Nat
          /\ DOMAIN quar' = 1..(Len(quar) - n)
          /\ \A i \in DOMAIN quar' : quar'[i] = quar[i + n]
      BY <1>0, <2>1
    <2>3. Rows' \subseteq Rows
      <3>1. \A i \in DOMAIN quar' : i + n \in DOMAIN quar
        BY <2>2
      <3>2. QED
        BY <2>1, <2>2, <3>1 DEF Rows
    <2>4. Rows \subseteq Rows' \cup pruned'
      <3>1. ASSUME NEW i \in DOMAIN quar PROVE quar[i] \in Rows' \cup pruned'
        <4>1. CASE i <= n
          BY <2>1, <2>2, <4>1
        <4>2. CASE i > n
          <5>1. i - n \in DOMAIN quar' /\ (i - n) + n = i
            BY <2>2, <4>2
          <5>2. quar'[i - n] = quar[i]
            BY <2>2, <5>1
          <5>3. QED
            BY <5>1, <5>2 DEF Rows
        <4>3. QED
          BY <2>2, <4>1, <4>2
      <3>2. QED
        BY <2>1, <3>1 DEF Rows
    <2>5. pruned \subseteq pruned' /\ pruned' \subseteq pruned \cup Rows
      BY <2>1, <2>2 DEF Rows
    <2>6. QED
      BY <1>4, <2>3, <2>4, <2>5 DEF Log!Next, Log!Forget, Rows
  <1>5. CASE Boot
    BY <1>1, <1>4, <1>5 DEF Boot
  <1>6. CASE InsertBatch
    BY <1>3, <1>6 DEF InsertBatch, Rows, LogInv, Published
  <1>7. ASSUME NEW k \in recs, QuarantineRecord(k) PROVE [Log!Next]_(Log!vars)
    <2>1. quar' = Append(quar, k) /\ UNCHANGED <<ever, pruned, events>> /\ k \in ever /\ k \in Key
      BY <1>7 DEF QuarantineRecord, LogInv, Published, TypeOK
    <2>2. /\ DOMAIN quar' = DOMAIN quar \cup {Len(quar) + 1}
          /\ \A i \in DOMAIN quar : quar'[i] = quar[i]
          /\ quar'[Len(quar) + 1] = k
      BY <1>0, <2>1
    <2>3. Rows' = Rows \cup {k}
      BY <2>1, <2>2 DEF Rows
    <2>4. QED
      BY <1>3, <2>1, <2>3
  <1>8. CASE ProductStep
    BY <1>1, <1>2, <1>8 DEF ProductStep, Create, AppendHalf, Truncate, Remove
  <1>9. CASE ConsoleStep
    BY <1>1, <1>5, <1>6, <1>7, <1>9
       DEF ConsoleStep, Tick, StartPoll, EndTick, AddFileSource, PollSource, SetOffset, ConformRecord
  <1>10. CASE FailureStep
    BY <1>1, <1>10 DEF FailureStep, BootFails, StoreWriteFails, Crash, AddFileSourceFails, PollSourceFails, Abandon
  <1>11. CASE UNCHANGED vars
    BY <1>1, <1>11 DEF vars
  <1>12. QED
    BY <1>8, <1>9, <1>10, <1>11 DEF Next

\* The bus implements the safety of the log, from the files to the tables, for
\* any streams, lines, replacements, failures and process deaths: the tables
\* only ever gain lines that a product completed, and only the retention
\* horizon takes one out.
THEOREM ImplementsLogSafety == Spec => Log!Safety
  <1>1. Init => Log!Init
    BY DEF Init, Log!Init
  <1>2. Init => OnDisk /\ Published
    BY DEF Init, OnDisk, Published
  <1>3. TypeOK /\ OnDisk /\ Published /\ [Next]_vars => OnDisk' /\ Published'
    BY OnDiskStep, PublishedStep DEF LogInv
  <1>4. TypeOK /\ OnDisk /\ Published /\ [Next]_vars => [Log!Next]_(Log!vars)
    BY LogStep DEF LogInv
  <1>5. QED
    BY <1>1, <1>2, <1>3, <1>4, TypeCorrect, PTL DEF Spec, Log!Safety
=============================================================================
