------------------------- MODULE ConsoleChainProofs -------------------------
(***************************************************************************)
(* Proofs about ConsoleChain, for every set of calls and every bound.       *)
(***************************************************************************)
EXTENDS ConsoleChain, TLAPS

(***************************************************************************)
(* Types.                                                                   *)
(***************************************************************************)

\* Whatever lands at the end of the file is an entry, and the hash of a tail is
\* a hash.
LEMMA HashTyping ==
    ASSUME TypeOK
    PROVE  /\ TailHash \in Hash
           /\ Seeds \subseteq Hash
           /\ \A id \in Call \cup {Foreign} : \A p \in Hash : Landed(id, p) \in Entry
  <1>1. TailHash \in Hash
    <2>1. CASE frag # None
      BY <2>1 DEF TypeOK, TailHash, LineHash, Hash
    <2>2. CASE frag = None /\ file = << >>
      BY <2>2 DEF TailHash, Hash
    <2>3. CASE frag = None /\ file # << >>
      <3>1. file[Len(file)] \in Entry
        BY <2>3 DEF TypeOK
      <3>2. file[Len(file)].id \in Call \cup {Foreign, Garbled}
        BY <3>1 DEF Entry
      <3>3. QED
        BY <2>3, <3>2 DEF TailHash, LineHash, Hash
    <2>4. QED
      BY <2>1, <2>2, <2>3
  <1>2. Seeds \subseteq Hash
    BY <1>1 DEF Seeds, Hash
  <1>3. \A id \in Call \cup {Foreign} : \A p \in Hash : Landed(id, p) \in Entry
    BY DEF Landed, Entry, Hash
  <1>4. QED
    BY <1>1, <1>2, <1>3

\* A call's move keeps pc a function into the stages.
LEMMA MoveTyping ==
    ASSUME TypeOK, NEW c \in Call, NEW from, NEW to \in Stage, Move(c, from, to)
    PROVE  pc' \in [Call -> Stage]
  BY DEF TypeOK, Move

LEMMA FaultTyping ==
    ASSUME TypeOK, NEW kind, Fault(kind)
    PROVE  foreigns' \in Nat /\ truncates' \in Nat /\ crashes' \in Nat /\ faults' \in Nat
  BY DEF TypeOK, Fault

LEMMA TypeStep == TypeOK /\ [Next]_vars => TypeOK'
  <1> SUFFICES ASSUME TypeOK, [Next]_vars PROVE TypeOK'
    OBVIOUS
  <1>a. /\ "idle" \in Stage /\ "opened" \in Stage /\ "journaled" \in Stage
        /\ "linked" \in Stage /\ "ok" \in Stage /\ "failed" \in Stage
        /\ "lost" \in Stage
    BY DEF Stage
  <1>1. ASSUME NEW c \in Call, Mutate(c) PROVE TypeOK'
    BY <1>a, <1>1, MoveTyping DEF Mutate, TypeOK, bounds
  <1>2. ASSUME NEW c \in Call, RefuseUnjustified(c) PROVE TypeOK'
    BY <1>a, <1>2, MoveTyping DEF RefuseUnjustified, TypeOK, bounds
  <1>3. ASSUME NEW c \in Call, InsertCommand(c) PROVE TypeOK'
    BY <1>a, <1>3, MoveTyping DEF InsertCommand, TypeOK, bounds
  <1>4. ASSUME NEW c \in Call, JournalFails(c) PROVE TypeOK'
    <2>1. pc' \in [Call -> Stage]
      BY <1>a, <1>4, MoveTyping DEF JournalFails
    <2>2. foreigns' \in Nat /\ truncates' \in Nat /\ crashes' \in Nat /\ faults' \in Nat
      BY <1>4, FaultTyping DEF JournalFails
    <2>3. QED
      BY <1>4, <2>1, <2>2 DEF JournalFails, TypeOK
  <1>5. ASSUME NEW c \in Call, SinkFor(c) PROVE TypeOK'
    <2>1. pc' \in [Call -> Stage]
      BY <1>a, <1>5, MoveTyping DEF SinkFor
    <2>2. foreigns' \in Nat /\ truncates' \in Nat /\ crashes' \in Nat /\ faults' \in Nat
      BY <1>5, FaultTyping DEF SinkFor, TypeOK, bounds
    <2>3. next' \in Hash
      BY <1>5, HashTyping DEF SinkFor, TypeOK, Hash
    <2>4. QED
      BY <1>5, <2>1, <2>2, <2>3 DEF SinkFor, TypeOK
  <1>6. ASSUME NEW c \in Call, SinkForFails(c) PROVE TypeOK'
    <2>1. pc' \in [Call -> Stage]
      BY <1>a, <1>6, MoveTyping DEF SinkForFails
    <2>2. foreigns' \in Nat /\ truncates' \in Nat /\ crashes' \in Nat /\ faults' \in Nat
      BY <1>6, FaultTyping DEF SinkForFails
    <2>3. QED
      BY <1>6, <2>1, <2>2 DEF SinkForFails, TypeOK
  <1>7. ASSUME NEW c \in Call, AppendChained(c) PROVE TypeOK'
    <2>1. pc' \in [Call -> Stage]
      BY <1>a, <1>7, MoveTyping DEF AppendChained
    <2>2. Landed(c, next) \in Entry
      BY HashTyping DEF TypeOK
    <2>3. file' \in Seq(Entry)
      BY <1>7, <2>2 DEF AppendChained, TypeOK
    <2>4. QED
      BY <1>7, <2>1, <2>3 DEF AppendChained, TypeOK, Hash, bounds
  <1>8. ASSUME NEW c \in Call, AppendFails(c) PROVE TypeOK'
    <2>1. pc' \in [Call -> Stage]
      BY <1>a, <1>8, MoveTyping DEF AppendFails
    <2>2. foreigns' \in Nat /\ truncates' \in Nat /\ crashes' \in Nat /\ faults' \in Nat
      BY <1>8, FaultTyping DEF AppendFails, Leftover
    <2>3. frag' \in Call \cup {None, Garbled}
      BY <1>8 DEF AppendFails, Leftover, TypeOK
    <2>4. QED
      BY <1>8, <2>1, <2>2, <2>3 DEF AppendFails, TypeOK
  <1>9. CASE ForeignAppend
    <2>1. Landed(Foreign, None) \in Entry
      BY HashTyping DEF Hash
    <2>2. file' \in Seq(Entry)
      BY <1>9, <2>1 DEF ForeignAppend, TypeOK
    <2>3. QED
      BY <1>9, <2>2 DEF ForeignAppend, TypeOK
  <1>10. CASE Truncate
    BY <1>10 DEF Truncate, TypeOK
  <1>11. CASE Crash
    <2>1. pc' \in [Call -> Stage]
      BY <1>11, <1>a DEF Crash, TypeOK
    <2>2. QED
      BY <1>11, <2>1 DEF Crash, TypeOK, Hash
  <1>12. CASE UNCHANGED vars
    BY <1>12 DEF vars, bounds, TypeOK
  <1>13. QED
    BY <1>1, <1>2, <1>3, <1>4, <1>5, <1>6, <1>7, <1>8, <1>9, <1>10, <1>11, <1>12
       DEF Next, Step, Finished

LEMMA TypeInit == Init => TypeOK
  BY DEF Init, TypeOK, Hash, Stage

\* The variables keep their types whatever the calls, the other writers, the
\* failures and the restarts do.
THEOREM TypeCorrect == Spec => []TypeOK
  BY TypeInit, TypeStep, PTL DEF Spec

(***************************************************************************)
(* The row comes first.                                                     *)
(***************************************************************************)

\* A call past InsertCommand has its row; the invariant that makes
\* EveryLineHasRow inductive.
RowFirst == \A c \in Call : pc[c] \in {"journaled", "linked"} => c \in rows
RowInv   == TypeOK /\ RowFirst /\ EveryLineHasRow

\* Appending an entry adds exactly that entry.
LEMMA AppendedEntry ==
    ASSUME TypeOK, NEW e \in Entry, file' = Append(file, e)
    PROVE  /\ Len(file') = Len(file) + 1
           /\ file'[Len(file) + 1] = e
           /\ \A i \in 1..Len(file) : file'[i] = file[i]
           /\ \A i \in 1..Len(file') : i \in 1..Len(file) \/ i = Len(file) + 1
  <1>1. file \in Seq(Entry)
    BY DEF TypeOK
  <1>2. Len(file) \in Nat /\ Len(file') = Len(file) + 1
    BY <1>1
  <1>3. QED
    BY <1>1, <1>2

LEMMA RowStep == RowInv /\ [Next]_vars => RowInv'
  <1> SUFFICES ASSUME RowInv, [Next]_vars PROVE RowInv'
    OBVIOUS
  <1>0. TypeOK /\ TypeOK'
    BY TypeStep DEF RowInv
  <1>1. ASSUME NEW c \in Call,
               \/ Mutate(c) \/ RefuseUnjustified(c) \/ JournalFails(c)
               \/ SinkFor(c) \/ SinkForFails(c) \/ AppendFails(c)
        PROVE  RowInv'
    <2>1. /\ file' = file /\ rows' = rows
          /\ \A d \in Call : pc'[d] \in {"journaled", "linked"} => pc[d] \in {"journaled", "linked"}
      BY <1>0, <1>1 DEF Mutate, RefuseUnjustified, JournalFails, SinkFor,
            SinkForFails, AppendFails, Move, TypeOK
    <2>2. QED
      BY <1>0, <2>1 DEF RowInv, RowFirst, EveryLineHasRow
  <1>2. ASSUME NEW c \in Call, InsertCommand(c) PROVE RowInv'
    <2>1. /\ file' = file /\ rows' = rows \cup {c} /\ c \notin Unjustified
          /\ \A d \in Call : d # c => pc'[d] = pc[d]
      BY <1>0, <1>2 DEF InsertCommand, Move, TypeOK
    <2>2. RowFirst'
      BY <2>1 DEF RowInv, RowFirst
    <2>3. EveryLineHasRow'
      BY <2>1 DEF RowInv, EveryLineHasRow
    <2>4. QED
      BY <1>0, <2>2, <2>3 DEF RowInv
  <1>3. ASSUME NEW c \in Call, AppendChained(c) PROVE RowInv'
    <2>1. /\ rows' = rows /\ c \in rows
          /\ \A d \in Call : pc'[d] \in {"journaled", "linked"} => pc[d] \in {"journaled", "linked"}
      BY <1>0, <1>3 DEF AppendChained, Move, TypeOK, RowInv, RowFirst
    <2>2. Landed(c, next) \in Entry /\ Landed(c, next).id \in {c, Garbled}
      BY <1>0, HashTyping DEF Landed, TypeOK
    <2>3. file' = Append(file, Landed(c, next))
      BY <1>3 DEF AppendChained
    <2>4. \A i \in 1..Len(file') : file'[i].id \in Call => file'[i].id \in rows'
      BY <1>0, <2>1, <2>2, <2>3, AppendedEntry, ConstantsAssumption DEF RowInv, EveryLineHasRow
    <2>5. QED
      BY <1>0, <2>1, <2>4 DEF RowInv, RowFirst, EveryLineHasRow
  <1>4. CASE ForeignAppend
    <2>1. rows' = rows /\ pc' = pc
      BY <1>4 DEF ForeignAppend
    <2>2. Landed(Foreign, None) \in Entry /\ Landed(Foreign, None).id \notin Call
      BY <1>0, HashTyping, ConstantsAssumption DEF Landed, Hash
    <2>3. file' = Append(file, Landed(Foreign, None))
      BY <1>4 DEF ForeignAppend
    <2>4. \A i \in 1..Len(file') : file'[i].id \in Call => file'[i].id \in rows'
      BY <1>0, <2>1, <2>2, <2>3, AppendedEntry DEF RowInv, EveryLineHasRow
    <2>5. QED
      BY <1>0, <2>1, <2>4 DEF RowInv, RowFirst, EveryLineHasRow
  <1>5. CASE Truncate
    BY <1>0, <1>5 DEF Truncate, RowInv, RowFirst, EveryLineHasRow
  <1>6. CASE Crash
    BY <1>0, <1>6 DEF Crash, RowInv, RowFirst, EveryLineHasRow
  <1>7. CASE UNCHANGED vars
    BY <1>0, <1>7 DEF vars, RowInv, RowFirst, EveryLineHasRow
  <1>8. QED
    BY <1>1, <1>2, <1>3, <1>4, <1>5, <1>6, <1>7 DEF Next, Step, Finished

\* record journals before it emits: no readable console line without its
\* commands_journal row, and no row for an override without a reason, under any
\* interleaving, failure, restart and interference with the file.
THEOREM EveryLineHasRowHolds == Spec => []EveryLineHasRow
  <1>1. Init => RowInv
    <2>1. Init => TypeOK
      BY TypeInit
    <2>2. Init => RowFirst /\ EveryLineHasRow
      BY DEF Init, RowFirst, EveryLineHasRow
    <2>3. QED
      BY <2>1, <2>2 DEF RowInv
  <1>2. RowInv => EveryLineHasRow
    BY DEF RowInv
  <1>3. QED
    BY <1>1, <1>2, RowStep, PTL DEF Spec

(***************************************************************************)
(* The chain never forks.                                                   *)
(***************************************************************************)

\* Some line carries p as its prev_hash.
Named(p) == \E i \in 1..Len(file) : file[i].prev = p

\* Whatever can be linked to next has been written, and nothing links to it
\* yet: the last line, an unterminated last line, and the sink's next.
Tip(p) ==
    \/ file # << >> /\ file[Len(file)].id = p
    \/ frag = p
    \/ sink = "open" /\ next = p

TipsAreFree == \A p \in Call : Tip(p) => ~ Named(p) /\ pc[p] \in {"ok", "failed"}
NamedIsDone == \A p \in Call : Named(p) => pc[p] \in {"ok", "failed"}
\* A call that holds the sink holds a registered one.
LinkedIsOpen == \A c \in Call : pc[c] = "linked" => sink = "open"
ForkInv == TypeOK /\ LinkedIsOpen /\ TipsAreFree /\ NamedIsDone /\ NoFork

LEMMA LinkedStep == TypeOK /\ LinkedIsOpen /\ [Next]_vars => LinkedIsOpen'
  <1> SUFFICES ASSUME TypeOK, LinkedIsOpen, [Next]_vars PROVE LinkedIsOpen'
    OBVIOUS
  <1>1. ASSUME NEW c \in Call, Step(c) PROVE LinkedIsOpen'
    <2>1. CASE SinkFor(c)
      BY <2>1 DEF SinkFor, LinkedIsOpen
    <2>2. CASE ~ SinkFor(c)
      <3>1. sink' = sink /\ \A d \in Call : pc'[d] = "linked" => pc[d] = "linked"
        BY <1>1, <2>2 DEF Step, Mutate, RefuseUnjustified, InsertCommand, JournalFails,
              SinkForFails, AppendChained, AppendFails, Move, TypeOK
      <3>2. QED
        BY <3>1 DEF LinkedIsOpen
    <2>3. QED
      BY <2>1, <2>2
  <1>2. CASE ForeignAppend \/ Truncate
    BY <1>2 DEF ForeignAppend, Truncate, LinkedIsOpen
  <1>3. CASE Crash
    BY <1>3 DEF Crash, LinkedIsOpen
  <1>4. CASE UNCHANGED vars
    BY <1>4 DEF vars, LinkedIsOpen
  <1>5. QED
    BY <1>1, <1>2, <1>3, <1>4 DEF Next, Finished

\* A seed is a tip, or nothing.
LEMMA SeedIsTip ==
    ASSUME TypeOK, NEW h \in Seeds, h \in Call
    PROVE  Tip(h)
  <1>1. h = TailHash
    BY ConstantsAssumption DEF Seeds
  <1>2. CASE frag # None
    BY <1>1, <1>2, ConstantsAssumption DEF TailHash, LineHash, Tip
  <1>3. CASE frag = None
    BY <1>1, <1>3, ConstantsAssumption DEF TailHash, LineHash, Tip
  <1>4. QED
    BY <1>2, <1>3

\* A step that leaves the file alone keeps the invariant if each new tip is an
\* old one, or a call that was being written.
LEMMA FileUntouched ==
    ASSUME ForkInv, TypeOK', LinkedIsOpen', file' = file,
           \A p \in Call : pc[p] \in {"ok", "failed"} => pc'[p] = pc[p],
           \A p \in Call : Tip(p)' => \/ Tip(p)
                                      \/ pc[p] = "linked" /\ pc'[p] \in {"ok", "failed"}
    PROVE  ForkInv'
  <1>1. \A p \in Call : Named(p)' <=> Named(p)
    BY DEF Named
  <1>2. NamedIsDone'
    BY <1>1 DEF ForkInv, NamedIsDone
  <1>3. \A p \in Call : pc[p] = "linked" => ~ Named(p)
    BY DEF ForkInv, NamedIsDone
  <1>4. TipsAreFree'
    BY <1>1, <1>3 DEF ForkInv, TipsAreFree
  <1>5. NoFork'
    BY DEF ForkInv, NoFork
  <1>6. QED
    BY <1>2, <1>4, <1>5 DEF ForkInv

LEMMA ForkStep == ForkInv /\ [Next]_vars => ForkInv'
  <1> SUFFICES ASSUME ForkInv, [Next]_vars PROVE ForkInv'
    OBVIOUS
  <1>0. TypeOK /\ TypeOK' /\ LinkedIsOpen'
    BY TypeStep, LinkedStep DEF ForkInv
  <1>1. ASSUME NEW c \in Call,
               \/ Mutate(c) \/ RefuseUnjustified(c) \/ InsertCommand(c)
               \/ JournalFails(c) \/ SinkForFails(c)
        PROVE  ForkInv'
    <2>1. /\ file' = file /\ frag' = frag /\ sink' = sink /\ next' = next
          /\ \A p \in Call : pc[p] \in {"ok", "failed"} => pc'[p] = pc[p]
      BY <1>0, <1>1 DEF Mutate, RefuseUnjustified, InsertCommand, JournalFails,
            SinkForFails, Move, TypeOK
    <2>2. \A p \in Call : Tip(p)' => Tip(p)
      BY <2>1 DEF Tip
    <2>3. QED
      BY <1>0, <2>1, <2>2, FileUntouched
  <1>2. ASSUME NEW c \in Call, SinkFor(c) PROVE ForkInv'
    <2>1. /\ file' = file /\ frag' = frag
          /\ \A p \in Call : pc[p] \in {"ok", "failed"} => pc'[p] = pc[p]
      BY <1>0, <1>2 DEF SinkFor, Move, TypeOK
    <2>2. \/ sink = "open" /\ next' = next
          \/ next' \in Seeds \/ next' = None
      BY <1>2 DEF SinkFor
    <2>3. ASSUME NEW p \in Call, Tip(p)' PROVE Tip(p)
      <3>1. CASE next' = p
        BY <2>2, <3>1, <1>0, SeedIsTip, ConstantsAssumption DEF Tip
      <3>2. CASE next' # p
        BY <2>1, <2>3, <3>2 DEF Tip
      <3>3. QED
        BY <3>1, <3>2
    <2>4. QED
      BY <1>0, <2>1, <2>3, FileUntouched
  <1>3. ASSUME NEW c \in Call, AppendFails(c) PROVE ForkInv'
    <2>1. /\ file' = file /\ sink' = sink /\ next' = next
          /\ pc[c] = "linked" /\ pc'[c] = "failed"
          /\ \A p \in Call : pc[p] \in {"ok", "failed"} => pc'[p] = pc[p]
      BY <1>0, <1>3 DEF AppendFails, Move, TypeOK
    <2>2. frag' \in {frag, Garbled, c}
      BY <1>3 DEF AppendFails, Leftover
    <2>3. \A p \in Call : Tip(p)' => Tip(p) \/ p = c
      BY <2>1, <2>2, ConstantsAssumption DEF Tip
    <2>4. QED
      BY <1>0, <2>1, <2>3, FileUntouched
  <1>4. CASE Crash
    <2>1. /\ file' = file /\ frag' = frag /\ sink' = "closed"
          /\ \A p \in Call : pc[p] \in {"ok", "failed"} => pc'[p] = pc[p]
      BY <1>0, <1>4 DEF Crash, TypeOK
    <2>2. \A p \in Call : Tip(p)' => Tip(p)
      BY <2>1 DEF Tip
    <2>3. QED
      BY <1>0, <2>1, <2>2, FileUntouched
  <1>5. CASE UNCHANGED vars
    <2>1. /\ file' = file /\ frag' = frag /\ sink' = sink /\ next' = next /\ pc' = pc
      BY <1>5 DEF vars
    <2>2. \A p \in Call : Tip(p)' => Tip(p)
      BY <2>1 DEF Tip
    <2>3. QED
      BY <1>0, <2>1, <2>2, FileUntouched
  <1>6. ASSUME NEW c \in Call, AppendChained(c) PROVE ForkInv'
    <2>1. /\ frag' = None /\ next' = c /\ file' = Append(file, Landed(c, next))
          /\ pc[c] = "linked" /\ pc'[c] = "ok"
          /\ \A p \in Call : p # c => pc'[p] = pc[p]
      BY <1>0, <1>6 DEF AppendChained, Move, TypeOK
    <2> DEFINE e == Landed(c, next)
    <2>2. e \in Entry /\ e.id \in {c, Garbled} /\ e.prev \in {next, None}
      BY <1>0, HashTyping DEF Landed, TypeOK
    <2>3. /\ Len(file') = Len(file) + 1 /\ file'[Len(file) + 1] = e
          /\ \A i \in 1..Len(file) : file'[i] = file[i]
          /\ \A i \in 1..Len(file') : i \in 1..Len(file) \/ i = Len(file) + 1
      BY <1>0, <2>1, <2>2, AppendedEntry
    <2>4. \A p \in Call : Named(p)' => Named(p) \/ p = next
      BY <2>2, <2>3, ConstantsAssumption DEF Named
    <2>5. next \in Call => ~ Named(next) /\ pc[next] \in {"ok", "failed"} /\ next # c
      <3>1. sink = "open"
        BY <2>1 DEF ForkInv, LinkedIsOpen
      <3>2. QED
        BY <2>1, <3>1 DEF ForkInv, TipsAreFree, Tip
    <2>6. ~ Named(c)
      BY <2>1 DEF ForkInv, NamedIsDone
    <2>7. NamedIsDone'
      BY <2>1, <2>4, <2>5, <2>6 DEF ForkInv, NamedIsDone
    <2>8. \A p \in Call : Tip(p)' => p = c
      <3>1. file'[Len(file')] = e
        BY <2>3
      <3>2. QED
        BY <2>1, <2>2, <3>1, ConstantsAssumption DEF Tip
    <2>9. TipsAreFree'
      BY <2>1, <2>4, <2>5, <2>6, <2>8 DEF TipsAreFree
    <2>10. NoFork'
      <3> SUFFICES ASSUME NEW i \in 1..Len(file'), NEW j \in 1..Len(file'),
                          file'[i].prev \in Call, file'[i].prev = file'[j].prev
                   PROVE  i = j
        BY DEF NoFork
      <3>1. CASE i \in 1..Len(file) /\ j \in 1..Len(file)
        BY <2>3, <3>1 DEF ForkInv, NoFork
      <3>2. CASE i \in 1..Len(file) /\ j = Len(file) + 1
        BY <2>2, <2>3, <2>5, <3>2, ConstantsAssumption DEF Named
      <3>3. CASE j \in 1..Len(file) /\ i = Len(file) + 1
        BY <2>2, <2>3, <2>5, <3>3, ConstantsAssumption DEF Named
      <3>4. QED
        BY <2>3, <3>1, <3>2, <3>3
    <2>11. QED
      BY <1>0, <2>7, <2>9, <2>10 DEF ForkInv
  <1>7. CASE ForeignAppend
    <2>1. /\ frag' = None /\ file' = Append(file, Landed(Foreign, None))
          /\ pc' = pc /\ next' = next /\ sink' = sink
      BY <1>7 DEF ForeignAppend
    <2> DEFINE e == Landed(Foreign, None)
    <2>2. e \in Entry /\ e.id \notin Call /\ e.prev \notin Call
      BY <1>0, HashTyping, ConstantsAssumption DEF Landed, Hash
    <2>3. /\ Len(file') = Len(file) + 1 /\ file'[Len(file) + 1] = e
          /\ \A i \in 1..Len(file) : file'[i] = file[i]
          /\ \A i \in 1..Len(file') : i \in 1..Len(file) \/ i = Len(file) + 1
      BY <1>0, <2>1, <2>2, AppendedEntry
    <2>4. \A p \in Call : Named(p)' => Named(p)
      BY <2>2, <2>3 DEF Named
    <2>5. \A p \in Call : Tip(p)' => Tip(p)
      <3>1. file'[Len(file')] = e
        BY <2>3
      <3>2. QED
        BY <2>1, <2>2, <3>1, ConstantsAssumption DEF Tip
    <2>6. NoFork'
      BY <2>2, <2>3 DEF ForkInv, NoFork
    <2>7. QED
      BY <1>0, <2>1, <2>4, <2>5, <2>6 DEF ForkInv, TipsAreFree, NamedIsDone
  <1>8. CASE Truncate
    <2>1. /\ file' = << >> /\ frag' = None /\ pc' = pc /\ next' = next /\ sink' = sink
      BY <1>8 DEF Truncate
    <2>2. Len(file') = 0
      BY <2>1
    <2>3. \A p \in Call : ~ Named(p)'
      BY <2>2 DEF Named
    <2>4. \A p \in Call : Tip(p)' => Tip(p)
      BY <2>1, ConstantsAssumption DEF Tip
    <2>5. NoFork'
      BY <2>2 DEF NoFork
    <2>6. QED
      BY <1>0, <2>1, <2>3, <2>4, <2>5 DEF ForkInv, TipsAreFree, NamedIsDone
  <1>9. QED
    BY <1>1, <1>2, <1>3, <1>4, <1>5, <1>6, <1>7, <1>8 DEF Next, Step, Finished

\* One sink per file is enough for a chain that never forks: no two console
\* lines name the same predecessor, whatever other writers, torn writes,
\* unreadable tails, truncations and restarts do.
THEOREM NoForkHolds == Spec => []NoFork
  <1>1. Init => ForkInv
    <2> SUFFICES ASSUME Init PROVE ForkInv
      OBVIOUS
    <2>1. TypeOK
      BY TypeInit
    <2>2. Len(file) = 0 /\ file = << >> /\ frag = None /\ sink = "closed"
      BY DEF Init
    <2>3. TipsAreFree /\ NamedIsDone /\ NoFork
      BY <2>2, ConstantsAssumption DEF TipsAreFree, NamedIsDone, NoFork, Tip, Named
    <2>4. LinkedIsOpen
      BY DEF Init, LinkedIsOpen
    <2>5. QED
      BY <2>1, <2>3, <2>4 DEF ForkInv
  <1>2. ForkInv => NoFork
    BY DEF ForkInv
  <1>3. QED
    BY <1>1, <1>2, ForkStep, PTL DEF Spec

(***************************************************************************)
(* What is acknowledged is on the bus, as long as a failed write leaves     *)
(* nothing behind and nobody truncates the file.                            *)
(***************************************************************************)
WholeWrites == MaxTruncate = 0 /\ FaultKinds \cap {"torn", "unterminated"} = {}

AckInv == TypeOK /\ frag = None /\ AcknowledgedIsOnBus

LEMMA AckStep ==
    ASSUME WholeWrites
    PROVE  AckInv /\ [Next]_vars => AckInv'
  <1> SUFFICES ASSUME AckInv, [Next]_vars PROVE AckInv'
    OBVIOUS
  <1>0. TypeOK /\ TypeOK'
    BY TypeStep DEF AckInv
  <1>1. ASSUME NEW c \in Call,
               \/ Mutate(c) \/ RefuseUnjustified(c) \/ InsertCommand(c)
               \/ JournalFails(c) \/ SinkFor(c) \/ SinkForFails(c)
        PROVE  AckInv'
    <2>1. /\ file' = file /\ frag' = frag
          /\ \A d \in Call : pc'[d] = "ok" => pc[d] = "ok"
      BY <1>0, <1>1 DEF Mutate, RefuseUnjustified, InsertCommand, JournalFails,
            SinkFor, SinkForFails, Move, TypeOK
    <2>2. QED
      BY <1>0, <2>1 DEF AckInv, AcknowledgedIsOnBus
  <1>2. ASSUME NEW c \in Call, AppendFails(c) PROVE AckInv'
    <2>1. /\ file' = file
          /\ \A d \in Call : pc'[d] = "ok" => pc[d] = "ok"
      BY <1>0, <1>2 DEF AppendFails, Move, TypeOK
    <2>2. frag' = frag
      BY <1>2 DEF AppendFails, Leftover, Fault, WholeWrites
    <2>3. QED
      BY <1>0, <2>1, <2>2 DEF AckInv, AcknowledgedIsOnBus
  <1>3. ASSUME NEW c \in Call, AppendChained(c) PROVE AckInv'
    <2>1. /\ frag' = None /\ file' = Append(file, Landed(c, next))
          /\ \A d \in Call : pc'[d] = "ok" => pc[d] = "ok" \/ d = c
      BY <1>0, <1>3 DEF AppendChained, Move, TypeOK
    <2>2. Landed(c, next) \in Entry /\ Landed(c, next).id = c
      BY <1>0, HashTyping DEF Landed, TypeOK, AckInv
    <2>3. /\ Len(file) \in Nat /\ Len(file') = Len(file) + 1
          /\ file'[Len(file) + 1].id = c
          /\ \A i \in 1..Len(file) : file'[i] = file[i]
      BY <1>0, <2>1, <2>2, AppendedEntry DEF TypeOK
    <2>4. ASSUME NEW d \in Call, pc'[d] = "ok"
          PROVE  \E i \in 1..Len(file') : file'[i].id = d
      <3>1. CASE d = c
        BY <2>3, <3>1
      <3>2. CASE pc[d] = "ok"
        <4>1. PICK i \in 1..Len(file) : file[i].id = d
          BY <3>2 DEF AckInv, AcknowledgedIsOnBus
        <4>2. i \in 1..Len(file') /\ file'[i].id = d
          BY <2>3, <4>1
        <4>3. QED
          BY <4>2
      <3>3. QED
        BY <2>1, <2>4, <3>1, <3>2
    <2>5. QED
      BY <1>0, <2>1, <2>4 DEF AckInv, AcknowledgedIsOnBus
  <1>4. CASE ForeignAppend
    <2>1. /\ frag' = None /\ file' = Append(file, Landed(Foreign, None)) /\ pc' = pc
      BY <1>4 DEF ForeignAppend
    <2>2. Landed(Foreign, None) \in Entry
      BY <1>0, HashTyping DEF Hash
    <2>3. /\ Len(file) \in Nat /\ Len(file') = Len(file) + 1
          /\ \A i \in 1..Len(file) : file'[i] = file[i]
      BY <1>0, <2>1, <2>2, AppendedEntry DEF TypeOK
    <2>4. ASSUME NEW d \in Call, pc'[d] = "ok"
          PROVE  \E i \in 1..Len(file') : file'[i].id = d
      <3>1. PICK i \in 1..Len(file) : file[i].id = d
        BY <2>1, <2>4 DEF AckInv, AcknowledgedIsOnBus
      <3>2. i \in 1..Len(file') /\ file'[i].id = d
        BY <2>3, <3>1
      <3>3. QED
        BY <3>2
    <2>5. QED
      BY <1>0, <2>1, <2>4 DEF AckInv, AcknowledgedIsOnBus
  <1>5. CASE Truncate
    BY <1>0, <1>5 DEF Truncate, WholeWrites, TypeOK
  <1>6. CASE Crash
    <2>1. /\ file' = file /\ frag' = frag
          /\ \A d \in Call : pc'[d] = "ok" => pc[d] = "ok"
      BY <1>0, <1>6 DEF Crash, TypeOK
    <2>2. QED
      BY <1>0, <2>1 DEF AckInv, AcknowledgedIsOnBus
  <1>7. CASE UNCHANGED vars
    BY <1>0, <1>7 DEF vars, AckInv, AcknowledgedIsOnBus
  <1>8. QED
    BY <1>1, <1>2, <1>3, <1>4, <1>5, <1>6, <1>7 DEF Next, Step, Finished

\* A command answered with bus_recorded: true is a readable line of the file,
\* through any interleaving of commands, clean failures, other writers and
\* restarts.
THEOREM AcknowledgedIsOnBusHolds ==
    ASSUME WholeWrites
    PROVE  Spec => []AcknowledgedIsOnBus
  <1>1. Init => AckInv
    <2>1. Init => TypeOK
      BY TypeInit
    <2>2. Init => frag = None /\ AcknowledgedIsOnBus
      BY DEF Init, AcknowledgedIsOnBus
    <2>3. QED
      BY <2>1, <2>2 DEF AckInv
  <1>2. AckInv /\ [Next]_vars => AckInv'
    BY AckStep
  <1>3. AckInv => AcknowledgedIsOnBus
    BY DEF AckInv
  <1>4. QED
    BY <1>1, <1>2, <1>3, PTL DEF Spec

(***************************************************************************)
(* One chain, in a file that is the console's own.                          *)
(***************************************************************************)
OwnFile == WholeWrites /\ MaxForeign = 0 /\ "unreadable" \notin FaultKinds

\* Every line is a call's and links to the line before it.
Chained ==
    \A j \in 1..Len(file) :
        /\ file[j].id \in Call
        /\ j = 1 => file[j].prev = None
        /\ j > 1 => file[j].prev = file[j - 1].id

LinkInv ==
    /\ TypeOK /\ LinkedIsOpen /\ frag = None /\ Chained
    /\ sink = "open" => next = TailHash

LEMMA LinkStep ==
    ASSUME OwnFile
    PROVE  LinkInv /\ [Next]_vars => LinkInv'
  <1> SUFFICES ASSUME LinkInv, [Next]_vars PROVE LinkInv'
    OBVIOUS
  <1>0. TypeOK /\ TypeOK' /\ LinkedIsOpen'
    BY TypeStep, LinkedStep DEF LinkInv
  <1>a. ASSUME file' = file, frag' = frag, sink' = "open" => next' = TailHash
        PROVE  LinkInv'
    BY <1>0, <1>a DEF LinkInv, Chained, TailHash
  <1>b. Seeds = {TailHash}
    <2>1. frag # Garbled /\ \A i \in 1..Len(file) : file[i].id # Garbled
      BY ConstantsAssumption DEF LinkInv, Chained
    <2>2. QED
      BY <2>1 DEF Seeds
  <1>1. ASSUME NEW c \in Call,
               \/ Mutate(c) \/ RefuseUnjustified(c) \/ InsertCommand(c)
               \/ JournalFails(c) \/ SinkForFails(c)
        PROVE  LinkInv'
    <2>1. file' = file /\ frag' = frag /\ sink' = sink /\ next' = next
      BY <1>1 DEF Mutate, RefuseUnjustified, InsertCommand, JournalFails, SinkForFails
    <2>2. QED
      BY <1>a, <2>1 DEF LinkInv
  <1>2. ASSUME NEW c \in Call, SinkFor(c) PROVE LinkInv'
    <2>1. file' = file /\ frag' = frag /\ next' = TailHash
      BY <1>2, <1>b DEF SinkFor, Fault, OwnFile, LinkInv
    <2>2. QED
      BY <1>a, <2>1
  <1>3. ASSUME NEW c \in Call, AppendFails(c) PROVE LinkInv'
    <2>1. file' = file /\ frag' = frag /\ sink' = sink /\ next' = next
      BY <1>3 DEF AppendFails, Leftover, Fault, OwnFile, WholeWrites
    <2>2. QED
      BY <1>a, <2>1 DEF LinkInv
  <1>4. ASSUME NEW c \in Call, AppendChained(c) PROVE LinkInv'
    <2>1. next = TailHash
      BY <1>4 DEF AppendChained, Move, LinkInv, LinkedIsOpen
    <2> DEFINE e == [id |-> c, prev |-> next]
    <2>2. /\ file' = Append(file, e) /\ frag' = None /\ next' = c
          /\ e \in Entry
      BY <1>0, <1>4 DEF AppendChained, Landed, LinkInv, TypeOK, Entry
    <2>3. /\ Len(file) \in Nat /\ Len(file') = Len(file) + 1
          /\ file'[Len(file) + 1] = e
          /\ \A i \in 1..Len(file) : file'[i] = file[i]
          /\ \A i \in 1..Len(file') : i \in 1..Len(file) \/ i = Len(file) + 1
      BY <1>0, <2>2, AppendedEntry DEF TypeOK
    <2>4. Len(file) = 0 => next = None
      BY <1>0, <2>1 DEF TailHash, LinkInv, TypeOK
    <2>5. Len(file) > 0 => next = file[Len(file)].id
      <3> SUFFICES ASSUME Len(file) > 0 PROVE next = file[Len(file)].id
        OBVIOUS
      <3>1. file # << >> /\ file[Len(file)].id \in Call
        BY <2>3 DEF LinkInv, Chained
      <3>2. QED
        BY <2>1, <3>1, ConstantsAssumption DEF TailHash, LineHash, LinkInv
    <2>6. Chained'
      <3> SUFFICES ASSUME NEW j \in 1..Len(file')
                   PROVE  /\ file'[j].id \in Call
                          /\ j = 1 => file'[j].prev = None
                          /\ j > 1 => file'[j].prev = file'[j - 1].id
        BY DEF Chained
      <3>1. CASE j \in 1..Len(file)
        BY <2>3, <3>1 DEF LinkInv, Chained
      <3>2. CASE j = Len(file) + 1
        BY <2>3, <2>4, <2>5, <3>2
      <3>3. QED
        BY <2>3, <3>1, <3>2
    <2>7. TailHash' = c
      BY <2>2, <2>3, ConstantsAssumption DEF TailHash, LineHash
    <2>8. QED
      BY <1>0, <2>2, <2>6, <2>7 DEF LinkInv
  <1>5. CASE ForeignAppend \/ Truncate
    BY <1>0, <1>5 DEF ForeignAppend, Truncate, OwnFile, WholeWrites, TypeOK
  <1>6. CASE Crash
    BY <1>a, <1>6 DEF Crash
  <1>7. CASE UNCHANGED vars
    BY <1>a, <1>7 DEF vars, LinkInv
  <1>8. QED
    BY <1>1, <1>2, <1>3, <1>4, <1>5, <1>6, <1>7 DEF Next, Step, Finished

\* In a file that is the console's own, every console line links to the one
\* before it, across any number of restarts and of commands in flight.
THEOREM OneChainHolds ==
    ASSUME OwnFile
    PROVE  Spec => []OneChain
  <1>1. Init => LinkInv
    <2>1. Init => TypeOK
      BY TypeInit
    <2>2. ASSUME Init PROVE Len(file) = 0 /\ frag = None /\ sink = "closed"
      BY <2>2 DEF Init
    <2>3. Init => LinkedIsOpen
      BY DEF Init, LinkedIsOpen
    <2>4. QED
      BY <2>1, <2>2, <2>3 DEF LinkInv, Chained
  <1>2. LinkInv /\ [Next]_vars => LinkInv'
    BY LinkStep
  <1>3. LinkInv => OneChain
    <2> SUFFICES ASSUME LinkInv, NEW j \in 1..Len(file)
                 PROVE  \/ /\ \A i \in 1..(j - 1) : file[i].id \notin Call
                           /\ file[j].prev \notin Call
                        \/ \E i \in 1..(j - 1) :
                             /\ file[j].prev = file[i].id
                             /\ file[i].id \in Call
                             /\ \A k \in (i + 1)..(j - 1) : file[k].id \notin Call
      BY DEF OneChain
    <2>1. Len(file) \in Nat
      BY DEF LinkInv, TypeOK
    <2>2. CASE j = 1
      BY <2>2, ConstantsAssumption DEF LinkInv, Chained
    <2>3. CASE j > 1
      <3>1. j - 1 \in 1..Len(file) /\ j - 1 \in 1..(j - 1)
        BY <2>1, <2>3
      <3>2. file[j].prev = file[j - 1].id /\ file[j - 1].id \in Call
        BY <2>3, <3>1 DEF LinkInv, Chained
      <3>3. \A k \in ((j - 1) + 1)..(j - 1) : FALSE
        BY <2>1
      <3>4. QED
        BY <3>1, <3>2, <3>3
    <2>4. QED
      BY <2>1, <2>2, <2>3
  <1>4. QED
    BY <1>1, <1>2, <1>3, PTL DEF Spec
=============================================================================
