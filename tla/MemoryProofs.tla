---------------------------- MODULE MemoryProofs ----------------------------
(***************************************************************************)
(* Proofs about SingleWriter for any number of readers, any cool-down and  *)
(* sweep period, any capacity and any width of the counters: reads of the  *)
(* sequenced cells are whole and fresh, the Lamport ring is a FIFO queue,  *)
(* and the double buffer and the ring keep their contracts.                *)
(*                                                                         *)
(* Proofs about UnifiedWait for any number of contexts, emitters and       *)
(* events: an event is in one place and those of a source stay in order.   *)
(*                                                                         *)
(* Proofs about BridgedCell for any number of reader threads, references,  *)
(* registry slots, hold-stack entries and writes: no block is freed under  *)
(* a reader, floors are honest and no block is lost or freed twice.        *)
(*                                                                         *)
(* Proofs about Interners for any number of threads, strings, shards and   *)
(* slots and any hashes: handles are exact, the frozen bank answers like a *)
(* pass in ordinal order, and tags mean the same to every thread.          *)
(*                                                                         *)
(* Proofs about the caches for any number of writers, readers, shards and  *)
(* hashes, any cap and block size: the caches account for what they hold.  *)
(***************************************************************************)
EXTENDS BridgedCell, SingleWriter, UnifiedWait, Interners, Integers, SequenceTheorems, FiniteSetTheorems,
        WellFoundedInduction, TLAPS

\* The writer has set the odd mark and not yet committed.
Marked == writerAt \in {"word1", "word1sweep", "word2", "word2sweep", "block", "commit",
                        "commitsweep"}

\* Both words of the payload are written.
Filled == writerAt \in {"block", "commit", "commitsweep"}

\* The inductive invariant of the cells, in named parts.

\* The writer's counter is odd exactly while a write is under way.
WriterPhases ==
    /\ kind \in {"seq", "adaptive"} /\ goHot \in BOOLEAN /\ current \in Nat
    /\ ctrl \in [cnt : Nat, hot : BOOLEAN]
    /\ writerAt \in {"idle", "mark", "sweep"} \/ Marked
    /\ ctrl.cnt % 2 = IF Marked THEN 1 ELSE 0

\* The payload's words are those of the last completed write, except the ones
\* the write under way has already stored.
PayloadWords ==
    /\ payload \in Nat \X Nat
    /\ payload[1] = IF Filled \/ writerAt \in {"word2", "word2sweep"} THEN Epoch + 1 ELSE Epoch
    /\ payload[2] = IF Filled THEN Epoch + 1 ELSE Epoch

\* The mark carries the mode chosen, a hot cell's current block is that of its
\* last completed write, and no block is ahead of the payload.
HotCurrent ==
    /\ kind = "seq" => ~ctrl.hot /\ ~goHot
    /\ Marked => ctrl.hot = goHot
    /\ writerAt \in {"word1sweep", "word2sweep"} => ~goHot
    /\ writerAt = "block" => goHot
    /\ current <= IF writerAt \in {"commit", "commitsweep"} THEN Epoch + 1 ELSE Epoch
    /\ ctrl.hot /\ ~Marked => current = Epoch
    /\ ctrl.hot /\ writerAt \in {"commit", "commitsweep"} => current = Epoch + 1

\* A reader between its two loads: as long as the counter is the one it loaded
\* the words copied are those of that write, and the block it will pin or has
\* pinned is no older than the call.
ReaderPhases ==
    /\ pc \in [CellReaders -> {"idle", "load", "copy1", "copy2", "check", "pin", "pincheck"}]
    /\ c0 \in [CellReaders -> [cnt : Nat, hot : BOOLEAN]] /\ copy \in [CellReaders -> Nat \X Nat]
    /\ started \in [CellReaders -> Nat] /\ pins \in [CellReaders -> Nat]
    /\ DOMAIN result = CellReaders
    /\ \A r \in CellReaders :
        /\ started[r] <= Epoch
        /\ pc[r] \in {"copy1", "copy2", "check"} =>
             c0[r].cnt % 2 = 0 /\ c0[r].cnt <= ctrl.cnt /\ started[r] <= c0[r].cnt \div 2
        /\ pc[r] \in {"copy2", "check"} /\ c0[r].cnt = ctrl.cnt => copy[r][1] = Epoch
        /\ pc[r] = "check" /\ c0[r].cnt = ctrl.cnt => copy[r][2] = Epoch
        /\ pc[r] = "pin" => started[r] <= current
        /\ pc[r] = "pincheck" => started[r] <= pins[r] /\ pins[r] <= current
        /\ result[r] # NoResult /\ result[r].kind # "empty" => result[r].epoch \in Nat

\* The inductive invariant of the cells.
CellInv == WriterPhases /\ PayloadWords /\ HotCurrent /\ ReaderPhases
              /\ ReadsAreFresh /\ PinnedBlocksKept

-----------------------------------------------------------------------------
(* The cells *)

\* What a counter and its half do when the writer adds one.
LEMMA Halves ==
    ASSUME NEW n \in Nat
    PROVE  /\ n \div 2 \in Nat
           /\ n % 2 = 0 => (n + 1) % 2 = 1 /\ (n + 1) \div 2 = n \div 2
           /\ n % 2 = 1 => (n + 1) % 2 = 0 /\ (n + 1) \div 2 = n \div 2 + 1
    OBVIOUS

\* A step of the writer takes neither the counter nor the current block back.
Forward ==
    /\ ctrl'.cnt \in Nat /\ ctrl.cnt <= ctrl'.cnt /\ Epoch <= Epoch'
    /\ current' \in Nat /\ current <= current'

\* The cells' part of the invariant that only the writer changes.
WriterInv == WriterPhases /\ PayloadWords /\ HotCurrent

\* The initial state of the cells.
LEMMA CellInit == ASSUME CInit PROVE CellInv
<1>1. ctrl \in [cnt : Nat, hot : BOOLEAN] /\ Epoch = 0 /\ ctrl.cnt = 0 /\ ctrl.hot = FALSE
    BY DEF CInit, Epoch
<1>2. WriterPhases
  <2>1. ~Marked /\ writerAt = "idle" BY DEF CInit, Marked
  <2>2. goHot \in BOOLEAN /\ current \in Nat /\ kind \in {"seq", "adaptive"} BY DEF CInit
  <2>3. 0 % 2 = 0 OBVIOUS
  <2> QED BY <1>1, <2>1, <2>2, <2>3 DEF WriterPhases
<1>6. HotCurrent
    BY <1>1 DEF CInit, HotCurrent, Marked
<1>5. PayloadWords
    BY <1>1 DEF CInit, PayloadWords, Filled
<1>3. ReaderPhases
    BY <1>1 DEF CInit, ReaderPhases
<1>4. ReadsAreFresh /\ PinnedBlocksKept
    BY DEF CInit, ReadsAreFresh, PinnedBlocksKept
<1> QED BY <1>2, <1>3, <1>4, <1>5, <1>6 DEF CellInv

\* Two ways to begin a write: the odd mark at once, or after the mode is chosen.
LEMMA BeginWrite ==
    ASSUME CellInv, SeqWrite \/ AdaptiveWrite \/ WriteMark
    PROVE  WriterInv' /\ Forward
<1> USE DEF CellInv, WriterInv
<1>1. CASE SeqWrite
  <2>1. ctrl' = [cnt |-> ctrl.cnt + 1, hot |-> ctrl.hot] /\ ~Marked /\ Marked' /\ ~Filled'
      BY <1>1 DEF SeqWrite, WriterPhases, Marked, Filled
  <2>2. Epoch' = Epoch /\ Epoch \in Nat /\ ctrl'.cnt % 2 = 1 /\ ctrl'.cnt = ctrl.cnt + 1
      BY <2>1, Halves DEF WriterPhases, Epoch
  <2>3. WriterPhases' BY <1>1, <2>1, <2>2 DEF SeqWrite, WriterPhases, Marked
  <2>4. PayloadWords' BY <1>1, <2>1, <2>2 DEF SeqWrite, PayloadWords, Filled
  <2>5. HotCurrent' BY <1>1, <2>1, <2>2 DEF SeqWrite, HotCurrent, WriterPhases
  <2>6. Forward BY <1>1, <2>1, <2>2 DEF SeqWrite, Forward, WriterPhases
  <2> QED BY <2>3, <2>4, <2>5, <2>6
<1>2. CASE AdaptiveWrite
  <2>1. ~Marked /\ ~Marked' /\ ~Filled /\ ~Filled' /\ Epoch' = Epoch /\ Epoch \in Nat
      BY <1>2, Halves DEF AdaptiveWrite, WriterPhases, Marked, Filled, Epoch
  <2>2. goHot' \in BOOLEAN /\ ctrl' = ctrl /\ current' = current /\ payload' = payload
        /\ kind' = kind /\ writerAt = "idle" /\ writerAt' = "mark" /\ kind = "adaptive"
      BY <1>2 DEF AdaptiveWrite, WriterPhases
  <2>3. WriterPhases' BY <2>1, <2>2 DEF WriterPhases, Marked
  <2>4. PayloadWords' BY <2>1, <2>2 DEF PayloadWords, Filled
  <2>5. HotCurrent' BY <2>1, <2>2 DEF HotCurrent, Marked
  <2>6. Forward BY <2>1, <2>2 DEF Forward, WriterPhases
  <2> QED BY <2>3, <2>4, <2>5, <2>6
<1>3. CASE WriteMark
  <2>1. ctrl' = [cnt |-> ctrl.cnt + 1, hot |-> goHot] /\ ~Marked /\ Marked' /\ ~Filled'
      BY <1>3 DEF WriteMark, WriterPhases, Marked, Filled
  <2>2. Epoch' = Epoch /\ Epoch \in Nat /\ ctrl'.cnt % 2 = 1 /\ ctrl'.cnt = ctrl.cnt + 1
      BY <2>1, Halves DEF WriterPhases, Epoch
  <2>3. WriterPhases' BY <1>3, <2>1, <2>2 DEF WriteMark, WriterPhases, Marked
  <2>4. PayloadWords' BY <1>3, <2>1, <2>2 DEF WriteMark, PayloadWords, Filled
  <2>5. HotCurrent' BY <1>3, <2>1, <2>2 DEF WriteMark, HotCurrent, WriterPhases
  <2>6. Forward BY <1>3, <2>1, <2>2 DEF WriteMark, Forward, WriterPhases
  <2> QED BY <2>3, <2>4, <2>5, <2>6
<1> QED BY <1>1, <1>2, <1>3

\* The words of the payload and, in a hot write, the block.
LEMMA StoreValue ==
    ASSUME CellInv, WriteWord1 \/ WriteWord2 \/ WriteBlock
    PROVE  WriterInv' /\ Forward
<1> USE DEF CellInv, WriterInv
<1>1. Epoch \in Nat BY Halves DEF WriterPhases, Epoch
<1>2. CASE WriteWord1
  <2>1. Marked /\ Marked' /\ ~Filled /\ ~Filled' /\ Epoch' = Epoch
      BY <1>2 DEF WriteWord1, Marked, Filled, Epoch
  <2>2. payload' \in Nat \X Nat /\ payload'[1] = Epoch + 1 /\ payload'[2] = payload[2]
      BY <1>1, <1>2 DEF WriteWord1, PayloadWords
  <2>3. WriterPhases' BY <1>2, <2>1 DEF WriteWord1, WriterPhases, Marked
  <2>4. PayloadWords' BY <1>2, <2>1, <2>2 DEF WriteWord1, PayloadWords
  <2>5. HotCurrent' BY <1>2, <2>1 DEF WriteWord1, HotCurrent
  <2>6. Forward BY <1>1, <1>2, <2>1 DEF WriteWord1, Forward, WriterPhases
  <2> QED BY <2>3, <2>4, <2>5, <2>6
<1>3. CASE WriteWord2
  <2>1. Marked /\ Marked' /\ ~Filled /\ Filled' /\ Epoch' = Epoch
      BY <1>3 DEF WriteWord2, Marked, Filled, Epoch
  <2>2. payload' \in Nat \X Nat /\ payload'[2] = Epoch + 1 /\ payload'[1] = payload[1]
      BY <1>1, <1>3 DEF WriteWord2, PayloadWords
  <2>3. WriterPhases' BY <1>3, <2>1 DEF WriteWord2, WriterPhases, Marked
  <2>4. PayloadWords' BY <1>3, <2>1, <2>2 DEF WriteWord2, PayloadWords
  <2>5. HotCurrent' BY <1>1, <1>3, <2>1 DEF WriteWord2, HotCurrent, WriterPhases
  <2>6. Forward BY <1>1, <1>3, <2>1 DEF WriteWord2, Forward, WriterPhases
  <2> QED BY <2>3, <2>4, <2>5, <2>6
<1>4. CASE WriteBlock
  <2>1. Marked /\ Marked' /\ Filled /\ Filled' /\ Epoch' = Epoch
      BY <1>4 DEF WriteBlock, Marked, Filled, Epoch
  <2>2. current' = Epoch + 1 /\ current <= Epoch /\ current \in Nat
      BY <1>4 DEF WriteBlock, HotCurrent, WriterPhases
  <2>3. WriterPhases' BY <1>1, <1>4, <2>1, <2>2 DEF WriteBlock, WriterPhases, Marked
  <2>4. PayloadWords' BY <1>4, <2>1 DEF WriteBlock, PayloadWords
  <2>5. /\ kind' = kind /\ ctrl' = ctrl /\ goHot' = goHot /\ writerAt = "block"
        /\ writerAt' \in {"commit", "commitsweep"}
      BY <1>4 DEF WriteBlock
  <2>8. ctrl.hot = goHot /\ (kind = "seq" => ~goHot) BY <2>1 DEF HotCurrent
  <2>7. HotCurrent' BY <1>1, <2>1, <2>2, <2>5, <2>8 DEF HotCurrent
  <2>6. Forward BY <1>1, <1>4, <2>1, <2>2 DEF WriteBlock, Forward, WriterPhases
  <2> QED BY <2>3, <2>4, <2>6, <2>7
<1> QED BY <1>2, <1>3, <1>4

\* The even store that ends a write, and the sweep.
LEMMA EndWrite ==
    ASSUME CellInv, WriteCommit \/ WriteSweep
    PROVE  WriterInv' /\ Forward
<1> USE DEF CellInv, WriterInv
<1>1. Epoch \in Nat BY Halves DEF WriterPhases, Epoch
<1>2. CASE WriteCommit
  <2>1. Marked /\ ~Marked' /\ Filled /\ ~Filled'
      BY <1>2 DEF WriteCommit, Marked, Filled
  <2>2. ctrl' = [cnt |-> ctrl.cnt + 1, hot |-> ctrl.hot]
      BY <1>2 DEF WriteCommit, WriterPhases
  <2>3. Epoch' = Epoch + 1 /\ ctrl'.cnt % 2 = 0 /\ ctrl'.cnt = ctrl.cnt + 1 /\ ctrl'.hot = ctrl.hot
      BY <2>1, <2>2, Halves DEF WriterPhases, Epoch
  <2>4. WriterPhases' BY <1>2, <2>1, <2>2, <2>3 DEF WriteCommit, WriterPhases, Marked
  <2>5. PayloadWords' BY <1>2, <2>1, <2>3 DEF WriteCommit, PayloadWords
  <2>6. HotCurrent' BY <1>1, <1>2, <2>1, <2>3 DEF WriteCommit, HotCurrent, WriterPhases
  <2>7. Forward BY <1>1, <1>2, <2>2, <2>3 DEF WriteCommit, Forward, WriterPhases
  <2> QED BY <2>4, <2>5, <2>6, <2>7
<1>3. CASE WriteSweep
  <2>1. ~Marked /\ ~Marked' /\ ~Filled /\ ~Filled' /\ Epoch' = Epoch
      BY <1>3 DEF WriteSweep, Marked, Filled, Epoch
  <2>2. WriterPhases' BY <1>3, <2>1 DEF WriteSweep, WriterPhases
  <2>3. PayloadWords' BY <1>3, <2>1 DEF WriteSweep, PayloadWords
  <2>4. HotCurrent' BY <1>3, <2>1 DEF WriteSweep, HotCurrent
  <2>5. Forward BY <1>1, <1>3, <2>1 DEF WriteSweep, Forward, WriterPhases
  <2> QED BY <2>2, <2>3, <2>4, <2>5
<1> QED BY <1>2, <1>3

\* A step of the writer leaves every reader's part true: where it changes the
\* counter, nothing was claimed of the words copied under the old one.
LEMMA ReadersDuringWrite ==
    ASSUME CellInv, CellWrite, Forward
    PROVE  ReaderPhases' /\ ReadsAreFresh'
<1> USE DEF CellInv
<1>1. UNCHANGED readerVars
    BY DEF CellWrite, SeqWrite, AdaptiveWrite, WriteMark, WriteWord1, WriteWord2, WriteBlock,
           WriteCommit, WriteSweep
<1>2. ctrl.cnt \in Nat /\ current \in Nat /\ Epoch \in Nat /\ Epoch' \in Nat
    BY Halves DEF WriterPhases, Epoch, Forward
<1>3. ctrl'.cnt = ctrl.cnt => Epoch' = Epoch BY DEF Epoch
<1>4. ReaderPhases'
  <2> SUFFICES ASSUME NEW r \in CellReaders
               PROVE  /\ started[r] <= Epoch'
                      /\ pc[r] \in {"copy1", "copy2", "check"} =>
                           c0[r].cnt % 2 = 0 /\ c0[r].cnt <= ctrl'.cnt
                             /\ started[r] <= c0[r].cnt \div 2
                      /\ pc[r] \in {"copy2", "check"} /\ c0[r].cnt = ctrl'.cnt =>
                           copy[r][1] = Epoch'
                      /\ pc[r] = "check" /\ c0[r].cnt = ctrl'.cnt => copy[r][2] = Epoch'
                      /\ pc[r] = "pin" => started[r] <= current'
                      /\ pc[r] = "pincheck" => started[r] <= pins[r] /\ pins[r] <= current'
      BY <1>1 DEF ReaderPhases, readerVars
  <2>1. c0[r].cnt \in Nat /\ started[r] \in Nat /\ pins[r] \in Nat BY DEF ReaderPhases
  <2> QED BY <1>2, <1>3, <2>1 DEF ReaderPhases, Forward
<1>5. ReadsAreFresh'
  <2> SUFFICES ASSUME NEW r \in CellReaders, pc[r] = "idle", result[r] # NoResult,
                      result[r].kind # "empty"
               PROVE  result[r].epoch <= (ctrl'.cnt + 1) \div 2
      BY <1>1 DEF ReadsAreFresh, readerVars
  <2>1. result[r].epoch <= (ctrl.cnt + 1) \div 2 /\ result[r].epoch \in Nat
      BY DEF ReadsAreFresh, ReaderPhases
  <2> QED BY <1>2, <2>1 DEF Forward
<1> QED BY <1>4, <1>5

\* A block that leaves the cell becomes superseded, and a sweep spares the pinned.
LEMMA PinsDuringWrite ==
    ASSUME CellInv, CellWrite
    PROVE  PinnedBlocksKept'
<1> USE DEF CellInv
<1>1. UNCHANGED readerVars
    BY DEF CellWrite, SeqWrite, AdaptiveWrite, WriteMark, WriteWord1, WriteWord2, WriteBlock,
           WriteCommit, WriteSweep
<1>2. CASE WriteSweep
    BY <1>1, <1>2 DEF WriteSweep, PinnedBlocksKept, ReaderPhases, readerVars
<1>3. CASE WriteBlock
    BY <1>1, <1>3 DEF WriteBlock, PinnedBlocksKept, ReaderPhases, readerVars
<1>4. CASE SeqWrite \/ AdaptiveWrite \/ WriteMark \/ WriteWord1 \/ WriteWord2 \/ WriteCommit
  <2>1. UNCHANGED <<current, superseded>>
      BY <1>4 DEF SeqWrite, AdaptiveWrite, WriteMark, WriteWord1, WriteWord2, WriteCommit
  <2> QED BY <1>1, <2>1 DEF PinnedBlocksKept, readerVars
<1> QED BY <1>2, <1>3, <1>4 DEF CellWrite

\* What one reader's step leaves of the writer's part.
LEMMA WriterDuringRead ==
    ASSUME CellInv, UNCHANGED <<kind, writerVars>>
    PROVE  WriterInv' /\ Epoch' = Epoch
    BY DEF CellInv, WriterInv, WriterPhases, PayloadWords, HotCurrent, Marked, Filled, Epoch, writerVars

\* A call begins: the answer it gives will be no older than the epoch now.
LEMMA CallStep ==
    ASSUME CellInv, NEW r \in CellReaders, Read(r) \/ ReadPinned(r)
    PROVE  CellInv'
<1> USE DEF CellInv
<1>1. /\ UNCHANGED <<kind, writerVars, c0, copy, result>>
      /\ pc' = [pc EXCEPT ![r] = "load"] /\ started' = [started EXCEPT ![r] = Epoch]
      /\ pins' = [pins EXCEPT ![r] = 0]
    BY DEF Read, ReadPinned, Call
<1>2. WriterInv' /\ Epoch' = Epoch /\ Epoch \in Nat
    BY <1>1, WriterDuringRead, Halves DEF WriterPhases, Epoch
<1>3. ReaderPhases'
    BY <1>1, <1>2 DEF ReaderPhases, writerVars
<1>4. ReadsAreFresh'
    BY <1>1 DEF ReadsAreFresh, writerVars, ReaderPhases
<1>5. PinnedBlocksKept'
    BY <1>1 DEF PinnedBlocksKept, writerVars, ReaderPhases
<1> QED BY <1>2, <1>3, <1>4, <1>5 DEF WriterInv

\* The first load: an even counter, and in a hot cell a block of that epoch.
LEMMA LoadStep ==
    ASSUME CellInv, NEW r \in CellReaders, ReadLoad(r)
    PROVE  CellInv'
<1> USE DEF CellInv
<1>1. UNCHANGED <<kind, writerVars, copy, pins, started>> BY DEF ReadLoad
<1>2. WriterInv' /\ Epoch' = Epoch /\ Epoch \in Nat /\ UNCHANGED <<ctrl, current, superseded>>
    BY <1>1, WriterDuringRead, Halves DEF WriterPhases, Epoch, writerVars
<1>3. CASE ctrl.cnt = 0 /\ result' = [result EXCEPT ![r] = [kind |-> "empty"]]
            /\ pc' = [pc EXCEPT ![r] = "idle"] /\ UNCHANGED c0
  <2>1. ReaderPhases'
      BY <1>1, <1>2, <1>3 DEF ReaderPhases
  <2>2. ReadsAreFresh'
    <3> SUFFICES ASSUME NEW q \in CellReaders, pc'[q] = "idle", result'[q] # NoResult
                 PROVE  IF result'[q].kind = "empty" THEN started[q] = 0
                        ELSE /\ result'[q].words = <<result'[q].epoch, result'[q].epoch>>
                             /\ started[q] <= result'[q].epoch
                             /\ result'[q].epoch <= (ctrl.cnt + 1) \div 2
        BY <1>1, <1>2 DEF ReadsAreFresh
    <3>1. CASE q = r
      <4>1. Epoch = 0 BY <1>3 DEF Epoch
      <4> QED BY <1>3, <3>1, <4>1 DEF ReaderPhases
    <3>2. CASE q # r
        BY <1>3, <3>2 DEF ReaderPhases, ReadsAreFresh
    <3> QED BY <3>1, <3>2
  <2>3. PinnedBlocksKept' BY <1>1, <1>2 DEF PinnedBlocksKept
  <2> QED BY <1>2, <2>1, <2>2, <2>3 DEF WriterInv
<1>4. CASE /\ ctrl.cnt > 0 /\ ctrl.cnt % 2 = 0 /\ c0' = [c0 EXCEPT ![r] = ctrl]
           /\ pc' = [pc EXCEPT ![r] =
                      IF mode[r] = "pinned" /\ ctrl.hot THEN "pin" ELSE "copy1"]
           /\ UNCHANGED result
  <2>1. pc'[r] = "pin" => started[r] <= current
      BY <1>4 DEF ReaderPhases, HotCurrent, WriterPhases
  <2>2. c0'[r] = ctrl /\ started[r] <= ctrl.cnt \div 2
      BY <1>4 DEF ReaderPhases, Epoch
  <2>3. ReaderPhases'
      BY <1>1, <1>2, <1>4, <2>1, <2>2 DEF ReaderPhases, WriterPhases
  <2>4. ReadsAreFresh'
      BY <1>1, <1>2, <1>4 DEF ReadsAreFresh, ReaderPhases
  <2>5. PinnedBlocksKept' BY <1>1, <1>2 DEF PinnedBlocksKept
  <2> QED BY <1>2, <2>3, <2>4, <2>5 DEF WriterInv
<1> QED BY <1>3, <1>4 DEF ReadLoad

\* A word copied while the counter is the one loaded is a word of that write.
LEMMA CopyStep ==
    ASSUME CellInv, NEW r \in CellReaders, ReadCopy(r)
    PROVE  CellInv'
<1> USE DEF CellInv
<1>1. UNCHANGED <<kind, writerVars, c0, pins, started, result>> BY DEF ReadCopy, ReadWord
<1>2. WriterInv' /\ Epoch' = Epoch /\ Epoch \in Nat /\ UNCHANGED <<ctrl, payload, current, superseded>>
    BY <1>1, WriterDuringRead, Halves DEF WriterPhases, Epoch, writerVars
<1>3. ASSUME ctrl.cnt % 2 = 0 PROVE payload[1] = Epoch /\ payload[2] = Epoch
    BY <1>3 DEF WriterPhases, PayloadWords, Marked, Filled
<1>4. payload \in Nat \X Nat BY DEF PayloadWords
<1>5. CASE ReadWord(r, 1, "copy1", "copy2")
  <2>1. /\ copy' \in [CellReaders -> Nat \X Nat] /\ copy'[r][1] = payload[1]
        /\ \A q \in CellReaders \ {r} : copy'[q] = copy[q]
      BY <1>4, <1>5 DEF ReadWord, ReaderPhases
  <2>2. pc' = [pc EXCEPT ![r] = "copy2"] /\ pc[r] = "copy1" BY <1>5 DEF ReadWord
  <2>3. ReaderPhases'
      BY <1>1, <1>2, <1>3, <2>1, <2>2 DEF ReaderPhases
  <2>4. ReadsAreFresh' BY <1>1, <1>2, <2>2 DEF ReadsAreFresh, ReaderPhases
  <2> QED BY <1>1, <1>2, <2>3, <2>4 DEF WriterInv, PinnedBlocksKept
<1>6. CASE ReadWord(r, 2, "copy2", "check")
  <2>1. /\ copy' \in [CellReaders -> Nat \X Nat] /\ copy'[r][2] = payload[2]
        /\ copy'[r][1] = copy[r][1]
        /\ \A q \in CellReaders \ {r} : copy'[q] = copy[q]
      BY <1>4, <1>6 DEF ReadWord, ReaderPhases
  <2>2. pc' = [pc EXCEPT ![r] = "check"] /\ pc[r] = "copy2" BY <1>6 DEF ReadWord
  <2>3. ReaderPhases'
      BY <1>1, <1>2, <1>3, <2>1, <2>2 DEF ReaderPhases
  <2>4. ReadsAreFresh' BY <1>1, <1>2, <2>2 DEF ReadsAreFresh, ReaderPhases
  <2> QED BY <1>1, <1>2, <2>3, <2>4 DEF WriterInv, PinnedBlocksKept
<1> QED BY <1>5, <1>6 DEF ReadCopy

\* The second load: equal to the first, it says that no write came between.
LEMMA CheckStep ==
    ASSUME CellInv, NEW r \in CellReaders, ReadCheck(r)
    PROVE  CellInv'
<1> USE DEF CellInv
<1>1. UNCHANGED <<kind, writerVars, c0, copy, pins, started>> /\ pc[r] = "check" BY DEF ReadCheck
<1>2. WriterInv' /\ Epoch' = Epoch /\ Epoch \in Nat /\ UNCHANGED <<ctrl, current, superseded>>
    BY <1>1, WriterDuringRead, Halves DEF WriterPhases, Epoch, writerVars
<1>3. CASE ctrl = c0[r]
  <2> DEFINE ans == [kind |-> "value", words |-> copy[r], epoch |-> c0[r].cnt \div 2]
  <2>1. result' = [result EXCEPT ![r] = ans] /\ pc' = [pc EXCEPT ![r] = "idle"]
      BY <1>3 DEF ReadCheck
  <2>2. copy[r] = <<Epoch, Epoch>>
    <3>1. copy[r] \in Nat \X Nat /\ copy[r][1] = Epoch /\ copy[r][2] = Epoch
        BY <1>1, <1>3 DEF ReaderPhases
    <3> QED BY <3>1
  <2>3. ans.epoch = Epoch /\ ans.kind = "value" /\ ans.words = <<Epoch, Epoch>>
      BY <1>3, <2>2 DEF Epoch
  <2>4. started[r] <= Epoch /\ Epoch <= (ctrl.cnt + 1) \div 2
      BY DEF ReaderPhases, WriterPhases, Epoch
  <2> HIDE DEF ans
  <2>5. ReaderPhases'
      BY <1>1, <1>2, <2>1, <2>3 DEF ReaderPhases
  <2>6. ReadsAreFresh'
      BY <1>1, <1>2, <2>1, <2>3, <2>4 DEF ReadsAreFresh, ReaderPhases
  <2> QED BY <1>1, <1>2, <2>5, <2>6 DEF WriterInv, PinnedBlocksKept
<1>4. CASE ctrl # c0[r]
  <2>1. result' = result /\ pc' = [pc EXCEPT ![r] = "load"]
      BY <1>4 DEF ReadCheck
  <2>2. ReaderPhases' BY <1>1, <1>2, <2>1 DEF ReaderPhases
  <2>3. ReadsAreFresh' BY <1>1, <1>2, <2>1 DEF ReadsAreFresh, ReaderPhases
  <2> QED BY <1>1, <1>2, <2>2, <2>3 DEF WriterInv, PinnedBlocksKept
<1> QED BY <1>3, <1>4

\* The pinned path: the block current at the pin is whole, at least as new as
\* the call, and stays while the reader holds it.
LEMMA PinStep ==
    ASSUME CellInv, NEW r \in CellReaders, ReadPin(r) \/ ReadPinCheck(r)
    PROVE  CellInv'
<1> USE DEF CellInv
<1>1. UNCHANGED <<kind, writerVars, c0, copy, started>> BY DEF ReadPin, ReadPinCheck
<1>2. WriterInv' /\ Epoch' = Epoch /\ Epoch \in Nat /\ UNCHANGED <<ctrl, current, superseded>>
    BY <1>1, WriterDuringRead, Halves DEF WriterPhases, Epoch, writerVars
<1>3. current \in Nat /\ ctrl.cnt \in Nat BY DEF WriterPhases
<1>4. CASE ReadPin(r)
  <2>1. /\ pins' = [pins EXCEPT ![r] = current] /\ pc' = [pc EXCEPT ![r] = "pincheck"]
        /\ pc[r] = "pin" /\ result' = result
      BY <1>4 DEF ReadPin
  <2>2. ReaderPhases' BY <1>1, <1>2, <1>3, <2>1 DEF ReaderPhases
  <2>3. ReadsAreFresh' BY <1>1, <1>2, <2>1 DEF ReadsAreFresh, ReaderPhases
  <2>4. PinnedBlocksKept' BY <1>2, <2>1 DEF PinnedBlocksKept, ReaderPhases
  <2> QED BY <1>2, <2>2, <2>3, <2>4 DEF WriterInv
<1>5. CASE ReadPinCheck(r) /\ ctrl.hot
  <2> DEFINE ans == [kind |-> "value", words |-> <<pins[r], pins[r]>>, epoch |-> pins[r]]
  <2>1. /\ result' = [result EXCEPT ![r] = ans] /\ pc' = [pc EXCEPT ![r] = "idle"]
        /\ pins' = pins /\ pc[r] = "pincheck"
      BY <1>5 DEF ReadPinCheck
  <2>2. ans.epoch = pins[r] /\ ans.kind = "value" /\ ans.words = <<pins[r], pins[r]>>
      OBVIOUS
  <2>3. pins[r] \in Nat /\ started[r] <= pins[r] /\ pins[r] <= current
      BY <2>1 DEF ReaderPhases
  <2>4. current <= (ctrl.cnt + 1) \div 2
      BY <1>3 DEF HotCurrent, WriterPhases, Marked, Epoch
  <2>5. pins[r] <= (ctrl.cnt + 1) \div 2 BY <1>3, <2>3, <2>4
  <2> HIDE DEF ans
  <2>6. ReaderPhases' BY <1>1, <1>2, <2>1, <2>2, <2>3 DEF ReaderPhases
  <2>7. ReadsAreFresh' BY <1>1, <1>2, <2>1, <2>2, <2>3, <2>5 DEF ReadsAreFresh, ReaderPhases
  <2> QED BY <1>2, <2>1, <2>6, <2>7 DEF WriterInv, PinnedBlocksKept
<1>6. CASE ReadPinCheck(r) /\ ~ctrl.hot
  <2>1. /\ result' = result /\ pc' = [pc EXCEPT ![r] = "load"]
        /\ pins' = [pins EXCEPT ![r] = 0]
      BY <1>6 DEF ReadPinCheck
  <2>2. ReaderPhases' BY <1>1, <1>2, <2>1 DEF ReaderPhases
  <2>3. ReadsAreFresh' BY <1>1, <1>2, <2>1 DEF ReadsAreFresh, ReaderPhases
  <2>4. PinnedBlocksKept' BY <1>2, <2>1 DEF PinnedBlocksKept, ReaderPhases
  <2> QED BY <1>2, <2>2, <2>3, <2>4 DEF WriterInv
<1> QED BY <1>4, <1>5, <1>6

\* The inductive invariant of the cells.
THEOREM CellInvHolds == CSpec => []CellInv
<1>1. CellInv /\ [CNext]_cvars => CellInv'
  <2> SUFFICES ASSUME CellInv, [CNext]_cvars PROVE CellInv'
      OBVIOUS
  <2>1. CASE CellWrite
    <3>1. WriterInv' /\ Forward BY <2>1, BeginWrite, StoreValue, EndWrite DEF CellWrite
    <3> QED BY <2>1, <3>1, ReadersDuringWrite, PinsDuringWrite DEF CellInv, WriterInv
  <2>2. ASSUME NEW r \in CellReaders, ReleaseDemand(r) PROVE CellInv'
    <3>1. UNCHANGED <<kind, writerVars, readerVars>> BY <2>2 DEF ReleaseDemand
    <3> QED BY <3>1, WriterDuringRead
            DEF CellInv, WriterInv, ReaderPhases, ReadsAreFresh, PinnedBlocksKept, writerVars, readerVars
  <2>3. CASE UNCHANGED cvars
    <3>1. UNCHANGED <<kind, writerVars, readerVars>> BY <2>3 DEF cvars
    <3> QED BY <3>1, WriterDuringRead
            DEF CellInv, WriterInv, ReaderPhases, ReadsAreFresh, PinnedBlocksKept, writerVars, readerVars
  <2> QED BY <2>1, <2>2, <2>3, CallStep, LoadStep, CopyStep, CheckStep, PinStep DEF CNext
<1> QED BY <1>1, CellInit, PTL DEF CSpec

\* An answer of either cell is whole, carries its own epoch, and is no older
\* than the last write completed before the call; a pinned block is kept.
THEOREM ReadsFresh == CSpec => []CellsReadFresh
<1>1. CellInv => CellsReadFresh BY DEF CellInv, CellsReadFresh
<1> QED BY <1>1, CellInvHolds, PTL

-----------------------------------------------------------------------------
(* SpscQueue *)

\* The counter i pushes after tail, and the unread values' cells.
After(i) == (tail + i) % Words

\* The inductive invariant of the queue, in named parts.

\* Types of the queue's variables.
QueueTypes ==
    /\ headAt \in 0 .. Words - 1 /\ tail \in 0 .. Words - 1 /\ seenTail \in 0 .. Words - 1
    /\ pushed \in 0 .. MaxFills /\ ppc \in {"idle", "check", "publish"}
    /\ cpc \in {"idle", "take"} /\ ring \in [0 .. N - 1 -> 1 .. MaxFills \union {Empty}]

\* The queue is never longer than its ring, every unread cell holds a value,
\* and a tail read earlier makes it look longer, never shorter.
UnreadHeld ==
    /\ Length(headAt, tail) <= N
    /\ \A i \in 0 .. Length(headAt, tail) - 1 : ring[After(i) % N] \in 1 .. MaxFills
    /\ ppc # "idle" => pushed < MaxFills
    /\ ppc = "check" => Length(headAt, tail) <= Length(headAt, seenTail)
    /\ ppc = "publish" => Length(headAt, tail) < N /\ ring[headAt % N] = pushed + 1
    /\ cpc = "take" => headAt # tail

\* Where the counters cannot get to the end of their range they have not wrapped.
NotWrapped == MaxFills < Words => headAt = pushed /\ tail <= headAt

\* The inductive invariant of the queue.
QueueInv == QueueTypes /\ UnreadHeld /\ NotWrapped

\* A number is in one way a multiple of n and a rest.
LEMMA DivisionIsUnique ==
    ASSUME NEW n \in Nat \ {0}, NEW q \in Int, NEW p \in Int,
           NEW r \in 0 .. n - 1, NEW s \in 0 .. n - 1, n * q + r = n * p + s
    PROVE  q = p /\ r = s
<1>1. CASE q > p
  <2>1. n * (q - p) = s - r  OBVIOUS
  <2>2. n * (q - p) >= n BY <1>1
  <2> QED BY <2>1, <2>2
<1>2. CASE p > q
  <2>1. n * (p - q) = r - s  OBVIOUS
  <2>2. n * (p - q) >= n BY <1>2
  <2> QED BY <2>1, <2>2
<1>3. CASE p = q BY <1>3
<1> QED BY <1>1, <1>2, <1>3

\* A number is a multiple of n and a rest.
LEMMA Division ==
    ASSUME NEW n \in Nat \ {0}, NEW a \in Nat
    PROVE  /\ a % n \in 0 .. n - 1
           /\ \E q \in Nat : a = n * q + (a % n)
<1>1. (a \div n) \in Nat /\ a % n \in 0 .. n - 1 /\ a = n * (a \div n) + (a % n)
    OBVIOUS
<1>2. \E q \in Nat : a = n * q + (a % n)
    <2> WITNESS a \div n \in Nat
    <2> QED BY <1>1
<1> QED BY <1>1, <1>2

\* Taking a multiple of n away leaves the rest.
LEMMA RestOfDifference ==
    ASSUME NEW n \in Nat \ {0}, NEW w \in Nat, w % n = 0, NEW a \in Nat, w <= a
    PROVE  (a - w) % n = a % n
<1>1. PICK p \in Nat : w = n * p + (w % n) BY Division
<1>2. PICK q \in Nat : a = n * q + (a % n) BY Division
<1>3. a - w \in Nat BY <1>2
<1>4. PICK m \in Nat : a - w = n * m + ((a - w) % n) BY <1>3, Division
<1>5. a % n \in 0 .. n - 1 /\ (a - w) % n \in 0 .. n - 1 BY <1>3, Division
<1>6. PICK z \in Int : z = m + p OBVIOUS
<1>7. PICK r \in 0 .. n - 1, s \in 0 .. n - 1 : r = (a - w) % n /\ s = a % n BY <1>5
<1>8. n * z = n * m + n * p BY <1>6
<1>9. n * z + r = n * q + s
  <2>1. w = n * p BY <1>1
  <2>2. a - w = n * m + r BY <1>4, <1>7
  <2>3. a = n * q + s BY <1>2, <1>7
  <2>4. PICK x \in Int, y \in Int, u \in Int, t \in Int :
            x = n * m /\ y = n * p /\ u = n * q /\ t = n * z
      OBVIOUS
  <2>5. t = x + y BY <1>8, <2>4
  <2>6. w = y BY <2>1, <2>4
  <2>7. a - w = x + r BY <2>2, <2>4
  <2>8. a = u + s BY <2>3, <2>4
  <2>9. t + r = u + s BY <2>5, <2>6, <2>7, <2>8
  <2> QED BY <2>4, <2>9
<1>10. r = s BY ONLY <1>9, q \in Int, DivisionIsUnique, n \in Nat \ {0}
<1> QED BY <1>7, <1>10

\* Numbers less than n apart leave different rests.
LEMMA NearNumbersApart ==
    ASSUME NEW n \in Nat \ {0}, NEW a \in Nat, NEW d \in 1 .. n - 1
    PROVE  (a + d) % n # a % n
<1> SUFFICES ASSUME (a + d) % n = a % n PROVE FALSE
    OBVIOUS
<1>1. PICK q \in Nat : a = n * q + (a % n) BY Division
<1>2. a + d \in Nat OBVIOUS
<1>3. PICK p \in Nat : a + d = n * p + ((a + d) % n) BY <1>2, Division
<1>4. n * (p - q) = d BY <1>1, <1>3
<1>5. n * (p - q) + 0 = n * 0 + d BY <1>4
<1>6. 0 = d BY <1>5, DivisionIsUnique
<1> QED BY <1>6

\* head.wrapping_sub(tail), and a counter some steps on, without the modulus.
LEMMA Wrapping ==
    ASSUME NEW w \in Nat \ {0}, NEW a \in 0 .. w - 1, NEW b \in 0 .. w - 1
    PROVE  /\ (a + w - b) % w = IF b <= a THEN a - b ELSE a + w - b
           /\ (a + b) % w = IF a + b < w THEN a + b ELSE a + b - w
<1>1. ASSUME NEW x \in Nat, x < w PROVE x % w = x BY <1>1
<1>2. ASSUME NEW x \in Nat, w <= x, x < w + w PROVE x % w = x - w BY <1>2
<1> QED BY <1>1, <1>2

\* Counters less than N apart stand for different cells.
LEMMA CellsApart ==
    ASSUME BufferConstants, NEW a \in 0 .. Words - 1, NEW d \in 1 .. N - 1,
           Words % N = 0 \/ a + d < Words
    PROVE  ((a + d) % Words) % N # a % N
<1> USE DEF BufferConstants
<1>1. (a + d) % N # a % N
  <2>1. N \in Nat \ {0} /\ a \in Nat OBVIOUS
  <2> QED BY <2>1, NearNumbersApart
<1>2. CASE a + d < Words
  <2>1. (a + d) % Words = a + d
    <3>1. Words \in Nat \ {0} /\ d \in 0 .. Words - 1 OBVIOUS
    <3> QED BY <1>2, <3>1, Wrapping
  <2> QED BY <1>1, <2>1
<1>3. CASE Words <= a + d /\ Words % N = 0
  <2>1. (a + d) % Words = a + d - Words BY <1>3, Wrapping
  <2>2. (a + d - Words) % N = (a + d) % N
    <3>1. N \in Nat \ {0} /\ Words \in Nat OBVIOUS
    <3>2. PICK x \in Nat : x = a + d OBVIOUS
    <3>3. (x - Words) % N = x % N BY <1>3, <3>1, <3>2, RestOfDifference
    <3> QED BY <3>2, <3>3
  <2> QED BY <1>1, <2>1, <2>2
<1> QED BY <1>2, <1>3

\* Where each unread value's counter stands.
LEMMA Positions ==
    ASSUME BufferConstants, QueueTypes
    PROVE  /\ Length(headAt, tail) = IF tail <= headAt THEN headAt - tail
                                     ELSE headAt + Words - tail
           /\ \A i \in 0 .. N : After(i) = IF tail + i < Words THEN tail + i
                                           ELSE tail + i - Words
           /\ \A i \in 0 .. N : After(i) \in 0 .. Words - 1
           /\ \A x \in 0 .. Words - 1 : x % N \in 0 .. N - 1
<1> USE DEF BufferConstants, QueueTypes
<1>1. Length(headAt, tail) = IF tail <= headAt THEN headAt - tail ELSE headAt + Words - tail
    BY Wrapping DEF Length
<1>2. ASSUME NEW i \in 0 .. N
      PROVE  After(i) = IF tail + i < Words THEN tail + i ELSE tail + i - Words
    BY Wrapping, SMTT(30) DEF After
<1>3. ASSUME NEW i \in 0 .. N PROVE After(i) \in 0 .. Words - 1
    BY <1>2
<1>4. ASSUME NEW x \in 0 .. Words - 1 PROVE x % N \in 0 .. N - 1
    BY Division
<1> QED BY <1>1, <1>2, <1>3, <1>4

\* The cell the producer writes holds no unread value, and the oldest unread
\* value's cell holds no other one.
LEMMA NoOverlap ==
    ASSUME BufferConstants, QueueInv, NEW i \in 0 .. Length(headAt, tail) - 1
    PROVE  /\ Length(headAt, tail) < N => After(i) % N # headAt % N
           /\ i # 0 => After(i) % N # tail % N
<1> USE DEF BufferConstants, QueueInv, QueueTypes, UnreadHeld
<1> DEFINE L == Length(headAt, tail)
<1>1. L \in 0 .. N /\ L = IF tail <= headAt THEN headAt - tail ELSE headAt + Words - tail
  <2>1. L = IF tail <= headAt THEN headAt - tail ELSE headAt + Words - tail
      BY Positions
  <2>2. L <= N OBVIOUS
  <2> QED BY <2>1, <2>2
<1>2. After(i) = IF tail + i < Words THEN tail + i ELSE tail + i - Words
    BY <1>1, Positions
<1>3. Words % N = 0 \/ (headAt = pushed /\ tail <= headAt /\ pushed <= MaxFills /\ MaxFills < Words)
    BY DEF NotWrapped
<1>4. ASSUME i # 0 PROVE After(i) % N # tail % N
  <2>1. Words % N = 0 \/ tail + i < Words BY <1>1, <1>3
  <2>2. i \in 1 .. N - 1 BY <1>1, <1>4
  <2> QED BY <2>1, <2>2, CellsApart DEF After
<1>5. ASSUME L < N PROVE After(i) % N # headAt % N
  <2>1. L - i \in 1 .. N - 1 BY <1>1, <1>5
  <2>2. After(i) \in 0 .. Words - 1 BY <1>1, Positions
  <2>3. PICK a \in 0 .. Words - 1, d \in 1 .. N - 1 : a = After(i) /\ d = L - i
      BY <2>1, <2>2
  <2>4. (a + d) % Words = IF a + d < Words THEN a + d ELSE a + d - Words
    <3>1. Words \in Nat \ {0} /\ d \in 0 .. Words - 1 OBVIOUS
    <3> QED BY ONLY <3>1, a \in 0 .. Words - 1, Wrapping
  <2>7. headAt = IF a + d < Words THEN a + d ELSE a + d - Words
    <3>1. headAt \in 0 .. Words - 1 /\ tail \in 0 .. Words - 1 /\ i \in 0 .. L - 1 OBVIOUS
    <3> HIDE DEF L
    <3> QED BY <1>1, <1>2, <2>3, <3>1
  <2>5. (a + d) % Words = headAt
      BY <2>4, <2>7
  <2>6. Words % N = 0 \/ a + d < Words BY <1>1, <1>2, <1>3, <2>3
  <2> QED BY <2>3, <2>5, <2>6, CellsApart
<1> QED BY <1>4, <1>5

\* The queue starts empty.
LEMMA QueueInit == ASSUME BufferConstants, BInit PROVE QueueInv
<1> USE DEF BufferConstants
<1>1. QueueTypes BY DEF BInit, QueueTypes
<1>2. Length(headAt, tail) = 0 BY <1>1, Positions DEF BInit
<1> QED BY <1>1, <1>2 DEF BInit, QueueInv, UnreadHeld, NotWrapped

\* The producer's load and its refusal.
LEMMA PushTryStep ==
    ASSUME BufferConstants, QueueInv, PushLoad \/ PushFull
    PROVE  QueueInv' /\ UNCHANGED <<Unread, answer>>
<1>1. UNCHANGED <<headAt, tail, ring, pushed, cpc, answer>> BY DEF PushLoad, PushFull
<1>2. \A i : After(i)' = After(i) BY <1>1 DEF After
<1>3. QueueInv'
  <2>1. QueueTypes' BY <1>1 DEF QueueInv, QueueTypes, PushLoad, PushFull
  <2>2. UnreadHeld'
    <3>1. CASE PushLoad
      <4>1. Length(headAt, tail) \in Nat /\ pushed < MaxFills
          BY <3>1, Positions DEF PushLoad, QueueInv, QueueTypes, BufferConstants
      <4> QED BY <1>1, <1>2, <3>1, <4>1 DEF PushLoad, QueueInv, UnreadHeld, Length
    <3>2. CASE PushFull
        BY <1>1, <1>2, <3>2 DEF PushFull, QueueInv, UnreadHeld, Length
    <3> QED BY <3>1, <3>2
  <2>3. NotWrapped' BY <1>1 DEF QueueInv, NotWrapped
  <2> QED BY <2>1, <2>2, <2>3 DEF QueueInv
<1> QED BY <1>1, <1>3 DEF Unread, Length

\* Other cells are written while the consumer may be reading.
LEMMA PushWriteStep ==
    ASSUME BufferConstants, QueueInv, PushWrite
    PROVE  QueueInv' /\ UNCHANGED <<Unread, answer>>
<1> USE DEF BufferConstants, QueueInv
<1>1. /\ UNCHANGED <<headAt, tail, seenTail, pushed, cpc, answer>>
      /\ ring' = [ring EXCEPT ![headAt % N] = pushed + 1] /\ ppc = "check" /\ ppc' = "publish"
    BY DEF PushWrite
<1>2. pushed < MaxFills /\ pushed + 1 \in 1 .. MaxFills /\ headAt % N \in 0 .. N - 1
    BY <1>1, Positions DEF UnreadHeld, QueueTypes
<1>3. Length(headAt, tail) \in 0 .. N - 1
  <2>1. Length(headAt, tail) \in Nat /\ Length(headAt, seenTail) \in Nat
      BY Wrapping DEF QueueTypes, Length
  <2> QED BY <1>1, <2>1 DEF PushWrite, UnreadHeld
<1>4. ASSUME NEW i \in 0 .. Length(headAt, tail) - 1
      PROVE  ring'[After(i) % N] = ring[After(i) % N]
  <2>1. After(i) % N # headAt % N BY <1>3, NoOverlap
  <2>2. After(i) % N \in 0 .. N - 1 BY <1>3, Positions
  <2> QED BY <1>1, <2>1, <2>2 DEF QueueTypes
<1>5. QueueTypes' BY <1>1, <1>2 DEF QueueTypes
<1>6. UnreadHeld'
  <2>1. ring'[headAt % N] = pushed + 1 BY <1>1, <1>2 DEF QueueTypes
  <2>2. \A i : After(i)' = After(i) BY <1>1 DEF After
  <2>3. Length(headAt, tail)' = Length(headAt, tail) BY <1>1 DEF Length
  <2> QED BY <1>1, <1>2, <1>3, <1>4, <2>1, <2>2, <2>3 DEF UnreadHeld
<1>7. NotWrapped' BY <1>1 DEF NotWrapped
<1>8. Unread' = Unread
  <2>1. Length(headAt, tail)' = Length(headAt, tail) BY <1>1 DEF Length
  <2>2. ASSUME NEW i \in 1 .. Length(headAt, tail)
        PROVE  ring'[((tail + i - 1) % Words) % N] = ring[((tail + i - 1) % Words) % N]
    <3>1. tail + i - 1 = tail + (i - 1) /\ i - 1 \in 0 .. Length(headAt, tail) - 1
        BY <1>3 DEF QueueTypes
    <3> QED BY <1>4, <3>1 DEF After
  <2> QED BY <1>1, <2>1, <2>2 DEF Unread
<1> QED BY <1>1, <1>5, <1>6, <1>7, <1>8

\* One push or one pop moves a counter by one, and the length with it.
LEMMA OneMore ==
    ASSUME BufferConstants, QueueTypes
    PROVE  /\ (headAt + 1) % Words \in 0 .. Words - 1 /\ (tail + 1) % Words \in 0 .. Words - 1
           /\ Length(headAt, tail) < N =>
                Length((headAt + 1) % Words, tail) = Length(headAt, tail) + 1
           /\ headAt # tail =>
                /\ Length(headAt, tail) > 0
                /\ Length(headAt, (tail + 1) % Words) = Length(headAt, tail) - 1
           /\ \A i \in 0 .. N - 1 : (((tail + 1) % Words) + i) % Words = After(i + 1)
           /\ After(0) = tail
           /\ Length(headAt, tail) < N => After(Length(headAt, tail)) = headAt
           /\ headAt + 1 < Words => (headAt + 1) % Words = headAt + 1
           /\ tail + 1 < Words => (tail + 1) % Words = tail + 1
<1> USE DEF BufferConstants, QueueTypes
<1>1. Words \in Nat \ {0} /\ 1 \in 0 .. Words - 1 /\ 0 \in 0 .. Words - 1 OBVIOUS
<1>2. ASSUME NEW a \in 0 .. Words - 1
      PROVE  (a + 1) % Words = IF a + 1 < Words THEN a + 1 ELSE 0
    BY <1>1, Wrapping
<1>3. ASSUME NEW a \in 0 .. Words - 1, NEW b \in 0 .. Words - 1
      PROVE  Length(a, b) = IF b <= a THEN a - b ELSE a + Words - b
    BY <1>1, Wrapping DEF Length
<1>4. PICK h \in 0 .. Words - 1 : h = (headAt + 1) % Words /\ h = IF headAt + 1 < Words THEN headAt + 1 ELSE 0
    BY <1>2
<1>5. PICK t \in 0 .. Words - 1 : t = (tail + 1) % Words /\ t = IF tail + 1 < Words THEN tail + 1 ELSE 0
    BY <1>2
<1>6. /\ Length(headAt, tail) = IF tail <= headAt THEN headAt - tail ELSE headAt + Words - tail
      /\ Length(h, tail) = IF tail <= h THEN h - tail ELSE h + Words - tail
      /\ Length(headAt, t) = IF t <= headAt THEN headAt - t ELSE headAt + Words - t
    BY <1>3
<1>7. /\ Length(headAt, tail) < N => Length(h, tail) = Length(headAt, tail) + 1
      /\ headAt # tail => Length(headAt, tail) > 0 /\ Length(headAt, t) = Length(headAt, tail) - 1
  <2>2. headAt \in Nat /\ tail \in Nat /\ headAt < Words /\ tail < Words /\ N < Words
        /\ h \in Nat /\ t \in Nat /\ Words \in Nat /\ N \in Nat
      OBVIOUS
  <2>6. ASSUME NEW a \in Nat, NEW b \in Nat
        PROVE  \E c \in Int : c = IF b <= a THEN a - b ELSE a + Words - b
    <3>1. CASE b <= a
      <4> WITNESS a - b \in Int
      <4> QED BY <3>1
    <3>2. CASE ~(b <= a)
      <4>1. a + Words - b \in Int BY <2>2
      <4> WITNESS a + Words - b \in Int
      <4> QED BY <3>2
    <3> QED BY <3>1, <3>2
  <2>7. PICK l \in Int : l = IF tail <= headAt THEN headAt - tail ELSE headAt + Words - tail
      BY <2>2, <2>6
  <2>8. PICK m \in Int : m = IF tail <= h THEN h - tail ELSE h + Words - tail
      BY <2>2, <2>6
  <2>9. PICK n \in Int : n = IF t <= headAt THEN headAt - t ELSE headAt + Words - t
      BY <2>2, <2>6
  <2>3. l = Length(headAt, tail) /\ m = Length(h, tail) /\ n = Length(headAt, t)
      BY <1>6, <2>7, <2>8, <2>9
  <2>4. l < N => m = l + 1
      BY ONLY <1>4, <2>2, <2>7, <2>8
  <2>5. headAt # tail => l > 0 /\ n = l - 1
      BY ONLY <1>5, <2>2, <2>7, <2>9
  <2> QED BY <2>3, <2>4, <2>5
<1>8. ASSUME NEW i \in 0 .. N - 1 PROVE (t + i) % Words = After(i + 1)
  <2>1. (t + i) % Words = IF t + i < Words THEN t + i ELSE t + i - Words
    <3>1. i \in 0 .. Words - 1 OBVIOUS
    <3> QED BY <1>1, <3>1, Wrapping
  <2>2. i + 1 \in 0 .. N OBVIOUS
  <2>3. After(i + 1) = IF tail + i + 1 < Words THEN tail + i + 1 ELSE tail + i + 1 - Words
    <3>1. \A m \in 0 .. N : After(m) = IF tail + m < Words THEN tail + m ELSE tail + m - Words
        BY Positions
    <3> QED BY <2>2, <3>1
  <2> QED BY <1>5, <2>1, <2>3
<1>9. After(0) = tail BY Positions
<1>10. ASSUME Length(headAt, tail) < N PROVE After(Length(headAt, tail)) = headAt
  <2>3. Length(headAt, tail) \in Nat BY <1>6
  <2>1. PICK m \in 0 .. N - 1 : m = Length(headAt, tail) BY <1>10, <2>3
  <2>2. After(m) = IF tail + m < Words THEN tail + m ELSE tail + m - Words BY Positions
  <2> QED BY <1>6, <2>1, <2>2
<1> QED BY <1>4, <1>5, <1>7, <1>8, <1>9, <1>10

\* The store of head makes one more value readable, the newest.
LEMMA PublishStep ==
    ASSUME BufferConstants, QueueInv, PushPublish
    PROVE  /\ QueueInv' /\ answer' = answer
           /\ Unread' = Append(Unread, pushed + 1) /\ pushed + 1 \in 1 .. MaxFills
<1> USE DEF BufferConstants, QueueInv
<1>1. /\ UNCHANGED <<ring, tail, seenTail, cpc, answer>>
      /\ headAt' = (headAt + 1) % Words /\ pushed' = pushed + 1 /\ ppc' = "idle" /\ ppc = "publish"
    BY DEF PushPublish
<1>2. PICK L \in 0 .. N - 1 : L = Length(headAt, tail)
    BY <1>1, Positions DEF UnreadHeld, QueueTypes
<1>3. Length(headAt', tail') = L + 1 /\ After(L) = headAt
    BY <1>1, <1>2, OneMore
<1>4. pushed + 1 \in 1 .. MaxFills /\ ring[headAt % N] = pushed + 1
    BY <1>1 DEF UnreadHeld, QueueTypes
<1>5. QueueTypes' BY <1>1, <1>4, OneMore DEF QueueTypes
<1>6. \A i : After(i)' = After(i) BY <1>1 DEF After
<1>7. UnreadHeld'
  <2>1. ASSUME NEW i \in 0 .. L PROVE ring[After(i) % N] \in 1 .. MaxFills
    <3>1. CASE i = L BY <1>3, <1>4, <3>1
    <3>2. CASE i \in 0 .. L - 1 BY <1>2, <3>2 DEF UnreadHeld
    <3> QED BY <3>1, <3>2
  <2>2. headAt' # tail'
    <3> SUFFICES ASSUME headAt' = tail' PROVE Length(headAt', tail') = 0
        BY <1>2, <1>3
    <3>1. headAt' \in 0 .. Words - 1 BY <1>5 DEF QueueTypes
    <3>2. Words \in Nat \ {0} OBVIOUS
    <3>3. ASSUME NEW x \in 0 .. Words - 1 PROVE Length(x, x) = 0
        BY <3>2, Wrapping DEF Length
    <3> QED BY <3>1, <3>3
  <2> QED BY <1>1, <1>2, <1>3, <1>6, <2>1, <2>2 DEF UnreadHeld
<1>8. NotWrapped'
    BY <1>1, <1>4, OneMore DEF NotWrapped, QueueTypes
<1>9. Unread' = Append(Unread, pushed + 1)
  <2> DEFINE v(i) == ring[((tail + i - 1) % Words) % N]
  <2>1. Unread = [i \in 1 .. L |-> v(i)] /\ Unread' = [i \in 1 .. L + 1 |-> v(i)]
      BY <1>1, <1>2, <1>3 DEF Unread
  <2>2. v(L + 1) = pushed + 1
    <3>1. tail + (L + 1) - 1 = tail + L BY DEF QueueTypes
    <3> QED BY <1>3, <1>4, <3>1 DEF After
  <2> HIDE DEF v
  <2> QED BY <2>1, <2>2
<1> QED BY <1>1, <1>4, <1>5, <1>7, <1>8, <1>9

\* The consumer's load of head.
LEMMA PopLoadStep ==
    ASSUME BufferConstants, QueueInv, PopLoad
    PROVE  /\ QueueInv' /\ Unread' = Unread
           /\ answer' # answer => Unread = << >> /\ answer' = Empty
<1> USE DEF BufferConstants, QueueInv
<1>1. UNCHANGED <<ring, headAt, tail, ppc, seenTail, pushed>> BY DEF PopLoad
<1>2. cpc' \in {"idle", "take"} /\ (cpc' = "take" => headAt # tail)
    BY DEF PopLoad, QueueTypes
<1>3. QueueTypes' BY <1>1, <1>2 DEF QueueTypes
<1>4. UnreadHeld' BY <1>1, <1>2 DEF UnreadHeld, Length, After
<1>5. NotWrapped' BY <1>1 DEF NotWrapped
<1>6. Unread' = Unread BY <1>1 DEF Unread, Length
<1>7. ASSUME answer' # answer PROVE Unread = << >> /\ answer' = Empty
  <2>1. headAt = tail /\ answer' = Empty BY <1>7 DEF PopLoad
  <2>2. Length(headAt, tail) = 0 BY <2>1, Positions DEF QueueTypes
  <2> QED BY <2>1, <2>2 DEF Unread
<1> QED BY <1>3, <1>4, <1>5, <1>6, <1>7

\* The consumer takes the oldest value, and no other cell changes.
LEMMA PopTakeStep ==
    ASSUME BufferConstants, QueueInv, PopTake
    PROVE  QueueInv' /\ Unread # << >> /\ answer' = Head(Unread) /\ Unread' = Tail(Unread)
<1> USE DEF BufferConstants, QueueInv
<1>1. /\ UNCHANGED <<headAt, ppc, seenTail, pushed, seenHead>>
      /\ answer' = ring[tail % N] /\ tail' = (tail + 1) % Words /\ cpc' = "idle" /\ cpc = "take"
      /\ ring' = [ring EXCEPT ![tail % N] = Empty]
    BY DEF PopTake
<1>2. PICK L \in 1 .. N : L = Length(headAt, tail) /\ Length(headAt', tail') = L - 1
  <2>1. Length(headAt, tail) \in Int /\ Length(headAt, tail) <= N
      BY Positions DEF UnreadHeld, QueueTypes
  <2> QED BY <1>1, <2>1, OneMore DEF UnreadHeld
<1>3. ASSUME NEW i \in 0 .. L - 2
      PROVE  After(i)' = After(i + 1) /\ ring'[After(i)' % N] = ring[After(i + 1) % N]
  <2>1. After(i)' = After(i + 1)
    <3>1. i \in 0 .. N - 1 OBVIOUS
    <3> QED BY <1>1, <3>1, OneMore DEF After
  <2>2. i + 1 \in 0 .. Length(headAt, tail) - 1 /\ i + 1 # 0 /\ i + 1 \in 0 .. N BY <1>2
  <2>3. After(i + 1) % N # tail % N BY <2>2, NoOverlap
  <2>4. After(i + 1) % N \in 0 .. N - 1 BY <2>2, Positions
  <2> QED BY <1>1, <2>1, <2>3, <2>4 DEF QueueTypes
<1>4. tail % N \in 0 .. N - 1 /\ tail' \in 0 .. Words - 1
    BY <1>1, OneMore, Positions DEF QueueTypes
<1>5. QueueTypes' BY <1>1, <1>4 DEF QueueTypes
<1>6. UnreadHeld'
  <2>1. ASSUME NEW i \in 0 .. L - 2 PROVE ring'[After(i)' % N] \in 1 .. MaxFills
    <3>1. i + 1 \in 0 .. Length(headAt, tail) - 1 BY <1>2
    <3> QED BY <1>3, <3>1 DEF UnreadHeld
  <2>2. Length(headAt, tail)' = L - 1 BY <1>2 DEF Length
  <2>3. ppc' = "publish" => ring'[headAt % N] = pushed + 1
    <3> SUFFICES ASSUME ppc = "publish" PROVE ring'[headAt % N] = ring[headAt % N]
        BY <1>1 DEF UnreadHeld
    <3>1. 0 \in 0 .. Length(headAt, tail) - 1 /\ Length(headAt, tail) < N BY <1>2 DEF UnreadHeld
    <3>2. tail % N # headAt % N BY <3>1, NoOverlap, OneMore
    <3>3. headAt % N \in 0 .. N - 1 BY Positions DEF QueueTypes
    <3> QED BY <1>1, <1>4, <3>2, <3>3 DEF QueueTypes
  <2>4. ppc' = "check" => Length(headAt, tail)' <= Length(headAt, seenTail)'
    <3>1. Length(headAt, seenTail)' = Length(headAt, seenTail) BY <1>1 DEF Length
    <3>2. Length(headAt, seenTail) \in Nat BY Wrapping DEF Length, QueueTypes
    <3> QED BY <1>1, <1>2, <2>2, <3>1, <3>2 DEF UnreadHeld
  <2> QED BY <1>1, <1>2, <2>1, <2>2, <2>3, <2>4 DEF UnreadHeld
<1>7. NotWrapped'
  <2> SUFFICES ASSUME MaxFills < Words PROVE headAt' = pushed' /\ tail' <= headAt'
      BY DEF NotWrapped
  <2>1. headAt = pushed /\ tail <= headAt /\ pushed <= MaxFills BY DEF NotWrapped, QueueTypes
  <2>2. tail # headAt BY <1>1 DEF UnreadHeld
  <2>3. tail + 1 <= headAt /\ tail + 1 < Words BY <2>1, <2>2 DEF QueueTypes
  <2> QED BY <1>1, <2>1, <2>3, OneMore
<1>8. Unread # << >> /\ answer' = Head(Unread) /\ Unread' = Tail(Unread)
  <2> DEFINE v(i) == ring[((tail + i - 1) % Words) % N]
  <2>1. Unread = [i \in 1 .. L |-> v(i)] BY <1>2 DEF Unread
  <2>2. v(1) = ring[tail % N]
    <3>1. tail + 1 - 1 = tail + 0 BY DEF QueueTypes
    <3> QED BY <3>1, OneMore DEF After
  <2>3. Unread' = [i \in 1 .. L - 1 |-> v(i + 1)]
    <3>1. ASSUME NEW i \in 1 .. L - 1
          PROVE  ring'[((tail' + i - 1) % Words) % N] = v(i + 1)
      <4>1. PICK m \in 0 .. L - 2 : m = i - 1 OBVIOUS
      <4>2. tail' + i - 1 = tail' + m /\ tail + (i + 1) - 1 = tail + (m + 1)
          BY <1>4, <4>1 DEF QueueTypes
      <4> QED BY <1>3, <4>2 DEF After
    <3> HIDE DEF v
    <3> QED BY <1>2, <3>1 DEF Unread
  <2> HIDE DEF v
  <2> QED BY <1>1, <2>1, <2>2, <2>3
<1> QED BY <1>5, <1>6, <1>7, <1>8

\* What the steps of the other structures leave alone.
LEMMA QueueKept ==
    ASSUME BufferConstants, QueueInv, UNCHANGED qvars
    PROVE  QueueInv' /\ UNCHANGED <<Unread, answer>>
    BY DEF QueueInv, QueueTypes, UnreadHeld, NotWrapped, Unread, Length, After, qvars

\* The inductive invariant of the queue.
THEOREM QueueInvHolds == BSpec => []QueueInv
<1> USE BuffersFit
<1>1. QueueInv /\ [BNext]_bvars => QueueInv'
  <2> SUFFICES ASSUME QueueInv, [BNext]_bvars PROVE QueueInv'
      OBVIOUS
  <2>1. CASE UNCHANGED qvars BY <2>1, QueueKept
  <2>2. CASE DoubleRead \/ DoubleDrop \/ BackMut \/ DoublePublish \/ RingWrite \/ UNCHANGED bvars
    <3>1. UNCHANGED qvars
        BY <2>2 DEF DoubleRead, DoubleDrop, BackMut, DoublePublish, RingWrite, bvars
    <3> QED BY <3>1, QueueKept
  <2> QED BY <2>2, PushTryStep, PushWriteStep, PublishStep, PopLoadStep, PopTakeStep DEF BNext
<1> QED BY <1>1, QueueInit, PTL DEF BSpec

\* The ring implements a FIFO queue: a value is sent by the store of head,
\* received by the store of tail, and None is answered only when nothing is unread.
THEOREM SpscRefinement == BSpec => SpscIsFifo
<1> USE BuffersFit
<1>1. BInit => Fifo!Init
  <2> SUFFICES ASSUME BInit PROVE Fifo!Init
      OBVIOUS
  <2>1. Length(headAt, tail) = 0 BY QueueInit, Positions DEF BInit, QueueInv
  <2> QED BY <2>1 DEF BInit, Fifo!Init, Unread
<1>2. QueueInv /\ [BNext]_bvars => [Fifo!Next]_<<Unread, answer>>
  <2> SUFFICES ASSUME QueueInv, [BNext]_bvars PROVE [Fifo!Next]_<<Unread, answer>>
      OBVIOUS
  <2>1. CASE PushPublish
      BY <2>1, PublishStep DEF Fifo!Next, Fifo!Send
  <2>2. CASE PopTake
      BY <2>2, PopTakeStep DEF Fifo!Next, Fifo!Receive
  <2>3. CASE PopLoad
      BY <2>3, PopLoadStep DEF Fifo!Next, Fifo!ReportEmpty
  <2>4. CASE DoubleRead \/ DoubleDrop \/ BackMut \/ DoublePublish \/ RingWrite \/ UNCHANGED bvars
    <3>1. UNCHANGED qvars
        BY <2>4 DEF DoubleRead, DoubleDrop, BackMut, DoublePublish, RingWrite, bvars
    <3> QED BY <3>1, QueueKept
  <2> QED BY <2>1, <2>2, <2>3, <2>4, PushTryStep, PushWriteStep DEF BNext
<1> QED BY <1>1, <1>2, QueueInvHolds, PTL DEF BSpec, SpscIsFifo, Fifo!Spec

-----------------------------------------------------------------------------
(* DoubleBuffer and Ring *)

\* DoubleBuffer: the reader's slot is the front one, which shows the last
\* publish, and the back one what the writer has filled since.
FrontIsPublished ==
    /\ writes \in Nat /\ slots \in [0 .. 1 -> Nat]
    /\ front \in 0 .. 1 /\ bpcw \in {"idle", "filled"} /\ held \in {front, NotHeld}
    /\ buffer # "double" => bpcw = "idle" /\ held = NotHeld
    /\ buffer = "double" =>
         /\ bpcw = "filled" => writes > 0 /\ slots[1 - front] = writes
         /\ slots[front] = IF bpcw = "filled" THEN writes - 1 ELSE writes

\* Ring: the cell d before write_pos.
Back(d) == IF d <= writePos THEN writePos - d ELSE writePos + N - d

\* Ring: going back from write_pos one meets the writes from the newest on,
\* each with its own epoch, and then cells never written.
RetainedCells ==
    /\ writePos \in 0 .. N - 1 /\ DOMAIN cells = 0 .. N - 1
    /\ buffer = "ring" =>
         \A d \in 1 .. N :
            cells[Back(d)] =
                [value |-> IF d <= writes THEN writes - d + 1 ELSE 0,
                 epoch |-> IF d <= writes THEN (writes - d + 1) % EpochRange ELSE 0]

\* The inductive invariant of the two buffers.
BufferInv == FrontIsPublished /\ RetainedCells

\* Both buffers start with nothing written.
LEMMA BuffersInit == ASSUME BufferConstants, BInit PROVE BufferInv
<1> USE DEF BufferConstants
<1>1. FrontIsPublished BY DEF BInit, FrontIsPublished, NotHeld
<1>2. RetainedCells
  <2>1. ASSUME NEW d \in 1 .. N PROVE Back(d) \in 0 .. N - 1 BY DEF BInit, Back
  <2>2. writes = 0 /\ writePos = 0 BY DEF BInit
  <2>3. ASSUME NEW d \in 1 .. N PROVE ~(d <= writes) BY <2>2
  <2> QED BY <2>1, <2>2, <2>3 DEF BInit, RetainedCells
<1> QED BY <1>1, <1>2 DEF BufferInv

\* A step of the double buffer.
LEMMA DoubleStep ==
    ASSUME BufferConstants, BufferInv, DoubleRead \/ DoubleDrop \/ BackMut \/ DoublePublish
    PROVE  BufferInv'
<1> USE DEF BufferInv
<1>1. UNCHANGED <<buffer, cells, writePos>> /\ (writes' = writes \/ buffer = "double")
    BY DEF DoubleRead, DoubleDrop, BackMut, DoublePublish, gvars
<1>2. RetainedCells' BY <1>1 DEF RetainedCells, Back
<1>3. CASE DoubleRead BY <1>2, <1>3 DEF DoubleRead, FrontIsPublished, NotHeld, gvars
<1>4. CASE DoubleDrop BY <1>2, <1>4 DEF DoubleDrop, FrontIsPublished, NotHeld, gvars
<1>5. CASE BackMut
  <2>1. /\ slots' = [slots EXCEPT ![1 - front] = writes + 1] /\ writes' = writes + 1
        /\ bpcw' = "filled" /\ bpcw = "idle" /\ UNCHANGED <<buffer, front, held>>
        /\ buffer = "double"
      BY <1>5 DEF BackMut
  <2>2. 1 - front \in 0 .. 1 /\ 1 - front # front BY DEF FrontIsPublished
  <2>3. slots'[1 - front] = writes + 1 /\ slots'[front] = slots[front] /\ slots' \in [0 .. 1 -> Nat]
      BY <2>1, <2>2 DEF FrontIsPublished
  <2>4. slots[front] = writes /\ writes \in Nat BY <2>1 DEF FrontIsPublished
  <2> QED BY <1>2, <2>1, <2>3, <2>4 DEF FrontIsPublished
<1>6. CASE DoublePublish
  <2>1. /\ front' = 1 - front /\ bpcw' = "idle" /\ bpcw = "filled" /\ held = NotHeld
        /\ UNCHANGED <<buffer, slots, held, writes>>
      BY <1>6 DEF DoublePublish, gvars
  <2>2. front' \in 0 .. 1 /\ slots[1 - front] = writes /\ writes \in Nat /\ buffer = "double"
      BY <2>1 DEF FrontIsPublished
  <2> QED BY <1>2, <2>1, <2>2 DEF FrontIsPublished
<1> QED BY <1>2, <1>3, <1>4, <1>5, <1>6

\* A write of the ring: every earlier write is one cell further back, and the
\* oldest cell is the one overwritten.
LEMMA RingStep ==
    ASSUME BufferConstants, BufferInv, RingWrite
    PROVE  BufferInv'
<1> USE DEF BufferConstants, BufferInv
<1>1. /\ UNCHANGED <<buffer, slots, front, bpcw, held>> /\ buffer = "ring" /\ writes' = writes + 1
      /\ cells' = [cells EXCEPT ![writePos] = [value |-> writes + 1, epoch |-> (writes + 1) % EpochRange]]
      /\ writePos' = (writePos + 1) % N
    BY DEF RingWrite, dvars
<1>2. FrontIsPublished' BY <1>1 DEF FrontIsPublished
<1>3. PICK p \in 0 .. N - 1 : p = writePos BY DEF RetainedCells
<1>4. PICK q \in 0 .. N - 1 : q = writePos' /\ q = IF p = N - 1 THEN 0 ELSE p + 1
  <2>1. CASE p = N - 1
    <3>1. N % N = 0
      <4>1. ASSUME NEW n \in Nat \ {0} PROVE n % n = 0 OBVIOUS
      <4> QED BY <4>1
    <3> QED BY <1>1, <1>3, <2>1, <3>1
  <2>2. CASE p < N - 1
    <3>1. ASSUME NEW n \in Nat \ {0}, NEW a \in Nat, a < n PROVE a % n = a BY <3>1
    <3>2. (p + 1) % N = p + 1 BY <2>2, <3>1
    <3> QED BY <1>1, <1>3, <2>2, <3>2
  <2> QED BY <2>1, <2>2
<1>5. PICK w \in Nat : w = writes' /\ w = writes + 1 /\ writes \in Nat
    BY <1>1 DEF FrontIsPublished
<1>6. ASSUME NEW d \in 1 .. N
      PROVE  cells'[Back(d)'] =
                [value |-> IF d <= w THEN w - d + 1 ELSE 0,
                 epoch |-> IF d <= w THEN (w - d + 1) % EpochRange ELSE 0]
  <2>1. Back(d)' = IF d <= q THEN q - d ELSE q + N - d BY <1>4 DEF Back
  <2>2. CASE d = 1
    <3>1. Back(d)' = p BY <1>4, <2>1, <2>2
    <3>2. d <= w /\ w - d + 1 = writes + 1 BY <1>5, <2>2
    <3> QED BY <1>1, <1>3, <3>1, <3>2 DEF RetainedCells
  <2>3. CASE d # 1
    <3>1. PICK e \in 1 .. N - 1 : e = d - 1 BY <2>3
    <3>2. Back(e) = IF e <= p THEN p - e ELSE p + N - e BY <1>3 DEF Back
    <3>3. Back(d)' = Back(e) BY ONLY <1>4, <2>1, <3>1, <3>2, p \in 0 .. N - 1, N \in Nat, d \in 1 .. N
    <3>4. Back(e) # p BY <3>2
    <3>5. cells[Back(e)] =
                [value |-> IF e <= writes THEN writes - e + 1 ELSE 0,
                 epoch |-> IF e <= writes THEN (writes - e + 1) % EpochRange ELSE 0]
        BY <1>1, <3>1 DEF RetainedCells
    <3>6. (e <= writes <=> d <= w) /\ writes - e + 1 = w - d + 1 BY <1>5, <3>1
    <3>7. cells'[Back(e)] = cells[Back(e)]
        BY <1>1, <1>3, <3>2, <3>4 DEF RetainedCells
    <3> QED BY <3>3, <3>5, <3>6, <3>7
  <2> QED BY <2>2, <2>3
<1>7. RetainedCells'
  <2>1. writePos' \in 0 .. N - 1 /\ DOMAIN cells' = 0 .. N - 1
      BY <1>1, <1>4 DEF RetainedCells
  <2>2. \A d \in 1 .. N :
            cells'[Back(d)'] =
                [value |-> IF d <= writes' THEN writes' - d + 1 ELSE 0,
                 epoch |-> IF d <= writes' THEN (writes' - d + 1) % EpochRange ELSE 0]
      BY <1>5, <1>6
  <2> HIDE DEF BufferInv, BufferConstants
  <2> QED BY <2>1, <2>2 DEF RetainedCells
<1> QED BY <1>2, <1>7

\* The inductive invariant of the two buffers.
THEOREM BufferInvHolds == BSpec => []BufferInv
<1> USE BuffersFit
<1>1. BufferInv /\ [BNext]_bvars => BufferInv'
  <2> SUFFICES ASSUME BufferInv, [BNext]_bvars PROVE BufferInv'
      OBVIOUS
  <2>1. CASE UNCHANGED <<buffer, dvars, gvars>>
      BY <2>1 DEF BufferInv, FrontIsPublished, RetainedCells, Back, dvars, gvars
  <2>2. CASE PushLoad \/ PushFull \/ PushWrite \/ PushPublish \/ PopLoad \/ PopTake
               \/ UNCHANGED bvars
    <3>1. UNCHANGED <<buffer, dvars, gvars>>
        BY <2>2 DEF PushLoad, PushFull, PushWrite, PushPublish, PopLoad, PopTake, bvars
    <3> QED BY <2>1, <3>1
  <2> QED BY <2>2, DoubleStep, RingStep DEF BNext
<1> QED BY <1>1, BuffersInit, PTL DEF BSpec

\* Below the range of the epochs every retained epoch is in one cell, with its
\* own value, and every other cell's is smaller than the retained ones.
LEMMA RingAnswers ==
    ASSUME BufferConstants, BufferInv, buffer = "ring", writes < EpochRange
    PROVE  /\ RingRead = writes
           /\ \A t \in 1 .. writes : ReadAtEpoch(t) = IF t + N > writes THEN t ELSE 0
           /\ \A l \in 1 .. writes : Missed(l, cells[(writePos + N - 1) % N].epoch)
                                       = IF l = writes THEN 0 ELSE writes - l - 1
<1> USE DEF BufferConstants, BufferInv
<1>1. PICK p \in 0 .. N - 1 : p = writePos BY DEF RetainedCells
<1>2. PICK w \in Nat : w = writes BY DEF FrontIsPublished
<1>3. ASSUME NEW d \in 1 .. N
      PROVE  /\ Back(d) \in 0 .. N - 1
             /\ cells[Back(d)].value = IF d <= w THEN w - d + 1 ELSE 0
             /\ cells[Back(d)].epoch = cells[Back(d)].value
  <2>1. Back(d) \in 0 .. N - 1 BY <1>1 DEF Back
  <2>2. ASSUME NEW n \in Nat \ {0}, NEW a \in Nat, a < n PROVE a % n = a BY <2>2
  <2>3. d <= w => (w - d + 1) % EpochRange = w - d + 1 BY <1>2, <2>2
  <2>4. cells[Back(d)] =
            [value |-> IF d <= w THEN w - d + 1 ELSE 0,
             epoch |-> IF d <= w THEN (w - d + 1) % EpochRange ELSE 0]
      BY <1>2 DEF RetainedCells
  <2> QED BY <2>1, <2>3, <2>4
<1>4. ASSUME NEW i \in 0 .. N - 1 PROVE \E d \in 1 .. N : i = Back(d)
  <2>1. CASE i < p
    <3>1. p - i \in 1 .. N BY <2>1
    <3> WITNESS p - i \in 1 .. N
    <3> QED BY <1>1, <2>1 DEF Back
  <2>2. CASE p <= i
    <3>1. p + N - i \in 1 .. N BY <2>2
    <3> WITNESS p + N - i \in 1 .. N
    <3> QED BY <1>1, <2>2 DEF Back
  <2> QED BY <2>1, <2>2
<1>5. cells[Back(1)].value = w /\ cells[Back(1)].epoch = w
    BY <1>3
<1>6. RingRead = writes
    BY <1>1, <1>2, <1>5 DEF RingRead, Back
<1>7. ASSUME NEW t \in 1 .. w PROVE ReadAtEpoch(t) = IF t + N > w THEN t ELSE 0
  <2> DEFINE ok == {i \in 0 .. N - 1 : cells[i].epoch > 0 /\ cells[i].epoch <= t}
             best(c) == c \in ok /\ \A j \in ok : cells[j].epoch <= cells[c].epoch
             c0x == CHOOSE c \in ok : \A j \in ok : cells[j].epoch <= cells[c].epoch
  <2>1. ReadAtEpoch(t) = IF ok = {} THEN 0 ELSE cells[c0x].value
      BY DEF ReadAtEpoch
  <2>2. CASE t + N > w
    <3>1. PICK d \in 1 .. N : d = w - t + 1 BY <2>2
    <3>2. cells[Back(d)].epoch = t /\ Back(d) \in 0 .. N - 1 BY <1>3, <3>1
    <3>3. Back(d) \in ok BY <3>2
    <3>4. best(Back(d)) BY <3>2, <3>3
    <3>5. best(c0x) BY <3>4
    <3>6. cells[c0x].epoch = t
      <4>1. c0x \in ok /\ t <= cells[c0x].epoch /\ cells[c0x].epoch <= t BY <3>2, <3>3, <3>5
      <4>2. PICK e \in 1 .. N : c0x = Back(e) BY <1>4, <4>1
      <4>3. cells[c0x].epoch \in Nat
        <5>1. cells[c0x].epoch = IF e <= w THEN w - e + 1 ELSE 0 BY <1>3, <4>2
        <5>2. e <= w => w - e + 1 \in Nat OBVIOUS
        <5> HIDE DEF c0x
        <5> QED BY <5>1, <5>2
      <4>4. t <= cells[c0x].epoch /\ cells[c0x].epoch <= t BY <4>1
      <4> HIDE DEF c0x, ok
      <4> QED BY ONLY <4>3, <4>4, t \in 1 .. w, w \in Nat
    <3>7. cells[c0x].value = t
      <4>1. PICK e \in 1 .. N : c0x = Back(e) BY <1>4, <3>5
      <4> QED BY <1>3, <3>6, <4>1
    <3> HIDE DEF ok, c0x
    <3> QED BY <2>1, <2>2, <3>3, <3>7
  <2>3. CASE ~(t + N > w)
    <3>1. ASSUME NEW i \in ok PROVE FALSE
      <4>1. PICK d \in 1 .. N : i = Back(d) BY <1>4
      <4>2. cells[i].epoch = IF d <= w THEN w - d + 1 ELSE 0 BY <1>3, <4>1
      <4>3. cells[i].epoch > 0 /\ cells[i].epoch <= t OBVIOUS
      <4> HIDE DEF ok
      <4> QED BY <2>3, <4>2, <4>3
    <3> HIDE DEF ok, c0x
    <3> QED BY <2>1, <2>3, <3>1
  <2> QED BY <2>2, <2>3
<1>8. ASSUME NEW l \in 1 .. w
      PROVE  Missed(l, cells[(writePos + N - 1) % N].epoch) = IF l = w THEN 0 ELSE w - l - 1
  <2>1. (p + N - 1) % N = Back(1)
    <3>1. ASSUME NEW n \in Nat \ {0}, NEW a \in Nat, a < n PROVE a % n = a BY <3>1
    <3>2. ASSUME NEW n \in Nat \ {0}, NEW a \in Nat, n <= a, a < n + n PROVE a % n = a - n
        BY <3>2
    <3>3. CASE p = 0
      <4>1. (p + N - 1) % N = N - 1 BY <3>1, <3>3
      <4> QED BY <1>1, <3>3, <4>1 DEF Back
    <3>4. CASE p # 0
      <4>1. (p + N - 1) % N = p - 1
        <5>1. PICK a \in Nat : a = p + N - 1 /\ N <= a /\ a < N + N BY <3>4
        <5>2. a % N = a - N BY <3>2, <5>1
        <5> QED BY <5>1, <5>2
      <4> QED BY <1>1, <3>4, <4>1 DEF Back
    <3> QED BY <3>3, <3>4
  <2>2. cells[(writePos + N - 1) % N].epoch = w BY <1>1, <1>5, <2>1
  <2> QED BY <2>2 DEF Missed
<1> QED BY <1>2, <1>6, <1>7, <1>8

\* The drop of a queue meets initialised cells only, the reader of a double
\* buffer sees the last publish, and a ring answers each retained epoch with
\* its own value and counts the writes a reader missed.
THEOREM BuffersKeep == BSpec => []BuffersKeepContract
<1> USE BuffersFit
<1>1. QueueInv /\ BufferInv => BuffersKeepContract
  <2> SUFFICES ASSUME QueueInv, BufferInv PROVE BuffersKeepContract
      OBVIOUS
  <2>1. ASSUME NEW j \in DOMAIN Unread PROVE Unread[j] # Empty
    <3>1. j \in 1 .. Length(headAt, tail)
          /\ Unread[j] = ring[((tail + j - 1) % Words) % N]
        BY DEF Unread
    <3>2. PICK m \in 0 .. Length(headAt, tail) - 1 : m = j - 1
      <4>1. Length(headAt, tail) \in Int
          BY Positions DEF QueueInv, QueueTypes, BufferConstants
      <4> QED BY <3>1, <4>1
    <3>3. tail + j - 1 = tail + m BY <3>1, <3>2 DEF QueueInv, QueueTypes
    <3> QED BY <3>1, <3>2, <3>3 DEF QueueInv, UnreadHeld, After, BufferConstants
  <2>2. held # NotHeld => slots[held] = IF bpcw = "filled" THEN writes - 1 ELSE writes
      BY DEF BufferInv, FrontIsPublished
  <2> QED BY <2>1, <2>2, RingAnswers DEF BuffersKeepContract
<1> QED BY <1>1, QueueInvHolds, BufferInvHolds, PTL

-----------------------------------------------------------------------------
(* The unified wait *)

\* The lines' names, and what can lie on a line.
Routes == Contexts \union {NoContext}
Events == {Msg(e, i) : e \in Emitters, i \in Nat} \union {HwEdge(i) : i \in Nat} \union {OsSignal, Tick}

\* Event d lies on one of the lines, and the places where it does.
Has(L, d) == \E x \in Routes : \E i \in 1 .. Len(L[x]) : L[x][i] = d
Spots(L, d) == {p \in UNION {{x} \X DOMAIN L[x] : x \in DOMAIN L} : L[p[1]][p[2]] = d}

\* Messages and edges, which are told apart by their numbers.
Numbered(d) == d.tag \in {"ChannelMsg", "HwEdge"}

\* No numbered event lies in two places, and those of a source are in order on
\* every line.
Once(L) == \A x, y \in Routes : \A i \in 1 .. Len(L[x]), j \in 1 .. Len(L[y]) :
              L[x][i] = L[y][j] /\ Numbered(L[x][i]) => x = y /\ i = j
InOrder(L) == \A x \in Routes : \A i, j \in 1 .. Len(L[x]) :
                (i < j /\ SameSource(L[x][i], L[x][j])) => L[x][i].no < L[x][j].no

\* The message i of e has been sent and is not in its emitter's hand.
Sent(e, i) == i \in 1 .. emits[e] /\ ~(i = emits[e] /\ target[e] # NoContext)

\* The inductive invariant of the unified wait, in named parts.
UwaitTypes ==
    /\ subscriber \in Routes /\ pending \in Seq(Events)
    /\ inbox \in [Contexts -> Seq(Events)] /\ got \in [Contexts -> Seq(Events)]
    /\ target \in [Emitters -> Routes] /\ emits \in [Emitters -> Nat]
    /\ pipe \in Nat /\ sigRoute \in Routes /\ sigs \in Nat /\ reader \in Routes /\ seq \in Nat
    /\ pipe > 0 => sigRoute # NoContext
    /\ \A e \in Emitters : target[e] # NoContext => emits[e] > 0

\* Messages wait in the route until the first subscription and never after it;
\* before it no context has one, and no emitter has one to push.
RouteFirst ==
    /\ \A i \in 1 .. Len(pending) : pending[i].tag = "ChannelMsg"
    /\ subscriber # NoContext => pending = <<>>
    /\ subscriber = NoContext =>
        /\ \A e \in Emitters : target[e] = NoContext
        /\ \A x \in Contexts : \A i \in 1 .. Len(Lines[x]) : Lines[x][i].tag # "ChannelMsg"

\* The messages and the edges on the lines are those that were sent.
SentIsThere ==
    /\ \A e \in Emitters, i \in Nat : Has(Lines, Msg(e, i)) <=> Sent(e, i)
    /\ \A i \in Nat : Has(Lines, HwEdge(i)) <=> i \in 1 .. seq

SignalsCounted == IsFiniteSet(Places(OsSignal)) /\ Cardinality(Places(OsSignal)) + pipe = sigs

UwaitInv == UwaitTypes /\ RouteFirst /\ SentIsThere /\ Once(Lines) /\ InOrder(Lines) /\ SignalsCounted

-----------------------------------------------------------------------------
(* Events and lines *)

LineSet == [Routes -> Seq(Events)]

\* What the kinds of events are, and that messages differ by emitter and number.
LEMMA EventKinds ==
    ASSUME NEW d \in Events
    PROVE  /\ Numbered(d) => d.no \in Nat
           /\ d.tag = "ChannelMsg" => \E e \in Emitters, i \in Nat : d = Msg(e, i)
           /\ d.tag = "HwEdge" => \E i \in Nat : d = HwEdge(i)
BY DEF Events, Numbered, Msg, HwEdge, OsSignal, Tick

\* Signals and ticks are events.
LEMMA PlainEvents == OsSignal \in Events /\ Tick \in Events
BY DEF Events

\* The events of every kind.
LEMMA EventTypes ==
    ASSUME NEW e \in Emitters, NEW i \in Nat
    PROVE  /\ Msg(e, i) \in Events /\ HwEdge(i) \in Events /\ OsSignal \in Events /\ Tick \in Events
BY DEF Events

\* Line x has got event d at its end.
Grown(L, M, x, d) ==
    /\ Len(M[x]) = Len(L[x]) + 1
    /\ \A i \in 1 .. Len(L[x]) : M[x][i] = L[x][i]
    /\ M[x][Len(L[x]) + 1] = d
    /\ \A y \in Routes \ {x} : M[y] = L[y]

\* Line NoContext has been moved to the end of line x.
Moved(L, M, x) ==
    /\ Len(M[x]) = Len(L[x]) + Len(L[NoContext])
    /\ \A i \in 1 .. Len(L[x]) : M[x][i] = L[x][i]
    /\ \A i \in 1 .. Len(L[NoContext]) : M[x][Len(L[x]) + i] = L[NoContext][i]
    /\ Len(M[NoContext]) = 0
    /\ \A y \in Routes \ {x, NoContext} : M[y] = L[y]

\* A line's length is a number.
LEMMA LineLength ==
    ASSUME NEW L \in LineSet, NEW x \in Routes
    PROVE  Len(L[x]) \in Nat /\ DOMAIN L[x] = 1 .. Len(L[x]) /\ \A i \in 1 .. Len(L[x]) : L[x][i] \in Events
<1>1. L[x] \in Seq(Events)
    BY DEF LineSet
<1>. QED
    BY <1>1

\* An event at the end of a line is one event more.
LEMMA GrownHas ==
    ASSUME NEW L \in LineSet, NEW M \in LineSet, NEW x \in Routes, NEW d \in Events, Grown(L, M, x, d),
           NEW c
    PROVE  Has(M, c) <=> Has(L, c) \/ c = d
<1>1. \A y \in Routes : Len(L[y]) \in Nat
    BY LineLength
<1>2. ASSUME Has(M, c) PROVE Has(L, c) \/ c = d
  <2>1. PICK y \in Routes : \E i \in 1 .. Len(M[y]) : M[y][i] = c
    BY <1>2 DEF Has
  <2>2. PICK i \in 1 .. Len(M[y]) : M[y][i] = c
    BY <2>1
  <2>3. CASE y # x
    BY <2>2, <2>3 DEF Grown, Has
  <2>4. CASE y = x
    BY <1>1, <2>2, <2>4 DEF Grown, Has
  <2>. QED
    BY <2>3, <2>4
<1>3. ASSUME Has(L, c) PROVE Has(M, c)
  <2>1. PICK y \in Routes : \E i \in 1 .. Len(L[y]) : L[y][i] = c
    BY <1>3 DEF Has
  <2>2. PICK i \in 1 .. Len(L[y]) : L[y][i] = c
    BY <2>1
  <2>3. i \in 1 .. Len(M[y]) /\ M[y][i] = c
    BY <1>1, <2>2 DEF Grown
  <2>. QED
    BY <2>3 DEF Has
<1>4. ASSUME c = d PROVE Has(M, c)
  <2>1. Len(L[x]) + 1 \in 1 .. Len(M[x])
    BY <1>1 DEF Grown
  <2>. QED
    BY <1>4, <2>1 DEF Grown, Has
<1>. QED
    BY <1>2, <1>3, <1>4

\* A new event leaves every event in one place.
LEMMA GrownOnce ==
    ASSUME NEW L \in LineSet, NEW M \in LineSet, NEW x \in Routes, NEW d \in Events, Grown(L, M, x, d),
           Once(L), Numbered(d) => ~Has(L, d)
    PROVE  Once(M)
<1>1. \A y \in Routes : Len(L[y]) \in Nat
    BY LineLength
<1>. SUFFICES ASSUME NEW y \in Routes, NEW z \in Routes, NEW i \in 1 .. Len(M[y]), NEW j \in 1 .. Len(M[z]),
                     M[y][i] = M[z][j], Numbered(M[y][i])
              PROVE  y = z /\ i = j
    BY DEF Once
<1>2. (i \in 1 .. Len(L[y]) /\ M[y][i] = L[y][i]) \/ (y = x /\ i = Len(L[x]) + 1 /\ M[y][i] = d)
  <2>1. CASE y # x
    BY <2>1 DEF Grown
  <2>2. CASE y = x
    BY <1>1, <2>2 DEF Grown
  <2>. QED
    BY <2>1, <2>2
<1>3. (j \in 1 .. Len(L[z]) /\ M[z][j] = L[z][j]) \/ (z = x /\ j = Len(L[x]) + 1 /\ M[z][j] = d)
  <2>1. CASE z # x
    BY <2>1 DEF Grown
  <2>2. CASE z = x
    BY <1>1, <2>2 DEF Grown
  <2>. QED
    BY <2>1, <2>2
<1>4. CASE i \in 1 .. Len(L[y]) /\ M[y][i] = L[y][i] /\ j \in 1 .. Len(L[z]) /\ M[z][j] = L[z][j]
  <2>1. L[y][i] = L[z][j] /\ Numbered(L[y][i])
    BY <1>4 DEF Numbered
  <2>. QED
    BY <1>4, <2>1 DEF Once
<1>5. CASE i \in 1 .. Len(L[y]) /\ M[y][i] = L[y][i] /\ M[z][j] = d
    BY <1>5 DEF Has
<1>6. CASE M[y][i] = d /\ j \in 1 .. Len(L[z]) /\ M[z][j] = L[z][j]
    BY <1>6 DEF Has
<1>. QED
    BY <1>2, <1>3, <1>4, <1>5, <1>6

\* A line stays in order when the event is the last of its source.
LEMMA GrownOrder ==
    ASSUME NEW L \in LineSet, NEW M \in LineSet, NEW x \in Routes, NEW d \in Events, Grown(L, M, x, d),
           InOrder(L), \A i \in 1 .. Len(L[x]) : SameSource(L[x][i], d) => L[x][i].no < d.no
    PROVE  InOrder(M)
<1>1. \A y \in Routes : Len(L[y]) \in Nat
    BY LineLength
<1>. SUFFICES ASSUME NEW y \in Routes, NEW i \in 1 .. Len(M[y]), NEW j \in 1 .. Len(M[y]), i < j,
                     SameSource(M[y][i], M[y][j])
              PROVE  M[y][i].no < M[y][j].no
    BY DEF InOrder
<1>2. i \in 1 .. Len(L[y]) /\ M[y][i] = L[y][i]
    BY <1>1 DEF Grown
<1>3. (j \in 1 .. Len(L[y]) /\ M[y][j] = L[y][j]) \/ (y = x /\ M[y][j] = d)
    BY <1>1 DEF Grown
<1>4. CASE j \in 1 .. Len(L[y]) /\ M[y][j] = L[y][j]
    BY <1>2, <1>4 DEF InOrder
<1>5. CASE y = x /\ M[y][j] = d
    BY <1>2, <1>5
<1>. QED
    BY <1>3, <1>4, <1>5

\* The places of an event, one by one.
LEMMA SpotsAre ==
    ASSUME NEW L \in LineSet, NEW d, NEW p
    PROVE  p \in Spots(L, d) <=> \E x \in Routes : \E i \in 1 .. Len(L[x]) : p = <<x, i>> /\ L[x][i] = d
<1>1. DOMAIN L = Routes
    BY DEF LineSet
<1>2. \A x \in Routes : DOMAIN L[x] = 1 .. Len(L[x])
    BY LineLength
<1>. QED
    BY <1>1, <1>2 DEF Spots

\* The new event has one place more.
LEMMA GrownSpots ==
    ASSUME NEW L \in LineSet, NEW M \in LineSet, NEW x \in Routes, NEW d \in Events, Grown(L, M, x, d)
    PROVE  /\ Spots(M, d) = Spots(L, d) \union {<<x, Len(L[x]) + 1>>}
           /\ <<x, Len(L[x]) + 1>> \notin Spots(L, d)
<1>1. \A y \in Routes : Len(L[y]) \in Nat
    BY LineLength
<1>2. ASSUME NEW p PROVE p \in Spots(M, d) <=> p \in Spots(L, d) \/ p = <<x, Len(L[x]) + 1>>
  <2>1. ASSUME NEW y \in Routes, NEW i \in 1 .. Len(M[y]), p = <<y, i>>, M[y][i] = d
        PROVE  p \in Spots(L, d) \/ p = <<x, Len(L[x]) + 1>>
    <3>1. (i \in 1 .. Len(L[y]) /\ L[y][i] = d) \/ p = <<x, Len(L[x]) + 1>>
        BY <1>1, <2>1 DEF Grown
    <3>. QED
        BY <2>1, <3>1, SpotsAre
  <2>2. ASSUME NEW y \in Routes, NEW i \in 1 .. Len(L[y]), p = <<y, i>>, L[y][i] = d
        PROVE  p \in Spots(M, d)
    <3>1. i \in 1 .. Len(M[y]) /\ M[y][i] = d
        BY <1>1, <2>2 DEF Grown
    <3>. QED
        BY <2>2, <3>1, SpotsAre
  <2>3. <<x, Len(L[x]) + 1>> \in Spots(M, d)
    <3>1. Len(L[x]) + 1 \in 1 .. Len(M[x]) /\ M[x][Len(L[x]) + 1] = d
        BY <1>1 DEF Grown
    <3>. QED
        BY <3>1, SpotsAre
  <2>. QED
    BY <2>1, <2>2, <2>3, SpotsAre
<1>3. <<x, Len(L[x]) + 1>> \notin Spots(L, d)
  <2>1. SUFFICES ASSUME NEW y \in Routes, NEW i \in 1 .. Len(L[y]), <<x, Len(L[x]) + 1>> = <<y, i>>
                 PROVE  FALSE
    BY SpotsAre
  <2>. QED
    BY <1>1, <2>1
<1>. QED
    BY <1>2, <1>3

\* The other events have the places they had.
LEMMA GrownOthers ==
    ASSUME NEW L \in LineSet, NEW M \in LineSet, NEW x \in Routes, NEW d \in Events, Grown(L, M, x, d),
           NEW c, c # d
    PROVE  Spots(M, c) = Spots(L, c)
<1>1. \A y \in Routes : Len(L[y]) \in Nat
    BY LineLength
<1>2. ASSUME NEW y \in Routes, NEW i
      PROVE  (i \in 1 .. Len(M[y]) /\ M[y][i] = c) <=> (i \in 1 .. Len(L[y]) /\ L[y][i] = c)
    BY <1>1 DEF Grown
<1>3. ASSUME NEW p PROVE p \in Spots(M, c) <=> p \in Spots(L, c)
    BY <1>2, SpotsAre
<1>. QED
    BY <1>3

-----------------------------------------------------------------------------
(* The route's messages move to the first subscriber *)

\* The k-th place of line w was there before the move; or it is one of those moved.
Stayed(L, M, w, k) == k \in 1 .. Len(L[w]) /\ M[w][k] = L[w][k] /\ w # NoContext
Came(L, M, x, w, k) == w = x /\ \E j \in 1 .. Len(L[NoContext]) :
                                  k = Len(L[x]) + j /\ M[w][k] = L[NoContext][j]

\* Every place after the move is a place before it.
LEMMA MovedFrom ==
    ASSUME NEW L \in LineSet, NEW M \in LineSet, NEW x \in Contexts, Moved(L, M, x),
           NEW y \in Routes, NEW i \in 1 .. Len(M[y])
    PROVE  Stayed(L, M, y, i) \/ Came(L, M, x, y, i)
<1>1. x \in Routes /\ x # NoContext /\ NoContext \in Routes
    BY UwaitAssumption DEF Routes
<1>2. PICK n \in Nat : n = Len(L[x])
    BY <1>1, LineLength
<1>3. PICK m \in Nat : m = Len(L[NoContext])
    BY <1>1, LineLength
<1>4. CASE y = NoContext
  <2>1. i \in 1 .. 0
    BY <1>4 DEF Moved
  <2>. QED
    BY <2>1
<1>5. CASE y # NoContext /\ y # x
  <2>1. M[y] = L[y]
    BY <1>5 DEF Moved
  <2>. QED
    BY <1>5, <2>1 DEF Stayed
<1>6. CASE y = x
  <2>1. i \in 1 .. n + m
    BY <1>2, <1>3, <1>6 DEF Moved
  <2>2. CASE i \in 1 .. n
    <3>1. M[x][i] = L[x][i]
        BY <1>2, <2>2 DEF Moved
    <3>. QED
        BY <1>1, <1>2, <1>6, <2>2, <3>1 DEF Stayed
  <2>3. CASE i - n \in 1 .. m
    <3>1. M[x][n + (i - n)] = L[NoContext][i - n]
        BY <1>2, <1>3, <2>3 DEF Moved
    <3>2. n + (i - n) = i
        BY <2>1
    <3>. QED
        BY <1>2, <1>3, <1>6, <2>3, <3>1, <3>2 DEF Came
  <2>. QED
    BY <2>1, <2>2, <2>3
<1>. QED
    BY <1>4, <1>5, <1>6

\* A place before the move, outside the route, is a place after it.
LEMMA StaysThere ==
    ASSUME NEW L \in LineSet, NEW M \in LineSet, NEW x \in Contexts, Moved(L, M, x),
           NEW y \in Routes, y # NoContext, NEW i \in 1 .. Len(L[y])
    PROVE  i \in 1 .. Len(M[y]) /\ M[y][i] = L[y][i]
<1>1. x \in Routes /\ x # NoContext /\ NoContext \in Routes
    BY UwaitAssumption DEF Routes
<1>2. PICK n \in Nat : n = Len(L[x])
    BY <1>1, LineLength
<1>3. PICK m \in Nat : m = Len(L[NoContext])
    BY <1>1, LineLength
<1>4. CASE y # x
    BY <1>4 DEF Moved
<1>5. CASE y = x
  <2>1. i \in 1 .. n /\ Len(M[x]) = n + m
    BY <1>2, <1>3, <1>5 DEF Moved
  <2>2. M[x][i] = L[x][i]
    BY <1>2, <2>1 DEF Moved
  <2>3. i \in 1 .. n + m
    BY <2>1
  <2>. QED
    BY <1>5, <2>1, <2>2, <2>3
<1>. QED
    BY <1>4, <1>5

\* A place of the route is one of the subscriber's after the move.
LEMMA ComesThere ==
    ASSUME NEW L \in LineSet, NEW M \in LineSet, NEW x \in Contexts, Moved(L, M, x),
           NEW i \in 1 .. Len(L[NoContext])
    PROVE  \E k \in 1 .. Len(M[x]) : M[x][k] = L[NoContext][i]
<1>1. x \in Routes /\ x # NoContext /\ NoContext \in Routes
    BY UwaitAssumption DEF Routes
<1>2. PICK n \in Nat : n = Len(L[x])
    BY <1>1, LineLength
<1>3. PICK m \in Nat : m = Len(L[NoContext])
    BY <1>1, LineLength
<1>4. i \in 1 .. m /\ Len(M[x]) = n + m
    BY <1>2, <1>3 DEF Moved
<1>5. M[x][n + i] = L[NoContext][i]
    BY <1>2 DEF Moved
<1>6. n + i \in 1 .. n + m
    BY <1>4
<1>. QED
    BY <1>4, <1>5, <1>6

\* The move neither loses an event nor makes one.
LEMMA MovedHas ==
    ASSUME NEW L \in LineSet, NEW M \in LineSet, NEW x \in Contexts, Moved(L, M, x), NEW c
    PROVE  Has(M, c) <=> Has(L, c)
<1>1. x \in Routes /\ NoContext \in Routes
    BY DEF Routes
<1>2. ASSUME Has(M, c) PROVE Has(L, c)
  <2>1. PICK y \in Routes : \E i \in 1 .. Len(M[y]) : M[y][i] = c
    BY <1>2 DEF Has
  <2>2. PICK i \in 1 .. Len(M[y]) : M[y][i] = c
    BY <2>1
  <2>3. Stayed(L, M, y, i) \/ Came(L, M, x, y, i)
    BY MovedFrom
  <2>4. CASE Stayed(L, M, y, i)
    BY <2>2, <2>4 DEF Has, Stayed
  <2>5. CASE Came(L, M, x, y, i)
    BY <1>1, <2>2, <2>5 DEF Has, Came
  <2>. QED
    BY <2>3, <2>4, <2>5
<1>3. ASSUME Has(L, c) PROVE Has(M, c)
  <2>1. PICK y \in Routes : \E i \in 1 .. Len(L[y]) : L[y][i] = c
    BY <1>3 DEF Has
  <2>2. PICK i \in 1 .. Len(L[y]) : L[y][i] = c
    BY <2>1
  <2>. QED
    BY <1>1, <2>2, StaysThere, ComesThere DEF Has
<1>. QED
    BY <1>2, <1>3

\* The move leaves every event in one place.
LEMMA MovedOnce ==
    ASSUME NEW L \in LineSet, NEW M \in LineSet, NEW x \in Contexts, Moved(L, M, x), Once(L)
    PROVE  Once(M)
<1>1. \A z \in Routes : Len(L[z]) \in Nat
    BY LineLength
<1>2. x \in Routes /\ x # NoContext /\ NoContext \in Routes
    BY UwaitAssumption DEF Routes
<1>. SUFFICES ASSUME NEW y \in Routes, NEW z \in Routes, NEW i \in 1 .. Len(M[y]), NEW j \in 1 .. Len(M[z]),
                     M[y][i] = M[z][j], Numbered(M[y][i])
              PROVE  y = z /\ i = j
    BY DEF Once
<1>3. Stayed(L, M, y, i) \/ Came(L, M, x, y, i)
    BY MovedFrom
<1>4. Stayed(L, M, z, j) \/ Came(L, M, x, z, j)
    BY MovedFrom
<1>5. CASE Stayed(L, M, y, i) /\ Stayed(L, M, z, j)
  <2>1. L[y][i] = L[z][j] /\ Numbered(L[y][i])
    BY <1>5 DEF Numbered, Stayed
  <2>. QED
    BY <1>5, <2>1 DEF Once, Stayed
<1>6. CASE Stayed(L, M, y, i) /\ Came(L, M, x, z, j)
  <2>1. PICK k \in 1 .. Len(L[NoContext]) : M[z][j] = L[NoContext][k]
    BY <1>6 DEF Came
  <2>2. L[y][i] = L[NoContext][k] /\ Numbered(L[y][i])
    BY <1>6, <2>1 DEF Numbered, Stayed
  <2>. QED
    BY <1>2, <1>6, <2>2 DEF Once, Stayed
<1>7. CASE Came(L, M, x, y, i) /\ Stayed(L, M, z, j)
  <2>1. PICK k \in 1 .. Len(L[NoContext]) : M[y][i] = L[NoContext][k]
    BY <1>7 DEF Came
  <2>2. L[z][j] = L[NoContext][k] /\ Numbered(L[z][j])
    BY <1>7, <2>1 DEF Numbered, Stayed
  <2>. QED
    BY <1>2, <1>7, <2>2 DEF Once, Stayed
<1>8. CASE Came(L, M, x, y, i) /\ Came(L, M, x, z, j)
  <2>1. PICK k \in 1 .. Len(L[NoContext]) : i = Len(L[x]) + k /\ M[y][i] = L[NoContext][k]
    BY <1>8 DEF Came
  <2>2. PICK l \in 1 .. Len(L[NoContext]) : j = Len(L[x]) + l /\ M[z][j] = L[NoContext][l]
    BY <1>8 DEF Came
  <2>3. L[NoContext][k] = L[NoContext][l] /\ Numbered(L[NoContext][k])
    BY <2>1, <2>2 DEF Numbered
  <2>4. k = l
    BY <1>2, <2>3 DEF Once
  <2>. QED
    BY <1>8, <2>1, <2>2, <2>4 DEF Came
<1>. QED
    BY <1>3, <1>4, <1>5, <1>6, <1>7, <1>8

\* Order is kept when the line has none of the sources of what is moved to it.
LEMMA MovedOrder ==
    ASSUME NEW L \in LineSet, NEW M \in LineSet, NEW x \in Contexts, Moved(L, M, x), InOrder(L),
           \A i \in 1 .. Len(L[x]), j \in 1 .. Len(L[NoContext]) : ~SameSource(L[x][i], L[NoContext][j])
    PROVE  InOrder(M)
<1>1. \A z \in Routes : Len(L[z]) \in Nat
    BY LineLength
<1>2. x \in Routes /\ x # NoContext /\ NoContext \in Routes
    BY UwaitAssumption DEF Routes
<1>. SUFFICES ASSUME NEW y \in Routes, NEW i \in 1 .. Len(M[y]), NEW j \in 1 .. Len(M[y]), i < j,
                     SameSource(M[y][i], M[y][j])
              PROVE  M[y][i].no < M[y][j].no
    BY DEF InOrder
<1>3. Stayed(L, M, y, i) \/ Came(L, M, x, y, i)
    BY MovedFrom
<1>4. Stayed(L, M, y, j) \/ Came(L, M, x, y, j)
    BY MovedFrom
<1>5. CASE Stayed(L, M, y, i) /\ Stayed(L, M, y, j)
    BY <1>5 DEF InOrder, Stayed
<1>6. CASE Stayed(L, M, y, i) /\ Came(L, M, x, y, j)
    BY <1>6 DEF Stayed, Came
<1>7. CASE Came(L, M, x, y, i) /\ Stayed(L, M, y, j)
  <2>1. PICK n \in Nat : n = Len(L[x])
    BY <1>1, <1>2
  <2>2. PICK k \in 1 .. Len(L[NoContext]) : i = n + k
    BY <1>7, <2>1 DEF Came
  <2>3. j \in 1 .. n
    BY <1>7, <2>1 DEF Stayed, Came
  <2>. QED
    BY <2>2, <2>3
<1>8. CASE Came(L, M, x, y, i) /\ Came(L, M, x, y, j)
  <2>1. PICK n \in Nat : n = Len(L[x])
    BY <1>1, <1>2
  <2>2. PICK k \in 1 .. Len(L[NoContext]) : i = n + k /\ M[y][i] = L[NoContext][k]
    BY <1>8, <2>1 DEF Came
  <2>3. PICK l \in 1 .. Len(L[NoContext]) : j = n + l /\ M[y][j] = L[NoContext][l]
    BY <1>8, <2>1 DEF Came
  <2>4. k < l
    BY <2>1, <2>2, <2>3
  <2>. QED
    BY <1>2, <2>2, <2>3, <2>4 DEF InOrder
<1>. QED
    BY <1>3, <1>4, <1>5, <1>6, <1>7, <1>8

\* An event that does not wait in the route keeps its places.
LEMMA MovedOthers ==
    ASSUME NEW L \in LineSet, NEW M \in LineSet, NEW x \in Contexts, Moved(L, M, x), NEW c,
           \A i \in 1 .. Len(L[NoContext]) : L[NoContext][i] # c
    PROVE  Spots(M, c) = Spots(L, c)
<1>1. ASSUME NEW y \in Routes, NEW i \in 1 .. Len(M[y]), M[y][i] = c
      PROVE  i \in 1 .. Len(L[y]) /\ L[y][i] = c
  <2>1. Stayed(L, M, y, i) \/ Came(L, M, x, y, i)
    BY MovedFrom
  <2>2. ~Came(L, M, x, y, i)
    BY <1>1 DEF Came
  <2>. QED
    BY <1>1, <2>1, <2>2 DEF Stayed
<1>2. \A y \in Routes : \A i \in 1 .. Len(L[y]) : L[y][i] = c => i \in 1 .. Len(M[y]) /\ M[y][i] = c
    BY StaysThere
<1>3. ASSUME NEW p PROVE p \in Spots(M, c) <=> p \in Spots(L, c)
    BY <1>1, <1>2, SpotsAre
<1>. QED
    BY <1>3

-----------------------------------------------------------------------------
(* How the actions change the lines *)

\* The lines are sequences of events.
LinesGood ==
    /\ Lines \in LineSet /\ Lines[NoContext] = pending
    /\ \A x \in Contexts : x \in Routes /\ x # NoContext /\ Lines[x] = got[x] \o inbox[x]

\* Whatever the state variables are, so are the lines.
LEMMA LinesAre == UwaitTypes => LinesGood
<1>. SUFFICES ASSUME UwaitTypes PROVE LinesGood
    OBVIOUS
<1>1. \A x \in Contexts : x \in Routes /\ x # NoContext
    BY UwaitAssumption DEF Routes
<1>2. ASSUME NEW x \in Contexts PROVE got[x] \o inbox[x] \in Seq(Events)
    BY DEF UwaitTypes
<1>. QED
    BY <1>1, <1>2 DEF Lines, LineSet, Routes, UwaitTypes, LinesGood

\* The same of the state a step leads to.
LEMMA LinesAreNext == UwaitTypes' => LinesGood'
BY LinesAre, PTL

\* Lines are told apart by their contents.
LEMMA SameLines ==
    ASSUME UwaitTypes, UwaitTypes', pending' = pending,
           \A x \in Contexts : got'[x] \o inbox'[x] = got[x] \o inbox[x]
    PROVE  Lines' = Lines
BY DEF Lines

\* Sequences: what a step does to a context's line.
LEMMA AppendInbox ==
    ASSUME NEW g \in Seq(Events), NEW b \in Seq(Events), NEW d \in Events
    PROVE  g \o Append(b, d) = Append(g \o b, d)
<1>1. Append(b, d) \in Seq(Events) /\ g \o b \in Seq(Events)
    OBVIOUS
<1>. DEFINE s == g \o Append(b, d)
            t == Append(g \o b, d)
<1>2. s \in Seq(Events) /\ t \in Seq(Events) /\ Len(s) = Len(t)
    BY <1>1, ConcatProperties, AppendProperties
<1>3. \A i \in 1 .. Len(s) : s[i] = t[i]
    BY <1>1, ConcatProperties, AppendProperties
<1>. QED
    BY <1>2, <1>3, SeqEqual

\* The elements of a sequence put after another.
LEMMA Joined ==
    ASSUME NEW a \in Seq(Events), NEW b \in Seq(Events), NEW n \in Nat, NEW m \in Nat,
           n = Len(a), m = Len(b)
    PROVE  /\ a \o b \in Seq(Events) /\ Len(a \o b) = n + m
           /\ \A i \in 1 .. n : (a \o b)[i] = a[i]
           /\ \A i \in 1 .. m : (a \o b)[n + i] = b[i]
<1>1. a \o b \in Seq(Events) /\ Len(a \o b) = n + m
    BY ConcatProperties
<1>2. ASSUME NEW i \in 1 .. n PROVE (a \o b)[i] = a[i]
    BY ConcatProperties
<1>3. ASSUME NEW i \in 1 .. m PROVE (a \o b)[n + i] = b[i]
  <2>1. n + i \in 1 .. n + m /\ ~(n + i <= n) /\ (n + i) - n = i
    OBVIOUS
  <2>2. n + i \in 1 .. (Len(a) + Len(b)) /\ ~(n + i <= Len(a)) /\ (n + i) - Len(a) = i
    BY <2>1
  <2>. QED
    BY <2>2, ConcatProperties
<1>. QED
    BY <1>1, <1>2, <1>3

\* Handing a prefix of the inbox to the handler leaves the line as it is.
LEMMA HandPrefix ==
    ASSUME NEW g \in Seq(Events), NEW b \in Seq(Events), NEW k \in 1 .. Len(b)
    PROVE  (g \o SubSeq(b, 1, k)) \o SubSeq(b, k + 1, Len(b)) = g \o b
<1>1. PICK p \in Seq(Events) : p = SubSeq(b, 1, k)
  <2>1. SubSeq(b, 1, k) \in Seq(Events)
    OBVIOUS
  <2>. QED
    BY <2>1, Zenon
<1>2. PICK q \in Seq(Events) : q = SubSeq(b, k + 1, Len(b))
  <2>1. SubSeq(b, k + 1, Len(b)) \in Seq(Events)
    OBVIOUS
  <2>. QED
    BY <2>1, Zenon
<1>3. PICK n \in Nat : n = Len(b) /\ k \in 1 .. n
    OBVIOUS
<1>4. PICK m \in Nat : m = Len(g)
    OBVIOUS
<1>5. k \in Nat /\ n - k \in Nat /\ m + k \in Nat
    BY <1>3
<1>6. Len(p) = k /\ \A i \in 1 .. k : p[i] = b[i]
    BY <1>1
<1>7. Len(q) = n - k /\ \A i \in 1 .. n - k : q[i] = b[k + i]
    BY <1>2, <1>3
<1>8. PICK gp \in Seq(Events) : gp = g \o p
    BY ConcatProperties
<1>9. Len(gp) = m + k /\ (\A i \in 1 .. m : gp[i] = g[i]) /\ \A i \in 1 .. k : gp[m + i] = p[i]
  <2>1. m = Len(g) /\ k = Len(p)
    BY <1>4, <1>6
  <2>2. /\ Len(g \o p) = m + k
        /\ \A i \in 1 .. m : (g \o p)[i] = g[i]
        /\ \A i \in 1 .. k : (g \o p)[m + i] = p[i]
    BY <1>5, <2>1, Joined
  <2>. QED
    BY <1>8, <2>2, Zenon
<1>10. PICK s \in Seq(Events) : s = gp \o q
    BY ConcatProperties
<1>11. /\ Len(s) = (m + k) + (n - k)
       /\ \A i \in 1 .. m + k : s[i] = gp[i]
       /\ \A i \in 1 .. n - k : s[(m + k) + i] = q[i]
  <2>1. PICK h \in Nat : h = Len(gp)
    OBVIOUS
  <2>2. PICK l \in Nat : l = Len(q)
    OBVIOUS
  <2>3. /\ Len(gp \o q) = h + l
        /\ \A i \in 1 .. h : (gp \o q)[i] = gp[i]
        /\ \A i \in 1 .. l : (gp \o q)[h + i] = q[i]
    BY <2>1, <2>2, Joined
  <2>4. h = m + k /\ l = n - k
    BY <1>7, <1>9, <2>1, <2>2
  <2>. QED
    BY <1>10, <2>3, <2>4, Zenon
<1>12. PICK t \in Seq(Events) : t = g \o b
    BY ConcatProperties
<1>13. Len(t) = m + n /\ (\A i \in 1 .. m : t[i] = g[i]) /\ \A i \in 1 .. n : t[m + i] = b[i]
    BY <1>3, <1>4, <1>12, Joined
<1>14. ASSUME NEW i \in 1 .. m + n PROVE s[i] = t[i]
  <2>1. CASE i \in 1 .. m
    <3>1. i \in 1 .. m + k
        BY <1>5, <2>1
    <3>. QED
        BY <1>9, <1>11, <1>13, <2>1, <3>1
  <2>2. CASE i - m \in 1 .. k
    <3>1. PICK j \in 1 .. k : i = m + j
        BY <2>2
    <3>2. m + j \in 1 .. m + k /\ j \in 1 .. n
        BY <1>3, <1>5
    <3>3. s[m + j] = gp[m + j] /\ gp[m + j] = p[j] /\ p[j] = b[j] /\ t[m + j] = b[j]
        BY <1>6, <1>9, <1>11, <1>13, <3>2
    <3>. QED
        BY <3>1, <3>3
  <2>3. CASE i - (m + k) \in 1 .. n - k
    <3>1. PICK j \in 1 .. n - k : i = (m + k) + j
        BY <1>5, <2>3
    <3>2. k + j \in 1 .. n /\ m + (k + j) = (m + k) + j
        BY <1>5
    <3>3. s[(m + k) + j] = q[j] /\ q[j] = b[k + j] /\ t[m + (k + j)] = b[k + j]
        BY <1>7, <1>11, <1>13, <3>2
    <3>. QED
        BY <3>1, <3>2, <3>3
  <2>4. i <= m \/ (m < i /\ i <= m + k) \/ m + k < i
    BY <1>5
  <2>5. m < i /\ i <= m + k => i - m \in 1 .. k
    BY <1>5
  <2>6. m + k < i => i - (m + k) \in 1 .. n - k
    BY <1>5
  <2>. QED
    BY <2>1, <2>2, <2>3, <2>4, <2>5, <2>6
<1>15. Len(s) = m + n
    BY <1>5, <1>11
<1>16. s = t
    BY <1>13, <1>14, <1>15, SeqEqual
<1>. QED
    BY <1>1, <1>2, <1>8, <1>10, <1>12, <1>16

\* A line that gets an event at the end of its inbox.
LEMMA InboxGrows ==
    ASSUME UwaitTypes, UwaitTypes', NEW x \in Contexts, NEW d \in Events,
           pending' = pending, got' = got, inbox' = [inbox EXCEPT ![x] = Append(@, d)]
    PROVE  Grown(Lines, Lines', x, d)
<1>1. got[x] \in Seq(Events) /\ inbox[x] \in Seq(Events) /\ inbox'[x] = Append(inbox[x], d)
    BY DEF UwaitTypes
<1>2. Lines[x] = got[x] \o inbox[x] /\ Lines'[x] = got[x] \o inbox'[x] /\ Lines[x] \in Seq(Events)
    BY LinesAre, LinesAreNext DEF LineSet, LinesGood
<1>3. Lines'[x] = Append(Lines[x], d)
  <2>1. Lines'[x] = got[x] \o Append(inbox[x], d)
    BY <1>1, <1>2
  <2>2. got[x] \o Append(inbox[x], d) = Append(got[x] \o inbox[x], d)
    BY <1>1, AppendInbox
  <2>. QED
    BY <1>2, <2>1, <2>2
<1>4. ASSUME NEW y \in Routes \ {x} PROVE Lines'[y] = Lines[y]
    BY <1>4 DEF Lines, Routes, UwaitTypes
<1>5. /\ Len(Lines'[x]) = Len(Lines[x]) + 1 /\ Lines'[x][Len(Lines[x]) + 1] = d
      /\ \A i \in 1 .. Len(Lines[x]) : Lines'[x][i] = Lines[x][i]
  <2>1. PICK l \in Seq(Events) : l = Lines[x]
    BY <1>2
  <2>2. PICK n \in Nat : n = Len(l)
    OBVIOUS
  <2>3. Lines'[x] = Append(l, d)
    BY <1>3, <2>1
  <2>4. Len(Append(l, d)) = n + 1 /\ Append(l, d)[n + 1] = d /\ \A i \in 1 .. n : Append(l, d)[i] = l[i]
    BY <2>2, AppendProperties
  <2>. QED
    BY <2>1, <2>2, <2>3, <2>4
<1>. QED
    BY <1>4, <1>5 DEF Grown

\* The route's line gets a message while nobody has subscribed.
LEMMA PendingGrows ==
    ASSUME UwaitTypes, UwaitTypes', NEW d \in Events,
           pending' = Append(pending, d), got' = got, inbox' = inbox
    PROVE  Grown(Lines, Lines', NoContext, d)
<1>1. Lines[NoContext] = pending /\ Lines'[NoContext] = pending' /\ pending \in Seq(Events)
    BY LinesAre, LinesAreNext DEF UwaitTypes, LinesGood
<1>2. ASSUME NEW y \in Routes \ {NoContext} PROVE Lines'[y] = Lines[y]
    BY DEF Lines, Routes
<1>. QED
    BY <1>1, <1>2, AppendProperties DEF Grown

\* A tick is handed to a handler while the inbox is empty.
LEMMA GotGrows ==
    ASSUME UwaitTypes, UwaitTypes', NEW x \in Contexts, NEW d \in Events, inbox[x] = <<>>,
           pending' = pending, inbox' = inbox, got' = [got EXCEPT ![x] = @ \o <<d>>]
    PROVE  Grown(Lines, Lines', x, d)
<1>1. got[x] \in Seq(Events) /\ got'[x] = got[x] \o <<d>> /\ got'[x] \in Seq(Events)
    BY DEF UwaitTypes
<1>2. Lines[x] = got[x] \o <<>> /\ Lines'[x] = got'[x] \o <<>>
    BY LinesAre, LinesAreNext DEF LinesGood
<1>3. Lines[x] = got[x] /\ Lines'[x] = got'[x]
    BY <1>1, <1>2, ConcatEmptySeq
<1>4. got'[x] = Append(got[x], d)
    BY <1>1
<1>5. ASSUME NEW y \in Routes \ {x} PROVE Lines'[y] = Lines[y]
    BY <1>5 DEF Lines, Routes, UwaitTypes
<1>. QED
    BY <1>1, <1>3, <1>4, <1>5, AppendProperties DEF Grown

\* The route's messages are moved to the end of the inbox.
LEMMA PendingMoves ==
    ASSUME UwaitTypes, UwaitTypes', NEW x \in Contexts,
           pending' = <<>>, got' = got, inbox' = [inbox EXCEPT ![x] = @ \o pending]
    PROVE  Moved(Lines, Lines', x)
<1>1. PICK g \in Seq(Events) : g = got[x]
    BY DEF UwaitTypes
<1>2. PICK b \in Seq(Events) : b = inbox[x]
    BY DEF UwaitTypes
<1>3. PICK p \in Seq(Events) : p = pending
    BY DEF UwaitTypes
<1>4. PICK l \in Seq(Events) : l = g \o b
    BY ConcatProperties
<1>5. PICK c \in Seq(Events) : c = b \o p
    BY ConcatProperties
<1>6. PICK m \in Seq(Events) : m = g \o c
    BY ConcatProperties
<1>7. inbox'[x] = c
    BY <1>2, <1>3, <1>5 DEF UwaitTypes
<1>8. Lines[x] = l /\ Lines'[x] = m /\ Lines[NoContext] = p /\ Lines'[NoContext] = <<>>
    BY <1>1, <1>2, <1>3, <1>4, <1>6, <1>7, LinesAre, LinesAreNext DEF LinesGood
<1>9. PICK ng \in Nat : ng = Len(g)
    OBVIOUS
<1>10. PICK nb \in Nat : nb = Len(b)
    OBVIOUS
<1>11. PICK np \in Nat : np = Len(p)
    OBVIOUS
<1>12. /\ Len(l) = ng + nb
       /\ \A i \in 1 .. ng : l[i] = g[i]
       /\ \A i \in 1 .. nb : l[ng + i] = b[i]
    BY <1>4, <1>9, <1>10, Joined
<1>13. /\ Len(c) = nb + np
       /\ \A i \in 1 .. nb : c[i] = b[i]
       /\ \A i \in 1 .. np : c[nb + i] = p[i]
    BY <1>5, <1>10, <1>11, Joined
<1>14. /\ Len(m) = ng + (nb + np)
       /\ \A i \in 1 .. ng : m[i] = g[i]
       /\ \A i \in 1 .. nb + np : m[ng + i] = c[i]
  <2>1. PICK h \in Nat : h = Len(c)
    OBVIOUS
  <2>2. /\ Len(g \o c) = ng + h
        /\ \A i \in 1 .. ng : (g \o c)[i] = g[i]
        /\ \A i \in 1 .. h : (g \o c)[ng + i] = c[i]
    BY <1>9, <2>1, Joined
  <2>3. h = nb + np
    BY <1>13, <2>1
  <2>. QED
    BY <1>6, <2>2, <2>3, Zenon
<1>15. ASSUME NEW i \in 1 .. ng + nb PROVE m[i] = l[i]
  <2>1. CASE i \in 1 .. ng
    BY <1>12, <1>14, <2>1
  <2>2. CASE i - ng \in 1 .. nb
    <3>1. PICK j \in 1 .. nb : i = ng + j
        BY <2>2
    <3>2. j \in 1 .. nb + np
        OBVIOUS
    <3>. QED
        BY <1>12, <1>13, <1>14, <3>1, <3>2
  <2>. QED
    BY <2>1, <2>2
<1>17. ASSUME NEW i \in 1 .. np PROVE m[(ng + nb) + i] = p[i]
  <2>1. nb + i \in 1 .. nb + np /\ ng + (nb + i) = (ng + nb) + i
    OBVIOUS
  <2>. QED
    BY <1>13, <1>14, <2>1
<1>16. ASSUME NEW y \in Routes \ {x, NoContext} PROVE Lines'[y] = Lines[y]
    BY <1>16 DEF Lines, Routes, UwaitTypes
<1>18. Len(m) = Len(l) + Len(p)
    BY <1>11, <1>12, <1>14
<1>19. \A i \in 1 .. Len(l) : m[i] = l[i]
    BY <1>12, <1>15
<1>20. \A i \in 1 .. Len(p) : m[Len(l) + i] = p[i]
    BY <1>11, <1>12, <1>17
<1>21. Len(Lines'[NoContext]) = 0
    BY <1>8, EmptySeq
<1>. QED
    BY <1>8, <1>16, <1>18, <1>19, <1>20, <1>21 DEF Moved
-----------------------------------------------------------------------------
(* The parts of the invariant, step by step *)

\* The types hold at every step.
LEMMA UwaitTypesStep == UwaitInv /\ [UNext]_uvars => UwaitTypes'
<1>. SUFFICES ASSUME UwaitInv, [UNext]_uvars PROVE UwaitTypes'
    OBVIOUS
<1>. USE DEF UwaitInv, UwaitTypes
<1>1. \A x \in Contexts : x \in Routes /\ x # NoContext
    BY UwaitAssumption DEF Routes
<1>2. \A x \in Routes : x # NoContext => x \in Contexts
    BY DEF Routes
<1>3. NoContext \in Routes
    BY DEF Routes
<1>4. ASSUME NEW x \in Contexts, UwaitSubscribeChannel(x) PROVE UwaitTypes'
  <2>1. inbox[x] \o pending \in Seq(Events)
    OBVIOUS
  <2>2. inbox' \in [Contexts -> Seq(Events)]
    BY <1>4, <2>1 DEF UwaitSubscribeChannel
  <2>. QED
    BY <1>1, <1>4, <2>2 DEF UwaitSubscribeChannel, evars, sigvars, fvars
<1>5. ASSUME NEW x \in Contexts, UwaitSubscribeSignal(x) PROVE UwaitTypes'
    BY <1>1, <1>5 DEF UwaitSubscribeSignal, evars, sigvars, fvars
<1>6. ASSUME NEW x \in Contexts, UwaitSubscribeFdLine(x) PROVE UwaitTypes'
    BY <1>1, <1>6 DEF UwaitSubscribeFdLine, evars, sigvars, fvars
<1>7. ASSUME NEW x \in Contexts, Uwait(x) PROVE UwaitTypes'
  <2>1. PICK k \in 1 .. Len(inbox[x]) :
            /\ inbox' = [inbox EXCEPT ![x] = SubSeq(@, k + 1, Len(@))]
            /\ Handle(x, SubSeq(inbox[x], 1, k))
    BY <1>7 DEF Uwait
  <2>2. PICK b \in Seq(Events) : b = inbox[x]
    OBVIOUS
  <2>3. SubSeq(b, k + 1, Len(b)) \in Seq(Events) /\ SubSeq(b, 1, k) \in Seq(Events)
    BY <2>2
  <2>4. got[x] \o SubSeq(b, 1, k) \in Seq(Events)
    BY <2>3
  <2>5. inbox' \in [Contexts -> Seq(Events)]
    BY <2>1, <2>2, <2>3
  <2>6. got' \in [Contexts -> Seq(Events)]
    BY <2>1, <2>2, <2>4 DEF Handle
  <2>. QED
    BY <2>1, <2>5, <2>6 DEF Handle, evars, sigvars, fvars
<1>8. ASSUME NEW x \in Contexts, UwaitDeadline(x) PROVE UwaitTypes'
  <2>1. <<Tick>> \in Seq(Events)
    <3>1. Tick \in Events
        BY PlainEvents
    <3>. QED
        BY <3>1
  <2>2. got[x] \o <<Tick>> \in Seq(Events)
    BY <2>1
  <2>3. got' \in [Contexts -> Seq(Events)]
    BY <1>8, <2>2 DEF UwaitDeadline, Handle
  <2>. QED
    BY <1>8, <2>3 DEF UwaitDeadline, Handle, evars, sigvars, fvars
<1>9. ASSUME NEW e \in Emitters, UwaitEmit(e) PROVE UwaitTypes'
  <2>1. Msg(e, emits[e] + 1) \in Events
    BY EventTypes
  <2>2. pending' \in Seq(Events)
    BY <1>9, <2>1 DEF UwaitEmit
  <2>. QED
    BY <1>9, <2>2 DEF UwaitEmit, sigvars, fvars
<1>10. ASSUME NEW e \in Emitters, UwaitEmitPush(e) PROVE UwaitTypes'
  <2>1. Msg(e, emits[e]) \in Events /\ target[e] \in Contexts
    BY <1>2, <1>10, EventTypes DEF UwaitEmitPush
  <2>2. Append(inbox[target[e]], Msg(e, emits[e])) \in Seq(Events)
    BY <2>1
  <2>3. inbox' \in [Contexts -> Seq(Events)]
    BY <1>10, <2>1, <2>2 DEF UwaitEmitPush
  <2>. QED
    BY <1>3, <1>10, <2>3 DEF UwaitEmitPush, sigvars, fvars
<1>11. CASE OnSignal
    BY <1>11 DEF OnSignal, evars, fvars
<1>12. CASE SignalAdapter
  <2>1. sigRoute \in Contexts /\ OsSignal \in Events
    BY <1>2, <1>12 DEF SignalAdapter, Events
  <2>2. Append(inbox[sigRoute], OsSignal) \in Seq(Events)
    BY <2>1
  <2>3. inbox' \in [Contexts -> Seq(Events)]
    BY <1>12, <2>1, <2>2 DEF SignalAdapter
  <2>. QED
    BY <1>12, <2>3 DEF SignalAdapter, evars, fvars
<1>13. CASE FdRead
  <2>1. reader \in Contexts /\ HwEdge(seq + 1) \in Events
    BY <1>2, <1>13 DEF FdRead, Events
  <2>2. Append(inbox[reader], HwEdge(seq + 1)) \in Seq(Events)
    BY <2>1
  <2>3. inbox' \in [Contexts -> Seq(Events)]
    BY <1>13, <2>1, <2>2 DEF FdRead
  <2>. QED
    BY <1>3, <1>13, <2>3 DEF FdRead, evars, sigvars
<1>14. CASE UNCHANGED uvars
    BY <1>14 DEF uvars, evars, sigvars, fvars
<1>. QED
    BY <1>4, <1>5, <1>6, <1>7, <1>8, <1>9, <1>10, <1>11, <1>12, <1>13, <1>14 DEF UNext

\* Where an event of a source lies, its emitter has sent it.
LEMMA LastOfEmitter ==
    ASSUME UwaitInv, NEW e \in Emitters, NEW n \in Nat, \A i \in Nat : Sent(e, i) => i < n
    PROVE  /\ ~Has(Lines, Msg(e, n))
           /\ \A x \in Routes : \A k \in 1 .. Len(Lines[x]) :
                SameSource(Lines[x][k], Msg(e, n)) => Lines[x][k].no < Msg(e, n).no
<1>1. ~Has(Lines, Msg(e, n))
    BY DEF UwaitInv, SentIsThere
<1>. SUFFICES ASSUME NEW x \in Routes, NEW k \in 1 .. Len(Lines[x]), SameSource(Lines[x][k], Msg(e, n))
              PROVE  Lines[x][k].no < Msg(e, n).no
    BY <1>1
<1>2. Lines[x][k] \in Events
    BY LinesAre, LineLength DEF UwaitInv, LinesGood
<1>3. Lines[x][k].tag = "ChannelMsg" /\ Lines[x][k].from = e
    BY DEF SameSource, Msg
<1>4. PICK f \in Emitters, i \in Nat : Lines[x][k] = Msg(f, i)
    BY <1>2, <1>3, EventKinds
<1>5. f = e /\ Lines[x][k].no = i
    BY <1>3, <1>4 DEF Msg
<1>6. Has(Lines, Msg(e, i))
    BY <1>4, <1>5 DEF Has
<1>7. Sent(e, i)
    BY <1>6 DEF UwaitInv, SentIsThere
<1>. QED
    BY <1>5, <1>7 DEF Msg

\* The edges on the lines are those read.
LEMMA LastOfLine ==
    ASSUME UwaitInv
    PROVE  /\ ~Has(Lines, HwEdge(seq + 1))
           /\ \A x \in Routes : \A k \in 1 .. Len(Lines[x]) :
                SameSource(Lines[x][k], HwEdge(seq + 1)) => Lines[x][k].no < HwEdge(seq + 1).no
<1>. seq \in Nat
    BY DEF UwaitInv, UwaitTypes
<1>1. ~Has(Lines, HwEdge(seq + 1))
    BY DEF UwaitInv, SentIsThere
<1>. SUFFICES ASSUME NEW x \in Routes, NEW k \in 1 .. Len(Lines[x]), SameSource(Lines[x][k], HwEdge(seq + 1))
              PROVE  Lines[x][k].no < HwEdge(seq + 1).no
    BY <1>1
<1>2. Lines[x][k] \in Events
    BY LinesAre, LineLength DEF UwaitInv, LinesGood
<1>3. Lines[x][k].tag = "HwEdge"
    BY DEF SameSource, HwEdge
<1>4. PICK i \in Nat : Lines[x][k] = HwEdge(i)
    BY <1>2, <1>3, EventKinds
<1>5. Has(Lines, HwEdge(i))
    BY <1>4 DEF Has
<1>6. i \in 1 .. seq
    BY <1>5 DEF UwaitInv, SentIsThere
<1>. QED
    BY <1>4, <1>6 DEF HwEdge

\* Events of different kinds are different events.
LEMMA KindsDiffer ==
    ASSUME NEW e, NEW i, NEW f, NEW j
    PROVE  /\ Msg(e, i) = Msg(f, j) <=> e = f /\ i = j
           /\ HwEdge(i) = HwEdge(j) <=> i = j
           /\ Msg(e, i) # HwEdge(j) /\ Msg(e, i) # OsSignal /\ Msg(e, i) # Tick
           /\ HwEdge(i) # OsSignal /\ HwEdge(i) # Tick /\ OsSignal # Tick
           /\ Msg(e, i).tag = "ChannelMsg" /\ Numbered(Msg(e, i))
           /\ HwEdge(i).tag = "HwEdge" /\ Numbered(HwEdge(i))
           /\ OsSignal.tag = "OsSignal" /\ ~Numbered(OsSignal)
           /\ Tick.tag = "Tick" /\ ~Numbered(Tick)
BY DEF Msg, HwEdge, OsSignal, Tick, Numbered
\* A step that changes no line and neither the count of messages, of signals
\* nor of edges.
LEMMA LinesKept ==
    ASSUME UwaitInv, UwaitTypes', Lines' = Lines, pending' = pending,
           RouteFirst', SentIsThere', sigs' + pipe = sigs + pipe'
    PROVE  UwaitInv'
<1>1. Once(Lines)'
    BY DEF UwaitInv, Once
<1>2. InOrder(Lines)'
    BY DEF UwaitInv, InOrder
<1>3. Places(OsSignal)' = Places(OsSignal)
    BY DEF Places
<1>4. SignalsCounted'
  <2>1. IsFiniteSet(Places(OsSignal)) /\ Cardinality(Places(OsSignal)) + pipe = sigs
    BY DEF UwaitInv, SignalsCounted
  <2>2. PICK n \in Nat : n = Cardinality(Places(OsSignal))
    BY <2>1, FS_CardinalityType
  <2>3. pipe \in Nat /\ sigs \in Nat /\ pipe' \in Nat /\ sigs' \in Nat
    BY DEF UwaitInv, UwaitTypes
  <2>4. n + pipe' = sigs'
    BY <2>1, <2>2, <2>3
  <2>. QED
    BY <1>3, <2>1, <2>2, <2>4, Zenon DEF SignalsCounted
<1>. QED
    BY <1>1, <1>2, <1>4 DEF UwaitInv

\* A step that puts the next event of its source at the end of a line.
LEMMA LineGrows ==
    ASSUME UwaitInv, UwaitTypes', NEW x \in Routes, NEW d \in Events, Grown(Lines, Lines', x, d),
           Numbered(d) => ~Has(Lines, d),
           \A k \in 1 .. Len(Lines[x]) : SameSource(Lines[x][k], d) => Lines[x][k].no < d.no,
           RouteFirst', SentIsThere', SignalsCounted'
    PROVE  UwaitInv'
<1>1. Lines \in LineSet /\ Lines' \in LineSet
    BY LinesAre, LinesAreNext DEF UwaitInv, LinesGood
<1>2. Once(Lines) /\ InOrder(Lines)
    BY DEF UwaitInv
<1>3. Once(Lines')
    BY <1>1, <1>2, GrownOnce
<1>4. InOrder(Lines')
    BY <1>1, <1>2, GrownOrder
<1>5. Once(Lines)' /\ InOrder(Lines)'
    BY <1>3, <1>4 DEF Once, InOrder
<1>. QED
    BY <1>5 DEF UwaitInv

\* What lies on the lines after such a step.
LEMMA GrowthHas ==
    ASSUME UwaitInv, UwaitTypes', NEW x \in Routes, NEW d \in Events, Grown(Lines, Lines', x, d), NEW c
    PROVE  Has(Lines, c)' <=> Has(Lines, c) \/ c = d
<1>1. Lines \in LineSet /\ Lines' \in LineSet
    BY LinesAre, LinesAreNext DEF UwaitInv, LinesGood
<1>2. Has(Lines', c) <=> Has(Lines, c) \/ c = d
    BY <1>1, GrownHas
<1>. QED
    BY <1>2 DEF Has

\* The count of signals is not touched by another event.
LEMMA GrowthSignals ==
    ASSUME UwaitInv, UwaitTypes', NEW x \in Routes, NEW d \in Events, Grown(Lines, Lines', x, d),
           d # OsSignal, UNCHANGED <<pipe, sigs>>
    PROVE  SignalsCounted'
<1>1. Lines \in LineSet /\ Lines' \in LineSet
    BY LinesAre, LinesAreNext DEF UwaitInv, LinesGood
<1>2. Spots(Lines', OsSignal) = Spots(Lines, OsSignal)
    BY <1>1, GrownOthers
<1>3. Places(OsSignal)' = Places(OsSignal)
    BY <1>2 DEF Places, Spots
<1>. QED
    BY <1>3 DEF UwaitInv, SignalsCounted

\* Messages stay in the route only until the first subscription: a step that
\* puts another event in an inbox or a handler.
LEMMA GrowthRoute ==
    ASSUME UwaitInv, UwaitTypes', NEW x \in Contexts, NEW d \in Events, Grown(Lines, Lines', x, d),
           UNCHANGED <<subscriber, pending, target>>, d.tag # "ChannelMsg"
    PROVE  RouteFirst'
<1>1. x \in Routes /\ \A y \in Contexts : y \in Routes
    BY DEF Routes
<1>2. Lines \in LineSet /\ Lines' \in LineSet
    BY LinesAre, LinesAreNext DEF UwaitInv, LinesGood
<1>3. ASSUME subscriber = NoContext, NEW y \in Contexts, NEW i \in 1 .. Len(Lines'[y])
      PROVE  Lines'[y][i].tag # "ChannelMsg"
  <2>1. \A j \in 1 .. Len(Lines[y]) : Lines[y][j].tag # "ChannelMsg"
    BY <1>3 DEF UwaitInv, RouteFirst
  <2>2. CASE y # x
    BY <1>1, <2>1, <2>2 DEF Grown
  <2>3. CASE y = x
    <3>1. PICK n \in Nat : n = Len(Lines[x])
        BY <1>1, <1>2, LineLength
    <3>2. i \in 1 .. n + 1
        BY <2>3, <3>1 DEF Grown
    <3>3. CASE i \in 1 .. n
        BY <2>1, <2>3, <3>1, <3>3 DEF Grown
    <3>4. CASE i = n + 1
        BY <2>3, <3>1, <3>4 DEF Grown
    <3>. QED
        BY <3>1, <3>2, <3>3, <3>4
  <2>. QED
    BY <2>2, <2>3
<1>4. (\A e \in Emitters : target[e] = NoContext) \/ subscriber # NoContext
    BY DEF UwaitInv, RouteFirst
<1>5. (\A i \in 1 .. Len(pending) : pending[i].tag = "ChannelMsg") /\ (subscriber # NoContext => pending = <<>>)
    BY DEF UwaitInv, RouteFirst
<1>. QED
    BY <1>3, <1>4, <1>5 DEF RouteFirst

-----------------------------------------------------------------------------
(* The actions *)

\* Steps that leave the route, the lines and the emitters alone.
LEMMA QuietStep ==
    ASSUME UwaitInv, UwaitTypes', Lines' = Lines, UNCHANGED <<subscriber, pending, target, emits, seq>>,
           sigs' + pipe = sigs + pipe'
    PROVE  UwaitInv'
<1>1. RouteFirst'
    BY DEF UwaitInv, RouteFirst
<1>2. SentIsThere'
    BY DEF UwaitInv, SentIsThere, Has, Sent
<1>. QED
    BY <1>1, <1>2, LinesKept

\* A context takes a prefix of its inbox, which its handler is given.
LEMMA UwaitStep ==
    ASSUME UwaitInv, UwaitTypes', NEW x \in Contexts, Uwait(x)
    PROVE  UwaitInv'
<1>1. PICK k \in 1 .. Len(inbox[x]) :
          /\ inbox' = [inbox EXCEPT ![x] = SubSeq(@, k + 1, Len(@))]
          /\ Handle(x, SubSeq(inbox[x], 1, k))
    BY DEF Uwait
<1>2. got[x] \in Seq(Events) /\ inbox[x] \in Seq(Events)
    BY DEF UwaitInv, UwaitTypes
<1>3. got'[x] = got[x] \o SubSeq(inbox[x], 1, k) /\ inbox'[x] = SubSeq(inbox[x], k + 1, Len(inbox[x]))
    BY <1>1 DEF Handle, UwaitInv, UwaitTypes
<1>4. got'[x] \o inbox'[x] = got[x] \o inbox[x]
    BY <1>2, <1>3, HandPrefix
<1>5. \A y \in Contexts : got'[y] \o inbox'[y] = got[y] \o inbox[y]
    BY <1>1, <1>4 DEF Handle, UwaitInv, UwaitTypes
<1>6. Lines' = Lines
    BY <1>1, <1>5, SameLines DEF Handle, UwaitInv
<1>. QED
    BY <1>1, <1>6, QuietStep DEF Handle, evars, sigvars, fvars, UwaitInv, UwaitTypes

\* A tick is no event of a source.
LEMMA UwaitDeadlineStep ==
    ASSUME UwaitInv, UwaitTypes', NEW x \in Contexts, UwaitDeadline(x)
    PROVE  UwaitInv'
<1>1. Tick \in Events /\ x \in Routes
    BY DEF Events, Routes
<1>2. Grown(Lines, Lines', x, Tick)
    BY <1>1, GotGrows DEF UwaitDeadline, Handle, UwaitInv
<1>3. RouteFirst'
    BY <1>1, <1>2, GrowthRoute, KindsDiffer DEF UwaitDeadline, Handle, evars
<1>4. SentIsThere'
  <2>1. \A e \in Emitters, i \in Nat : Has(Lines, Msg(e, i))' <=> Has(Lines, Msg(e, i))
    BY <1>1, <1>2, GrowthHas, KindsDiffer
  <2>2. \A i \in Nat : Has(Lines, HwEdge(i))' <=> Has(Lines, HwEdge(i))
    BY <1>1, <1>2, GrowthHas, KindsDiffer
  <2>. QED
    BY <2>1, <2>2 DEF UwaitInv, SentIsThere, Sent, UwaitDeadline, Handle, evars, fvars
<1>5. SignalsCounted'
    BY <1>1, <1>2, GrowthSignals, KindsDiffer DEF UwaitDeadline, Handle, sigvars
<1>6. ~Numbered(Tick) /\ \A a : ~SameSource(a, Tick)
    BY KindsDiffer DEF SameSource
<1>. QED
    BY <1>1, <1>2, <1>3, <1>4, <1>5, <1>6, LineGrows
\* The messages that waited in the route go to the first subscriber's inbox,
\* which had none; later subscriptions find nothing there.
LEMMA UwaitSubscribeChannelStep ==
    ASSUME UwaitInv, UwaitTypes', NEW x \in Contexts, UwaitSubscribeChannel(x)
    PROVE  UwaitInv'
<1>1. Lines \in LineSet /\ Lines' \in LineSet /\ Lines[NoContext] = pending /\ Lines'[NoContext] = pending'
    BY LinesAre, LinesAreNext DEF UwaitInv, LinesGood
<1>2. x \in Routes /\ x # NoContext
    BY UwaitAssumption DEF Routes
<1>3. Moved(Lines, Lines', x)
    BY PendingMoves DEF UwaitSubscribeChannel, UwaitInv
<1>4. \A i \in 1 .. Len(Lines[NoContext]) : Lines[NoContext][i].tag = "ChannelMsg"
    BY <1>1 DEF UwaitInv, RouteFirst
<1>5. \A i \in 1 .. Len(Lines[x]), j \in 1 .. Len(Lines[NoContext]) :
            ~SameSource(Lines[x][i], Lines[NoContext][j])
  <2>1. CASE subscriber = NoContext
    <3>1. \A i \in 1 .. Len(Lines[x]) : Lines[x][i].tag # "ChannelMsg"
        BY <2>1 DEF UwaitInv, RouteFirst
    <3>. QED
        BY <1>4, <3>1 DEF SameSource
  <2>2. CASE subscriber # NoContext
    <3>1. Len(Lines[NoContext]) = 0
        BY <1>1, <2>2, EmptySeq DEF UwaitInv, RouteFirst
    <3>. QED
        BY <3>1
  <2>. QED
    BY <2>1, <2>2
<1>6. InOrder(Lines)'
  <2>1. InOrder(Lines')
    BY <1>1, <1>3, <1>5, MovedOrder DEF UwaitInv
  <2>. QED
    BY <2>1 DEF InOrder
<1>7. Once(Lines)'
  <2>1. Once(Lines')
    BY <1>1, <1>3, MovedOnce DEF UwaitInv
  <2>. QED
    BY <2>1 DEF Once
<1>8. RouteFirst'
    BY <1>2, EmptySeq DEF UwaitSubscribeChannel, RouteFirst
<1>9. SentIsThere'
  <2>1. ASSUME NEW c PROVE Has(Lines, c)' <=> Has(Lines, c)
    <3>1. Has(Lines', c) <=> Has(Lines, c)
        BY <1>1, <1>3, MovedHas
    <3>. QED
        BY <3>1 DEF Has
  <2>2. \A e \in Emitters, i \in Nat : Has(Lines, Msg(e, i))' <=> Has(Lines, Msg(e, i))
    BY <2>1
  <2>3. \A i \in Nat : Has(Lines, HwEdge(i))' <=> Has(Lines, HwEdge(i))
    BY <2>1
  <2>. QED
    BY <2>2, <2>3 DEF UwaitInv, SentIsThere, Sent, UwaitSubscribeChannel, evars, fvars
<1>10. SignalsCounted'
  <2>1. \A i \in 1 .. Len(Lines[NoContext]) : Lines[NoContext][i] # OsSignal
    BY <1>4, KindsDiffer
  <2>2. Spots(Lines', OsSignal) = Spots(Lines, OsSignal)
    BY <1>1, <1>3, <2>1, MovedOthers
  <2>3. Places(OsSignal)' = Places(OsSignal)
    BY <2>2 DEF Places, Spots
  <2>. QED
    BY <2>3 DEF UwaitInv, SignalsCounted, UwaitSubscribeChannel, sigvars
<1>. QED
    BY <1>6, <1>7, <1>8, <1>9, <1>10 DEF UwaitInv

\* A message emitted before the first subscription waits in the route.
LEMMA EmitToRoute ==
    ASSUME UwaitInv, UwaitTypes', NEW e \in Emitters, UwaitEmit(e), subscriber = NoContext
    PROVE  UwaitInv'
<1>. DEFINE d == Msg(e, emits[e] + 1)
<1>1. emits[e] \in Nat /\ emits \in [Emitters -> Nat] /\ target \in [Emitters -> Routes]
    BY DEF UwaitInv, UwaitTypes
<1>2. d \in Events /\ NoContext \in Routes
    BY <1>1, EventTypes DEF Routes
<1>3. Grown(Lines, Lines', NoContext, d)
    BY <1>2, PendingGrows DEF UwaitEmit, UwaitInv
<1>4. /\ emits' = [emits EXCEPT ![e] = @ + 1] /\ target' = target /\ target[e] = NoContext
      /\ pending' = Append(pending, d)
      /\ UNCHANGED <<subscriber, inbox, got, pipe, sigs, seq>>
    BY <1>1 DEF UwaitEmit, sigvars, fvars
<1>5. \A i \in Nat : Sent(e, i) => i < emits[e] + 1
    BY <1>1 DEF Sent
<1>6. /\ ~Has(Lines, d)
      /\ \A k \in 1 .. Len(Lines[NoContext]) : SameSource(Lines[NoContext][k], d) => Lines[NoContext][k].no < d.no
    BY <1>1, <1>2, <1>5, LastOfEmitter
<1>7. RouteFirst'
  <2>1. pending \in Seq(Events) /\ \A i \in 1 .. Len(pending) : pending[i].tag = "ChannelMsg"
    BY DEF UwaitInv, UwaitTypes, RouteFirst
  <2>2. \A i \in 1 .. Len(pending') : pending'[i].tag = "ChannelMsg"
    BY <1>4, <2>1, AppendProperties, KindsDiffer
  <2>3. \A x \in Contexts : Lines'[x] = Lines[x]
    BY <1>3, UwaitAssumption DEF Grown, Routes
  <2>. QED
    BY <1>4, <2>2, <2>3 DEF UwaitInv, RouteFirst
<1>8. SentIsThere'
  <2>1. \A f \in Emitters, i \in Nat : Has(Lines, Msg(f, i))' <=> Has(Lines, Msg(f, i)) \/ (f = e /\ i = emits[e] + 1)
    BY <1>2, <1>3, GrowthHas, KindsDiffer
  <2>2. \A i \in Nat : Has(Lines, HwEdge(i))' <=> Has(Lines, HwEdge(i))
    BY <1>2, <1>3, GrowthHas, KindsDiffer
  <2>3. \A f \in Emitters, i \in Nat : Sent(f, i)' <=> Sent(f, i) \/ (f = e /\ i = emits[e] + 1)
    BY <1>1, <1>4 DEF Sent
  <2>. QED
    BY <1>4, <2>1, <2>2, <2>3 DEF UwaitInv, SentIsThere
<1>9. SignalsCounted'
    BY <1>2, <1>3, <1>4, GrowthSignals, KindsDiffer
<1>. QED
    BY <1>2, <1>3, <1>6, <1>7, <1>8, <1>9, LineGrows

\* A message emitted for a subscriber is in its emitter's hand first.
LEMMA EmitToSubscriber ==
    ASSUME UwaitInv, UwaitTypes', NEW e \in Emitters, UwaitEmit(e), subscriber # NoContext
    PROVE  UwaitInv'
<1>1. emits[e] \in Nat /\ emits \in [Emitters -> Nat] /\ target \in [Emitters -> Routes]
    BY DEF UwaitInv, UwaitTypes
<1>2. /\ emits' = [emits EXCEPT ![e] = @ + 1] /\ target' = [target EXCEPT ![e] = subscriber]
      /\ target[e] = NoContext /\ UNCHANGED <<subscriber, pending, inbox, got, pipe, sigs, seq>>
    BY DEF UwaitEmit, sigvars, fvars
<1>3. Lines' = Lines
    BY <1>2, SameLines DEF UwaitInv
<1>4. RouteFirst'
    BY <1>2 DEF UwaitInv, RouteFirst
<1>5. SentIsThere'
  <2>1. \A f \in Emitters, i \in Nat : Sent(f, i)' <=> Sent(f, i)
    BY <1>1, <1>2 DEF Sent
  <2>. QED
    BY <1>2, <1>3, <2>1 DEF UwaitInv, SentIsThere, Has
<1>6. sigs' + pipe = sigs + pipe'
    BY <1>2
<1>. QED
    BY <1>2, <1>3, <1>4, <1>5, <1>6, LinesKept

\* The push comes when routes may have changed, to the context resolved before.
LEMMA UwaitEmitPushStep ==
    ASSUME UwaitInv, UwaitTypes', NEW e \in Emitters, UwaitEmitPush(e)
    PROVE  UwaitInv'
<1>. DEFINE d == Msg(e, emits[e])
            x == target[e]
<1>1. emits[e] \in Nat /\ emits \in [Emitters -> Nat] /\ target \in [Emitters -> Routes]
    BY DEF UwaitInv, UwaitTypes
<1>2. d \in Events /\ x \in Contexts /\ x \in Routes
    BY <1>1, EventTypes DEF Routes, UwaitEmitPush
<1>3. /\ inbox' = [inbox EXCEPT ![x] = Append(@, d)] /\ target' = [target EXCEPT ![e] = NoContext]
      /\ x # NoContext /\ UNCHANGED <<subscriber, pending, emits, got, pipe, sigs, seq>>
    BY DEF UwaitEmitPush, sigvars, fvars
<1>4. Grown(Lines, Lines', x, d)
  <2>. HIDE DEF x, d
  <2>. QED
    BY <1>2, <1>3, InboxGrows DEF UwaitInv
<1>5. \A i \in Nat : Sent(e, i) => i < emits[e]
    BY <1>1, <1>3 DEF Sent
<1>6. /\ ~Has(Lines, d)
      /\ \A k \in 1 .. Len(Lines[x]) : SameSource(Lines[x][k], d) => Lines[x][k].no < d.no
    BY <1>1, <1>2, <1>5, LastOfEmitter
<1>7. RouteFirst'
  <2>1. subscriber # NoContext
    BY <1>3 DEF UwaitInv, RouteFirst
  <2>. QED
    BY <1>3, <2>1 DEF UwaitInv, RouteFirst
<1>8. SentIsThere'
  <2>1. \A f \in Emitters, i \in Nat : Has(Lines, Msg(f, i))' <=> Has(Lines, Msg(f, i)) \/ (f = e /\ i = emits[e])
    BY <1>2, <1>4, GrowthHas, KindsDiffer
  <2>2. \A i \in Nat : Has(Lines, HwEdge(i))' <=> Has(Lines, HwEdge(i))
    BY <1>2, <1>4, GrowthHas, KindsDiffer
  <2>3. emits[e] # 0
    BY <1>1, <1>3 DEF UwaitInv, UwaitTypes
  <2>4. \A f \in Emitters, i \in Nat : Sent(f, i)' <=> Sent(f, i) \/ (f = e /\ i = emits[e])
    BY <1>1, <1>3, <2>3 DEF Sent
  <2>. QED
    BY <1>3, <2>1, <2>2, <2>4 DEF UwaitInv, SentIsThere
<1>9. SignalsCounted'
    BY <1>2, <1>3, <1>4, GrowthSignals, KindsDiffer
<1>. QED
    BY <1>2, <1>4, <1>6, <1>7, <1>8, <1>9, LineGrows
\* The adapter takes a signal from the pipe to an inbox.
LEMMA SignalAdapterStep ==
    ASSUME UwaitInv, UwaitTypes', SignalAdapter
    PROVE  UwaitInv'
<1>1. sigRoute \in Contexts /\ sigRoute \in Routes /\ OsSignal \in Events /\ pipe \in Nat /\ pipe > 0 /\ sigs \in Nat
    BY DEF UwaitInv, UwaitTypes, SignalAdapter, Routes, Events
<1>2. /\ inbox' = [inbox EXCEPT ![sigRoute] = Append(@, OsSignal)] /\ pipe' = pipe - 1
      /\ UNCHANGED <<subscriber, pending, target, emits, got, sigRoute, sigs, seq>>
    BY DEF SignalAdapter, evars, fvars
<1>3. Grown(Lines, Lines', sigRoute, OsSignal)
    BY <1>1, <1>2, InboxGrows DEF UwaitInv
<1>4. RouteFirst'
    BY <1>1, <1>2, <1>3, GrowthRoute, KindsDiffer
<1>5. SentIsThere'
  <2>1. \A e \in Emitters, i \in Nat : Has(Lines, Msg(e, i))' <=> Has(Lines, Msg(e, i))
    BY <1>1, <1>3, GrowthHas, KindsDiffer
  <2>2. \A i \in Nat : Has(Lines, HwEdge(i))' <=> Has(Lines, HwEdge(i))
    BY <1>1, <1>3, GrowthHas, KindsDiffer
  <2>. QED
    BY <1>2, <2>1, <2>2 DEF UwaitInv, SentIsThere, Sent
<1>6. SignalsCounted'
  <2>1. Lines \in LineSet /\ Lines' \in LineSet
    BY LinesAre, LinesAreNext DEF UwaitInv, LinesGood
  <2>2. /\ Spots(Lines', OsSignal) = Spots(Lines, OsSignal) \union {<<sigRoute, Len(Lines[sigRoute]) + 1>>}
        /\ <<sigRoute, Len(Lines[sigRoute]) + 1>> \notin Spots(Lines, OsSignal)
    BY <1>1, <1>3, <2>1, GrownSpots
  <2>3. Places(OsSignal) = Spots(Lines, OsSignal) /\ Places(OsSignal)' = Spots(Lines', OsSignal)
    BY DEF Places, Spots
  <2>4. IsFiniteSet(Places(OsSignal)) /\ Cardinality(Places(OsSignal)) + pipe = sigs
    BY DEF UwaitInv, SignalsCounted
  <2>5. PICK n \in Nat : n = Cardinality(Places(OsSignal))
    BY <2>4, FS_CardinalityType
  <2>6. IsFiniteSet(Places(OsSignal)') /\ Cardinality(Places(OsSignal)') = n + 1
    <3>. DEFINE S == Places(OsSignal)
                p == <<sigRoute, Len(Lines[sigRoute]) + 1>>
    <3>1. S' = S \union {p} /\ p \notin S
        BY <2>2, <2>3
    <3>. HIDE DEF S, p
    <3>2. IsFiniteSet(S) /\ n = Cardinality(S)
        BY <2>4, <2>5 DEF S
    <3>3. IsFiniteSet(S \union {p}) /\ Cardinality(S \union {p}) = n + 1
        BY <3>1, <3>2, FS_AddElement
    <3>4. IsFiniteSet(S') /\ Cardinality(S') = n + 1
        BY <3>1, <3>3
    <3>. QED
        BY <3>4 DEF S
  <2>7. (n + 1) + pipe' = sigs'
    BY <1>1, <1>2, <2>4, <2>5
  <2>. QED
    BY <2>6, <2>7, Zenon DEF SignalsCounted
<1>7. ~Numbered(OsSignal) /\ \A a : ~SameSource(a, OsSignal)
    BY KindsDiffer DEF SameSource
<1>. QED
    BY <1>1, <1>3, <1>4, <1>5, <1>6, <1>7, LineGrows

\* The reader thread pushes the next edge, or ends.
LEMMA FdReadStep ==
    ASSUME UwaitInv, UwaitTypes', FdRead
    PROVE  UwaitInv'
<1>. DEFINE d == HwEdge(seq + 1)
<1>1. reader \in Contexts /\ reader \in Routes /\ d \in Events /\ seq \in Nat
  <2>1. seq \in Nat /\ reader \in Routes /\ reader # NoContext
    BY DEF UwaitInv, UwaitTypes, FdRead
  <2>2. seq + 1 \in Nat
    BY <2>1
  <2>. QED
    BY <2>1, <2>2 DEF Routes, Events
<1>2. UNCHANGED <<subscriber, pending, target, emits, pipe, sigs, got>>
    BY DEF FdRead, evars, sigvars
<1>3. CASE reader' = NoContext /\ UNCHANGED <<seq, inbox>>
  <2>1. Lines' = Lines
    BY <1>2, <1>3, SameLines DEF UwaitInv
  <2>. QED
    BY <1>2, <1>3, <2>1, QuietStep
<1>4. CASE seq' = seq + 1 /\ inbox' = [inbox EXCEPT ![reader] = Append(@, d)]
  <2>1. Grown(Lines, Lines', reader, d)
    <3>. HIDE DEF d
    <3>. QED
        BY <1>1, <1>2, <1>4, InboxGrows DEF UwaitInv
  <2>2. RouteFirst'
    BY <1>1, <1>2, <2>1, GrowthRoute, KindsDiffer
  <2>3. SentIsThere'
    <3>1. \A e \in Emitters, i \in Nat : Has(Lines, Msg(e, i))' <=> Has(Lines, Msg(e, i))
        BY <1>1, <2>1, GrowthHas, KindsDiffer
    <3>2. \A i \in Nat : Has(Lines, HwEdge(i))' <=> Has(Lines, HwEdge(i)) \/ i = seq + 1
        BY <1>1, <2>1, GrowthHas, KindsDiffer
    <3>3. \A i \in Nat : i \in 1 .. seq' <=> i \in 1 .. seq \/ i = seq + 1
        BY <1>1, <1>4
    <3>. QED
        BY <1>2, <3>1, <3>2, <3>3 DEF UwaitInv, SentIsThere, Sent
  <2>4. SignalsCounted'
    BY <1>1, <1>2, <2>1, GrowthSignals, KindsDiffer
  <2>5. /\ ~Has(Lines, d)
        /\ \A k \in 1 .. Len(Lines[reader]) : SameSource(Lines[reader][k], d) => Lines[reader][k].no < d.no
    BY <1>1, LastOfLine
  <2>. QED
    BY <1>1, <2>1, <2>2, <2>3, <2>4, <2>5, LineGrows
<1>. QED
    BY <1>3, <1>4 DEF FdRead

\* At first there are no events.
LEMMA UwaitInvInit == UInit => UwaitInv
<1>. SUFFICES ASSUME UInit PROVE UwaitInv
    OBVIOUS
<1>1. UwaitTypes
    BY EmptySeq DEF UInit, UwaitTypes, Routes
<1>2. Lines \in LineSet /\ Lines[NoContext] = pending /\ \A x \in Contexts : Lines[x] = <<>> \o <<>>
    BY <1>1, LinesAre DEF LinesGood, UInit
<1>3. \A x \in Routes : Len(Lines[x]) = 0
  <2>1. <<>> \o <<>> = <<>>
    OBVIOUS
  <2>. QED
    BY <1>2, <2>1, EmptySeq DEF Routes, UInit
<1>4. RouteFirst
    BY <1>3, EmptySeq DEF RouteFirst, UInit, Routes
<1>5. \A c : ~Has(Lines, c)
    BY <1>3 DEF Has
<1>6. SentIsThere
    BY <1>5 DEF SentIsThere, Sent, UInit
<1>7. Once(Lines) /\ InOrder(Lines)
    BY <1>3 DEF Once, InOrder
<1>8. SignalsCounted
  <2>1. \A p : p \notin Spots(Lines, OsSignal)
    BY <1>2, <1>3, SpotsAre
  <2>2. Places(OsSignal) = {}
    BY <2>1 DEF Places, Spots
  <2>. QED
    BY <2>2, FS_EmptySet DEF SignalsCounted, UInit
<1>. QED
    BY <1>1, <1>4, <1>6, <1>7, <1>8 DEF UwaitInv

\* Every step keeps the invariant.
LEMMA UwaitInvStep == UwaitInv /\ [UNext]_uvars => UwaitInv'
<1>. SUFFICES ASSUME UwaitInv, [UNext]_uvars PROVE UwaitInv'
    OBVIOUS
<1>1. UwaitTypes'
    BY UwaitTypesStep
<1>2. ASSUME NEW x \in Contexts, UwaitSubscribeChannel(x) PROVE UwaitInv'
    BY <1>1, <1>2, UwaitSubscribeChannelStep
<1>3. ASSUME NEW x \in Contexts, UwaitSubscribeSignal(x) \/ UwaitSubscribeFdLine(x) PROVE UwaitInv'
  <2>1. UNCHANGED <<subscriber, pending, inbox, got, target, emits, pipe, sigs, seq>>
    BY <1>3 DEF UwaitSubscribeSignal, UwaitSubscribeFdLine, evars, sigvars, fvars
  <2>2. Lines' = Lines
    BY <1>1, <2>1, SameLines DEF UwaitInv
  <2>. QED
    BY <1>1, <2>1, <2>2, QuietStep
<1>4. ASSUME NEW x \in Contexts, Uwait(x) PROVE UwaitInv'
    BY <1>1, <1>4, UwaitStep
<1>5. ASSUME NEW x \in Contexts, UwaitDeadline(x) PROVE UwaitInv'
    BY <1>1, <1>5, UwaitDeadlineStep
<1>6. ASSUME NEW e \in Emitters, UwaitEmit(e) PROVE UwaitInv'
    BY <1>1, <1>6, EmitToRoute, EmitToSubscriber
<1>7. ASSUME NEW e \in Emitters, UwaitEmitPush(e) PROVE UwaitInv'
    BY <1>1, <1>7, UwaitEmitPushStep
<1>8. CASE OnSignal
  <2>1. UNCHANGED <<subscriber, pending, inbox, got, target, emits, seq>> /\ sigs' = sigs + 1 /\ pipe' = pipe + 1
    BY <1>8 DEF OnSignal, evars, fvars
  <2>2. Lines' = Lines
    BY <1>1, <2>1, SameLines DEF UwaitInv
  <2>3. sigs' + pipe = sigs + pipe'
    BY <2>1 DEF UwaitInv, UwaitTypes
  <2>. QED
    BY <1>1, <2>1, <2>2, <2>3, QuietStep
<1>9. CASE SignalAdapter
    BY <1>1, <1>9, SignalAdapterStep
<1>10. CASE FdRead
    BY <1>1, <1>10, FdReadStep
<1>11. CASE UNCHANGED uvars
  <2>1. UNCHANGED <<subscriber, pending, inbox, got, target, emits, pipe, sigs, seq>>
    BY <1>11 DEF uvars, evars, sigvars, fvars
  <2>2. Lines' = Lines
    BY <1>1, <2>1, SameLines DEF UwaitInv
  <2>. QED
    BY <1>1, <2>1, <2>2, QuietStep
<1>. QED
    BY <1>2, <1>3, <1>4, <1>5, <1>6, <1>7, <1>8, <1>9, <1>10, <1>11 DEF UNext

\* The places of a message or an edge: one or none.
LEMMA PlacesOfNumbered ==
    ASSUME UwaitInv, NEW d, Numbered(d)
    PROVE  Cardinality(Places(d)) = IF Has(Lines, d) THEN 1 ELSE 0
<1>1. Lines \in LineSet /\ Once(Lines)
    BY LinesAre DEF UwaitInv, LinesGood
<1>2. Places(d) = Spots(Lines, d)
    BY DEF Places, Spots
<1>3. CASE ~Has(Lines, d)
  <2>1. \A p : p \notin Spots(Lines, d)
    BY <1>1, <1>3, SpotsAre DEF Has
  <2>2. Places(d) = {}
    BY <1>2, <2>1
  <2>. QED
    BY <1>3, <2>2, FS_EmptySet
<1>4. CASE Has(Lines, d)
  <2>1. PICK x \in Routes : \E i \in 1 .. Len(Lines[x]) : Lines[x][i] = d
    BY <1>4 DEF Has
  <2>2. PICK i \in 1 .. Len(Lines[x]) : Lines[x][i] = d
    BY <2>1
  <2>3. <<x, i>> \in Spots(Lines, d)
    BY <1>1, <2>2, SpotsAre
  <2>4. ASSUME NEW p \in Spots(Lines, d) PROVE p = <<x, i>>
    <3>1. PICK y \in Routes : \E j \in 1 .. Len(Lines[y]) : p = <<y, j>> /\ Lines[y][j] = d
        BY <1>1, SpotsAre
    <3>2. PICK j \in 1 .. Len(Lines[y]) : p = <<y, j>> /\ Lines[y][j] = d
        BY <3>1
    <3>3. Lines[x][i] = Lines[y][j] /\ Numbered(Lines[x][i])
        BY <2>2, <3>2
    <3>4. x = y /\ i = j
        BY <1>1, <3>3 DEF Once
    <3>. QED
        BY <3>2, <3>4
  <2>5. Places(d) = {<<x, i>>}
    BY <1>2, <2>3, <2>4
  <2>. QED
    BY <1>4, <2>5, FS_Singleton
<1>. QED
    BY <1>3, <1>4

\* The invariant is what the promise to the contexts needs.
LEMMA UwaitInvPromises == UwaitInv => EventsOnceInOrder
<1>. SUFFICES ASSUME UwaitInv PROVE EventsOnceInOrder
    OBVIOUS
<1>1. ASSUME NEW e \in Emitters, NEW i \in 1 .. MaxEmits
      PROVE  Cardinality(Places(Msg(e, i))) = IF i > emits[e] \/ (i = emits[e] /\ target[e] # NoContext) THEN 0 ELSE 1
  <2>1. Cardinality(Places(Msg(e, i))) = IF Has(Lines, Msg(e, i)) THEN 1 ELSE 0
    BY PlacesOfNumbered, KindsDiffer
  <2>2. i \in Nat /\ i >= 1 /\ emits[e] \in Nat
    BY DEF UwaitInv, UwaitTypes
  <2>3. Has(Lines, Msg(e, i)) <=> Sent(e, i)
    BY <2>2 DEF UwaitInv, SentIsThere
  <2>4. Sent(e, i) <=> ~(i > emits[e] \/ (i = emits[e] /\ target[e] # NoContext))
    BY <2>2 DEF Sent
  <2>. QED
    BY <2>1, <2>3, <2>4
<1>2. Cardinality(Places(OsSignal)) + pipe = sigs
    BY DEF UwaitInv, SignalsCounted
<1>3. ASSUME NEW i \in 1 .. MaxLines
      PROVE  Cardinality(Places(HwEdge(i))) = IF i <= seq THEN 1 ELSE 0
  <2>1. Cardinality(Places(HwEdge(i))) = IF Has(Lines, HwEdge(i)) THEN 1 ELSE 0
    BY PlacesOfNumbered, KindsDiffer
  <2>2. i \in Nat /\ i >= 1 /\ seq \in Nat
    BY DEF UwaitInv, UwaitTypes
  <2>3. Has(Lines, HwEdge(i)) <=> i \in 1 .. seq
    BY <2>2 DEF UwaitInv, SentIsThere
  <2>. QED
    BY <2>1, <2>2, <2>3
<1>4. EveryEventOnce
    BY <1>1, <1>2, <1>3 DEF EveryEventOnce
<1>5. EmitOrderKept
  <2>1. Lines \in LineSet /\ InOrder(Lines) /\ \A x \in Contexts : x \in Routes
    BY LinesAre DEF UwaitInv, LinesGood
  <2>2. \A x \in Contexts : DOMAIN Lines[x] = 1 .. Len(Lines[x])
    BY <2>1, LineLength
  <2>. QED
    BY <2>1, <2>2 DEF EmitOrderKept, InOrder
<1>. QED
    BY <1>4, <1>5 DEF EventsOnceInOrder

\* Whatever number of contexts, emitters, messages, signals and reads: an event
\* is in exactly one place, although uwait_emit pushes after the unlock and
\* routes are replaced meanwhile, and a context gets those of a source in the
\* order they were sent.
THEOREM EventsArriveOnce == USpec => []EventsOnceInOrder
<1>1. USpec => []UwaitInv
    BY UwaitInvInit, UwaitInvStep, PTL DEF USpec
<1>. QED
    BY <1>1, UwaitInvPromises, PTL

-----------------------------------------------------------------------------
(* The bridge layer *)

\* The writer is between two loads of floor_min.
Scanning == wpc \in {"levelA", "sweep", "gated"}

\* The inductive invariant of the bridge layer, in named parts.

\* Everything but the head is older than it, so a new epoch is fresh, and a
\* block in write_lazy's hand is in no other list.
BlocksOlder ==
    /\ \A e \in retired \union behind : e < head
    /\ old < head \/ old = 0
    /\ wpc \notin {"levelA", "levelB"} => old = 0
    /\ wpc \in {"levelA", "levelB"} => old # 0 /\ old \notin behind
    /\ ~Scanning => wi = 0

\* A slot has one owner, handed out below next, and no slot is owned before
\* any_ever is set.
SlotsOwned ==
    \A r \in Readers :
        /\ mine[r] # NoSlot => mine[r] < next /\ anyEver
        /\ mine[r] = NoSlot <=> rpc[r] \in {"none", "panicked"}
        /\ \A q \in Readers : mine[q] = mine[r] /\ mine[r] # NoSlot => q = r

\* What a reader's position says of what it holds: a thread without a handle
\* holds nothing, only a loaded reader has an untracked block, and a reader
\* that saw no head has no reference, or giving its slot back would be unsafe.
HoldPhases ==
    \A r \in Readers :
        /\ ptr[r] # 0 <=> rpc[r] = "loaded"
        /\ rpc[r] \in {"none", "panicked", "empty"} => \A k \in RefIds : refs[r][k] = 0
        /\ rpc[r] \in {"pinned", "loaded", "empty"} => slot[mine[r]] = 1

\* HoldStack: every entry is a live reference, and the overflow floor covers
\* each live reference that has no entry.
StackCovers ==
    \A r \in Readers :
        /\ \A k \in stacked[r] : refs[r][k] # 0
        /\ \A k \in RefIds \ stacked[r] : refs[r][k] # 0 => ofloor[r] <= refs[r][k]

\* The running minimum of floor_min: a superseded block that the owner of a
\* slot already loaded holds is at or above it, whatever readers did since.
ScanCovers ==
    Scanning => \A r \in Readers : mine[r] < wi =>
                    \A e \in Held(r) : e = head \/ fm <= e

\* The inductive invariant: the property the run checks and the parts it rests on.
BridgeInv == /\ BlocksAreSafe /\ BlocksOlder /\ SlotsOwned /\ HoldPhases
             /\ StackCovers /\ ScanCovers

-----------------------------------------------------------------------------
(* Facts about states *)

\* HoldStack::floor is at or below every live reference, and idle when there
\* is none.
LEMMA FloorOfStack ==
    ASSUME NEW rf \in [RefIds -> 0 .. MaxEpoch], NEW st \in SUBSET RefIds, NEW ov \in 1 .. Idle,
           NEW f \in Epochs \union {Idle}, IsFloor(f, rf, st, ov),
           \A k \in st : rf[k] # 0,
           \A k \in RefIds \ st : rf[k] # 0 => ov <= rf[k]
    PROVE  /\ \A k \in RefIds : rf[k] # 0 => f <= rf[k]
           /\ (\A k \in RefIds : rf[k] = 0) => f = Idle
  <1>1. ASSUME NEW k \in RefIds, rf[k] # 0 PROVE f <= rf[k]
    <2>1. CASE k \in st
      BY <2>1 DEF IsFloor
    <2>2. CASE k \notin st
      <3>1. f <= ov
        BY <1>1, <2>2 DEF IsFloor
      <3>2. ov <= rf[k]
        BY <1>1, <2>2
      <3>3. f \in Int /\ ov \in Int /\ rf[k] \in Int
        BY BridgedAssumption DEF Epochs, Idle
      <3>. QED BY <3>1, <3>2, <3>3
    <2>. QED BY <2>1, <2>2
  <1>2. ASSUME \A k \in RefIds : rf[k] = 0 PROVE f = Idle
    <2>1. st = {}
      BY <1>2
    <2>. QED BY <1>2, <2>1 DEF IsFloor
  <1>. QED BY <1>1, <1>2

\* A thread with a handle publishes a floor at or below everything it holds,
\* at every point of read_ref and drop.
LEMMA FloorCoversHeld ==
    ASSUME BridgeInv, NEW r \in Readers, mine[r] # NoSlot, NEW e \in Held(r)
    PROVE  slot[mine[r]] <= e
  <1>1. rpc[r] \in {"idle", "pinned", "loaded", "empty"}
    BY DEF BridgeInv, SlotsOwned, BlocksAreSafe, TypeOK
  <1>2. CASE rpc[r] = "idle"
    BY <1>2 DEF BridgeInv, BlocksAreSafe, FloorIsHonest
  <1>3. CASE rpc[r] # "idle"
    <2>1. slot[mine[r]] = 1
      BY <1>1, <1>3 DEF BridgeInv, HoldPhases
    <2>2. e \in 1 .. MaxEpoch
      BY DEF Held, BridgeInv, BlocksAreSafe, TypeOK
    <2>. QED BY <2>1, <2>2, BridgedAssumption
  <1>. QED BY <1>2, <1>3

\* A thread without a handle holds nothing.
LEMMA NoHandleNoHold ==
    ASSUME BridgeInv, NEW r \in Readers, mine[r] = NoSlot
    PROVE  Held(r) = {}
  <1>1. rpc[r] \in {"none", "panicked"}
    BY DEF BridgeInv, SlotsOwned
  <1>2. ptr[r] = 0 /\ \A k \in RefIds : refs[r][k] = 0
    BY <1>1 DEF BridgeInv, HoldPhases
  <1>. QED BY <1>2 DEF Held

\* A reader that has a position in read_ref or may start one owns a slot.
LEMMA OwnsSlot ==
    ASSUME BridgeInv, NEW r \in Readers, rpc[r] \in {"idle", "pinned", "loaded", "empty"}
    PROVE  mine[r] \in Slots /\ mine[r] # NoSlot
  BY BridgedAssumption DEF BridgeInv, SlotsOwned, BlocksAreSafe, TypeOK, NoSlot, Slots

\* Once the scan is over, nobody holds a superseded block below the minimum.
LEMMA ScanComplete ==
    ASSUME BridgeInv, Scanning, wi = MaxReaders, NEW r \in Readers, NEW e \in Held(r)
    PROVE  e = head \/ fm <= e
  <1>1. mine[r] # NoSlot
    BY NoHandleNoHold
  <1>2. mine[r] < wi
    BY <1>1, BridgedAssumption DEF BridgeInv, BlocksAreSafe, TypeOK, Slots, NoSlot
  <1>. QED BY <1>2 DEF BridgeInv, ScanCovers

-----------------------------------------------------------------------------
(* Types *)

\* Every step of a writer or a reader keeps the types: epochs stay within the
\* writes made, floors between 1 and idle, slot numbers within the registry.
LEMMA TypeStep ==
    ASSUME BridgeInv, [Next]_vars
    PROVE  TypeOK'
  <1>0. TypeOK /\ 1 \in 1 .. Idle /\ Idle \in 1 .. Idle
    BY BridgedAssumption DEF BridgeInv, BlocksAreSafe, Idle
  <1>a. \A f \in Epochs \union {Idle} : f \in 1 .. Idle
    BY BridgedAssumption DEF Epochs, Idle
  <1>1. CASE Write
    BY <1>0, <1>1, BridgedAssumption DEF TypeOK, Write, Publish, reg, rvars, Epochs
  <1>2. CASE Extend
    BY <1>0, <1>2, BridgedAssumption DEF TypeOK, Extend, Publish, wvars, reg, rvars, Epochs
  <1>3. CASE WriteLazy
    BY <1>0, <1>3, BridgedAssumption DEF TypeOK, WriteLazy, Publish, reg, rvars, Epochs
  <1>4. CASE LevelB
    <2>1. heap' \subseteq heap /\ old' \in {0, old} /\ wpc' \in {"idle", "levelA"}
      BY <1>4 DEF LevelB
    <2>2. old' \in 0 .. MaxEpoch
      BY <1>0, <2>1, BridgedAssumption DEF TypeOK
    <2>. QED BY <1>0, <1>4, <2>1, <2>2 DEF TypeOK, LevelB, reg, rvars
  <1>5. CASE ScanSlot
    <2>1. wi \in Slots /\ wi' \in 0 .. MaxReaders
      BY <1>0, <1>5, BridgedAssumption DEF TypeOK, ScanSlot, Slots
    <2>2. fm' \in 1 .. Idle
      BY <1>0, <1>5, <2>1 DEF TypeOK, ScanSlot
    <2>. QED BY <1>0, <1>5, <2>1, <2>2 DEF TypeOK, ScanSlot, cell, reg, rvars
  <1>6. CASE LevelA
    <2>1. old \in Epochs
      BY <1>0, <1>6, BridgedAssumption DEF TypeOK, LevelA, BridgeInv, BlocksOlder, Epochs
    <2>2. heap' \subseteq Epochs /\ retired' \subseteq Epochs
      BY <1>0, <1>6, <2>1 DEF TypeOK, LevelA
    <2>3. old' \in 0 .. MaxEpoch /\ wi' \in 0 .. MaxReaders
      BY <1>6, BridgedAssumption DEF LevelA
    <2>. QED BY <1>0, <1>6, <2>2, <2>3 DEF TypeOK, LevelA, reg, rvars
  <1>7. CASE Reclaim
    BY <1>0, <1>7 DEF TypeOK, Reclaim, cell, reg, rvars
  <1>8. CASE ReclaimIfWatermark
    <2>1. skip' \in 0 .. BackoffCap /\ wpc' \in {wpc, "gated"}
      BY <1>0, <1>8, BridgedAssumption DEF TypeOK, ReclaimIfWatermark
    <2>. QED BY <1>0, <1>8, <2>1 DEF TypeOK, ReclaimIfWatermark, cell, reg, rvars
  <1>9. CASE Sweep
    <2>1. heap' \subseteq Epochs /\ retired' \subseteq Epochs
      BY <1>0, <1>9 DEF TypeOK, Sweep
    <2>2. backoff' \in 0 .. BackoffCap /\ skip' \in 0 .. BackoffCap
      <3>. DEFINE b == 2 * backoff + 1
      <3>1. b \in Nat /\ backoff \in 0 .. BackoffCap /\ skip \in 0 .. BackoffCap
        BY <1>0, BridgedAssumption DEF TypeOK
      <3>2. \/ UNCHANGED <<skip, backoff>>
            \/ backoff' = 0 /\ skip' = skip
            \/ backoff' = (IF b < BackoffCap THEN b ELSE BackoffCap) /\ skip' = backoff'
        BY <1>9 DEF Sweep
      <3>. QED BY <3>1, <3>2, BridgedAssumption
    <2>3. wi' \in 0 .. MaxReaders
      BY <1>9, BridgedAssumption DEF Sweep
    <2>. QED BY <1>0, <1>9, <2>1, <2>2, <2>3 DEF TypeOK, Sweep, reg, rvars
  <1>10. ASSUME NEW r \in Readers, Acquire(r) PROVE TypeOK'
    <2>1. next' \in 0 .. MaxReaders /\ (next < MaxReaders => next \in Slots)
      BY <1>0, <1>10, BridgedAssumption DEF TypeOK, Acquire, Slots
    <2>2. mine' \in [Readers -> Slots \union {NoSlot}]
      BY <1>0, <1>10, <2>1 DEF TypeOK, Acquire
    <2>3. anyEver' \in BOOLEAN
      BY <1>0, <1>10 DEF TypeOK, Acquire
    <2>4. rpc' \in [Readers -> {"none", "idle", "pinned", "loaded", "empty", "panicked"}]
      BY <1>0, <1>10 DEF TypeOK, Acquire
    <2>. QED BY <1>0, <1>10, <2>1, <2>2, <2>3, <2>4 DEF TypeOK, Acquire, cell, wvars
  <1>11. ASSUME NEW r \in Readers, PrePublish(r) PROVE TypeOK'
    <2>1. slot' \in [Slots -> 1 .. Idle]
      BY <1>0, <1>11 DEF TypeOK, PrePublish
    <2>2. rpc' \in [Readers -> {"none", "idle", "pinned", "loaded", "empty", "panicked"}]
      BY <1>0, <1>11 DEF TypeOK, PrePublish
    <2>. QED BY <1>0, <1>11, <2>1, <2>2 DEF TypeOK, PrePublish, cell, wvars
  <1>12. ASSUME NEW r \in Readers, LoadHead(r) PROVE TypeOK'
    <2>1. rpc' \in [Readers -> {"none", "idle", "pinned", "loaded", "empty", "panicked"}]
      BY <1>0, <1>12 DEF TypeOK, LoadHead
    <2>2. ptr' \in [Readers -> 0 .. MaxEpoch]
      BY <1>0, <1>12 DEF TypeOK, LoadHead
    <2>. QED BY <1>0, <1>12, <2>1, <2>2 DEF TypeOK, LoadHead, cell, wvars, reg
  <1>13. ASSUME NEW r \in Readers, ReadEmpty(r) PROVE TypeOK'
    <2>1. slot' \in [Slots -> 1 .. Idle]
      BY <1>0, <1>13 DEF TypeOK, ReadEmpty
    <2>2. rpc' \in [Readers -> {"none", "idle", "pinned", "loaded", "empty", "panicked"}]
      BY <1>0, <1>13 DEF TypeOK, ReadEmpty
    <2>. QED BY <1>0, <1>13, <2>1, <2>2 DEF TypeOK, ReadEmpty, cell, wvars
  <1>14. ASSUME NEW r \in Readers, Tighten(r) PROVE TypeOK'
    <2>1. ptr[r] \in 1 .. MaxEpoch
      BY <1>0, <1>14 DEF TypeOK, Tighten, BridgeInv, HoldPhases
    <2>2. PICK k \in RefIds : Push(r, k)
      BY <1>14 DEF Tighten
    <2>3. refs' \in [Readers -> [RefIds -> 0 .. MaxEpoch]]
      BY <1>0, <2>1, <2>2 DEF TypeOK, Push
    <2>4. stacked' \in [Readers -> SUBSET RefIds]
      BY <1>0, <2>2 DEF TypeOK, Push
    <2>5. ofloor' \in [Readers -> 1 .. Idle]
      <3>1. ptr[r] \in 1 .. Idle
        BY <2>1, BridgedAssumption DEF Idle
      <3>. QED BY <1>0, <2>2, <3>1 DEF TypeOK, Push
    <2>6. slot' \in [Slots -> 1 .. Idle]
      BY <1>0, <1>a, <1>14 DEF TypeOK, Tighten
    <2>7. rpc' \in [Readers -> {"none", "idle", "pinned", "loaded", "empty", "panicked"}]
          /\ ptr' \in [Readers -> 0 .. MaxEpoch]
      BY <1>0, <1>14, BridgedAssumption DEF TypeOK, Tighten
    <2>. QED BY <1>0, <1>14, <2>3, <2>4, <2>5, <2>6, <2>7 DEF TypeOK, Tighten, cell, wvars
  <1>15. ASSUME NEW r \in Readers, DropRef(r) PROVE TypeOK'
    <2>1. PICK k \in RefIds : RemoveRef(r, k)
      BY <1>15 DEF DropRef
    <2>2. refs' \in [Readers -> [RefIds -> 0 .. MaxEpoch]]
      BY <1>0, <2>1, BridgedAssumption DEF TypeOK, RemoveRef
    <2>3. stacked' \in [Readers -> SUBSET RefIds]
      BY <1>0, <2>1 DEF TypeOK, RemoveRef
    <2>4. ofloor' \in [Readers -> 1 .. Idle]
      BY <1>0, <2>1 DEF TypeOK, RemoveRef
    <2>5. slot' \in [Slots -> 1 .. Idle]
      BY <1>0, <1>a, <1>15 DEF TypeOK, DropRef
    <2>. QED BY <1>0, <1>15, <2>2, <2>3, <2>4, <2>5 DEF TypeOK, DropRef, cell, wvars
  <1>16. ASSUME NEW r \in Readers, DropHandle(r) PROVE TypeOK'
    <2>1. slot' \in [Slots -> 1 .. Idle]
      BY <1>0, <1>16 DEF TypeOK, DropHandle
    <2>2. rpc' \in [Readers -> {"none", "idle", "pinned", "loaded", "empty", "panicked"}]
          /\ mine' \in [Readers -> Slots \union {NoSlot}]
      BY <1>0, <1>16 DEF TypeOK, DropHandle
    <2>. QED BY <1>0, <1>16, <2>1, <2>2 DEF TypeOK, DropHandle, cell, wvars
  <1>17. CASE UNCHANGED vars
    BY <1>0, <1>17 DEF TypeOK, vars, cell, wvars, reg, rvars
  <1>. QED BY <1>1, <1>2, <1>3, <1>4, <1>5, <1>6, <1>7, <1>8, <1>9, <1>10, <1>11, <1>12,
              <1>13, <1>14, <1>15, <1>16, <1>17 DEF Next, Writer, Reader

-----------------------------------------------------------------------------
(* The writer's books *)

\* What a reader's step leaves alone.
LEMMA ReaderFrame ==
    ASSUME NEW r \in Readers, Reader(r)
    PROVE  UNCHANGED <<cell, wvars>>
  BY DEF Reader, Acquire, PrePublish, LoadHead, ReadEmpty, Tighten, DropRef, DropHandle

\* What the writer's step leaves alone.
LEMMA WriterFrame ==
    ASSUME Writer
    PROVE  UNCHANGED <<reg, rvars>>
  BY DEF Writer, Write, Extend, WriteLazy, LevelB, ScanSlot, LevelA, Reclaim,
         ReclaimIfWatermark, Sweep, wvars

\* Every step of the writer moves a block from one list to one other, or frees
\* a block that is in one list only.
LEMMA AccountStep ==
    ASSUME BridgeInv, [Next]_vars
    PROVE  BlocksAccounted' /\ BlocksOlder'
  <1>. USE DEF BlocksAccounted, BlocksOlder, Scanning
  <1>0. TypeOK /\ BlocksAccounted /\ BlocksOlder
    BY DEF BridgeInv, BlocksAreSafe
  <1>a. head \in Nat /\ old \in Nat /\ \A e \in retired \union behind : e \in Nat /\ e # 0
    BY <1>0, BridgedAssumption DEF TypeOK, Epochs
  <1>1. CASE Write
    <2>1. PICK e \in Epochs : e > head /\ head' = e /\ heap' = heap \union {e} /\ wpc = "idle"
      BY <1>1 DEF Write, Publish
    <2>2. e \in Nat /\ e # 0
      BY BridgedAssumption DEF Epochs
    <2>. QED BY <1>0, <1>a, <1>1, <2>1, <2>2 DEF Write
  <1>2. CASE Extend
    BY <1>0, <1>a, <1>2 DEF Extend, Publish, wvars
  <1>3. CASE WriteLazy
    <2>1. CASE head = 0
      BY <1>0, <1>a, <1>3, <2>1 DEF WriteLazy, Publish
    <2>2. CASE head # 0
      BY <1>0, <1>a, <1>3, <2>2 DEF WriteLazy, Publish
    <2>. QED BY <2>1, <2>2
  <1>4. CASE LevelB
    <2>1. CASE anyEver
      BY <1>0, <1>a, <1>4, <2>1 DEF LevelB
    <2>2. CASE ~anyEver
      BY <1>0, <1>a, <1>4, <2>2 DEF LevelB
    <2>. QED BY <2>1, <2>2
  <1>5. CASE ScanSlot
    BY <1>0, <1>5 DEF ScanSlot, cell
  <1>6. CASE LevelA
    <2>1. CASE fm > old
      BY <1>0, <1>a, <1>6, <2>1 DEF LevelA
    <2>2. CASE ~(fm > old)
      BY <1>0, <1>a, <1>6, <2>2 DEF LevelA
    <2>. QED BY <2>1, <2>2
  <1>7. CASE Reclaim
    BY <1>0, <1>7 DEF Reclaim, cell
  <1>8. CASE ReclaimIfWatermark
    BY <1>0, <1>8 DEF ReclaimIfWatermark, cell
  <1>9. CASE Sweep
    <2>1. Freeable \subseteq retired /\ head' = head /\ behind' = behind /\ old' = old
          /\ heap' = heap \ Freeable /\ retired' = retired \ Freeable /\ wpc' = "idle"
          /\ wpc \notin {"levelA", "levelB"} /\ wi' = 0
      BY <1>9 DEF Sweep, Freeable
    <2>2. BlocksAccounted'
      BY <1>0, <1>a, <2>1
    <2>. QED BY <1>0, <1>a, <2>1, <2>2
  <1>10. CASE UNCHANGED <<cell, wvars>>
    BY <1>0, <1>10 DEF cell, wvars
  <1>11. UNCHANGED vars => UNCHANGED <<cell, wvars>>
    BY DEF vars
  <1>. QED BY <1>1, <1>2, <1>3, <1>4, <1>5, <1>6, <1>7, <1>8, <1>9, <1>10, <1>11, ReaderFrame
           DEF Next, Writer

-----------------------------------------------------------------------------
(* The readers' books *)

\* A registry slot is handed out once.
LEMMA OwnedStep ==
    ASSUME BridgeInv, [Next]_vars
    PROVE  SlotsOwned'
  <1>0. TypeOK /\ SlotsOwned
    BY DEF BridgeInv, BlocksAreSafe
  <1>1. CASE UNCHANGED <<reg, rvars>>
    BY <1>0, <1>1 DEF SlotsOwned, reg, rvars
  <1>2. ASSUME NEW r \in Readers, Acquire(r) PROVE SlotsOwned'
    <2>1. CASE next < MaxReaders
      <3>1. next # NoSlot /\ next' = next + 1 /\ next \in Nat /\ anyEver' = TRUE
        BY <1>0, <1>2, <2>1, BridgedAssumption DEF TypeOK, Acquire, NoSlot
      <3>2. \A q \in Readers : mine'[q] = IF q = r THEN next ELSE mine[q]
        BY <1>0, <1>2, <2>1 DEF TypeOK, Acquire
      <3>3. \A q \in Readers : rpc'[q] = IF q = r THEN "idle" ELSE rpc[q]
        BY <1>0, <1>2, <2>1 DEF TypeOK, Acquire
      <3>4. \A q \in Readers : mine[q] # NoSlot => mine[q] \in Nat /\ mine[q] < next
        BY <1>0, BridgedAssumption DEF TypeOK, SlotsOwned, Slots
      <3>. QED BY <1>0, <3>1, <3>2, <3>3, <3>4 DEF SlotsOwned, NoSlot
    <2>2. CASE ~(next < MaxReaders)
      <3>1. \A q \in Readers : rpc'[q] = IF q = r THEN "panicked" ELSE rpc[q]
        BY <1>0, <1>2, <2>2 DEF TypeOK, Acquire
      <3>2. rpc[r] = "none" /\ mine' = mine /\ next' = next /\ anyEver' = anyEver
        BY <1>2, <2>2 DEF Acquire
      <3>. QED BY <1>0, <3>1, <3>2 DEF SlotsOwned, NoSlot
    <2>. QED BY <2>1, <2>2
  <1>3. ASSUME NEW r \in Readers, UNCHANGED <<mine, next, anyEver>>,
               rpc[r] \notin {"none", "panicked"}, rpc'[r] \notin {"none", "panicked"},
               \A q \in Readers : q # r => rpc'[q] = rpc[q]
        PROVE  SlotsOwned'
    BY <1>0, <1>3 DEF SlotsOwned, NoSlot
  <1>4. ASSUME NEW r \in Readers, PrePublish(r) \/ LoadHead(r) \/ ReadEmpty(r) \/ Tighten(r)
        PROVE  SlotsOwned'
    <2>1. UNCHANGED <<mine, next, anyEver>> /\ rpc[r] \notin {"none", "panicked"}
      BY <1>4 DEF PrePublish, LoadHead, ReadEmpty, Tighten, reg
    <2>2. rpc'[r] \notin {"none", "panicked"} /\ \A q \in Readers : q # r => rpc'[q] = rpc[q]
      BY <1>0, <1>4 DEF TypeOK, PrePublish, LoadHead, ReadEmpty, Tighten
    <2>. QED BY <1>3, <2>1, <2>2
  <1>5. ASSUME NEW r \in Readers, DropRef(r) PROVE SlotsOwned'
    BY <1>0, <1>5 DEF DropRef, SlotsOwned, NoSlot
  <1>6. ASSUME NEW r \in Readers, DropHandle(r) PROVE SlotsOwned'
    <2>1. \A q \in Readers : mine'[q] = IF q = r THEN NoSlot ELSE mine[q]
      BY <1>0, <1>6 DEF TypeOK, DropHandle
    <2>2. \A q \in Readers : rpc'[q] = IF q = r THEN "none" ELSE rpc[q]
      BY <1>0, <1>6 DEF TypeOK, DropHandle
    <2>3. next' = next /\ anyEver' = anyEver
      BY <1>6 DEF DropHandle
    <2>. QED BY <1>0, <2>1, <2>2, <2>3 DEF SlotsOwned, NoSlot
  <1>7. UNCHANGED vars => UNCHANGED <<reg, rvars>>
    BY DEF vars
  <1>. QED BY <1>1, <1>2, <1>4, <1>5, <1>6, <1>7, WriterFrame DEF Next, Reader

\* Tightening moves the loaded block into a free reference, with an entry or
\* under the overflow floor.
LEMMA TightenFacts ==
    ASSUME BridgeInv, NEW r \in Readers, Tighten(r)
    PROVE  /\ \E k \in RefIds : refs[r][k] = 0 /\ refs' = [refs EXCEPT ![r][k] = ptr[r]]
           /\ \A k \in stacked'[r] : refs'[r][k] # 0
           /\ \A k \in RefIds \ stacked'[r] : refs'[r][k] # 0 => ofloor'[r] <= refs'[r][k]
           /\ \A q \in Readers : q # r => refs'[q] = refs[q] /\ stacked'[q] = stacked[q]
                                           /\ ofloor'[q] = ofloor[q]
  <1>0. TypeOK /\ StackCovers
    BY DEF BridgeInv, BlocksAreSafe
  <1>1. PICK k \in RefIds : refs[r][k] = 0 /\ Push(r, k)
    BY DEF Tighten
  <1>2. ptr[r] \in Nat /\ ptr[r] # 0
    BY <1>0 DEF TypeOK, Tighten, BridgeInv, HoldPhases
  <1>3. refs' = [refs EXCEPT ![r][k] = ptr[r]]
    BY <1>1 DEF Push
  <1>4. \A q \in Readers : q # r => refs'[q] = refs[q] /\ stacked'[q] = stacked[q]
                                    /\ ofloor'[q] = ofloor[q]
    BY <1>0, <1>1 DEF TypeOK, Push
  <1>5. \A j \in RefIds : refs'[r][j] = IF j = k THEN ptr[r] ELSE refs[r][j]
    BY <1>0, <1>3 DEF TypeOK
  <1>6. CASE Cardinality(stacked[r]) < HoldDepth
    <2>1. stacked'[r] = stacked[r] \union {k} /\ ofloor'[r] = ofloor[r]
      BY <1>0, <1>1, <1>6 DEF TypeOK, Push
    <2>2. stacked[r] \subseteq RefIds
      BY <1>0 DEF TypeOK
    <2>3. \A j \in stacked'[r] : refs'[r][j] # 0
      BY <1>0, <1>2, <1>5, <2>1, <2>2 DEF StackCovers
    <2>4. \A j \in RefIds \ stacked'[r] : refs'[r][j] # 0 => ofloor'[r] <= refs'[r][j]
      BY <1>0, <1>5, <2>1 DEF StackCovers
    <2>. QED BY <1>1, <1>3, <1>4, <2>3, <2>4
  <1>7. CASE ~(Cardinality(stacked[r]) < HoldDepth)
    <2>1. stacked'[r] = stacked[r]
          /\ ofloor'[r] = IF ptr[r] < ofloor[r] THEN ptr[r] ELSE ofloor[r]
      BY <1>0, <1>1, <1>7 DEF TypeOK, Push
    <2>2. ofloor'[r] \in Int /\ ofloor'[r] <= ptr[r] /\ ofloor'[r] <= ofloor[r]
          /\ ofloor[r] \in Int
      BY <1>0, <1>2, <2>1, BridgedAssumption DEF TypeOK, Idle
    <2>3. \A j \in RefIds : refs[r][j] \in Int
      BY <1>0 DEF TypeOK
    <2>4. k \notin stacked[r] /\ stacked[r] \subseteq RefIds
      BY <1>0, <1>1 DEF StackCovers, TypeOK
    <2>5. \A j \in stacked'[r] : refs'[r][j] # 0
      BY <1>0, <1>5, <2>1, <2>4 DEF StackCovers
    <2>6. ASSUME NEW j \in RefIds \ stacked[r], refs'[r][j] # 0
          PROVE  ofloor'[r] <= refs'[r][j]
      <3>1. CASE j = k
        BY <1>5, <2>2, <3>1
      <3>2. CASE j # k
        <4>1. ofloor[r] <= refs[r][j] /\ refs'[r][j] = refs[r][j]
          BY <1>0, <1>5, <2>6, <3>2 DEF StackCovers
        <4>. QED BY <4>1, <2>2, <2>3
      <3>. QED BY <3>1, <3>2
    <2>. QED BY <1>1, <1>3, <1>4, <2>1, <2>5, <2>6
  <1>. QED BY <1>6, <1>7

\* Dropping a reference removes its entry, or keeps the overflow floor as long
\* as another reference has no entry.
LEMMA DropFacts ==
    ASSUME BridgeInv, NEW r \in Readers, DropRef(r)
    PROVE  /\ \E k \in RefIds : refs' = [refs EXCEPT ![r][k] = 0]
           /\ \A k \in stacked'[r] : refs'[r][k] # 0
           /\ \A k \in RefIds \ stacked'[r] : refs'[r][k] # 0 => ofloor'[r] <= refs'[r][k]
           /\ \A q \in Readers : q # r => refs'[q] = refs[q] /\ stacked'[q] = stacked[q]
                                           /\ ofloor'[q] = ofloor[q]
  <1>0. TypeOK /\ StackCovers
    BY DEF BridgeInv, BlocksAreSafe
  <1>1. PICK k \in RefIds : refs[r][k] # 0 /\ RemoveRef(r, k)
    BY DEF DropRef
  <1>3. refs' = [refs EXCEPT ![r][k] = 0]
    BY <1>1 DEF RemoveRef
  <1>4. \A q \in Readers : q # r => refs'[q] = refs[q] /\ stacked'[q] = stacked[q]
                                    /\ ofloor'[q] = ofloor[q]
    BY <1>0, <1>1 DEF TypeOK, RemoveRef
  <1>5. \A j \in RefIds : refs'[r][j] = IF j = k THEN 0 ELSE refs[r][j]
    BY <1>0, <1>3 DEF TypeOK
  <1>6. stacked'[r] = stacked[r] \ {k} /\ stacked[r] \subseteq RefIds
    BY <1>0, <1>1 DEF TypeOK, RemoveRef
  <1>7. \A j \in stacked'[r] : refs'[r][j] # 0
    BY <1>0, <1>5, <1>6 DEF StackCovers
  <1>8. ASSUME NEW j \in RefIds \ stacked'[r], refs'[r][j] # 0
        PROVE  ofloor'[r] <= refs'[r][j]
    <2>1. j # k /\ j \notin stacked[r] /\ refs'[r][j] = refs[r][j]
      BY <1>5, <1>6, <1>8
    <2>2. ofloor[r] <= refs[r][j]
      BY <1>0, <1>8, <2>1 DEF StackCovers
    <2>3. ofloor'[r] = ofloor[r]
      BY <1>0, <1>1, <1>8, <2>1 DEF TypeOK, RemoveRef
    <2>. QED BY <2>1, <2>2, <2>3
  <1>. QED BY <1>3, <1>4, <1>7, <1>8

\* HoldStack stays exact through read_ref, ReadRef::drop and the overflow path:
\* entries are live references and the overflow floor covers the rest.
LEMMA StackStep ==
    ASSUME BridgeInv, [Next]_vars
    PROVE  StackCovers'
  <1>0. StackCovers
    BY DEF BridgeInv
  <1>1. CASE UNCHANGED <<refs, stacked, ofloor>>
    BY <1>0, <1>1 DEF StackCovers
  <1>2. ASSUME NEW r \in Readers, Tighten(r) PROVE StackCovers'
    BY <1>0, <1>2, TightenFacts DEF StackCovers
  <1>3. ASSUME NEW r \in Readers, DropRef(r) PROVE StackCovers'
    BY <1>0, <1>3, DropFacts DEF StackCovers
  <1>4. ASSUME NEW r \in Readers,
               Acquire(r) \/ PrePublish(r) \/ LoadHead(r) \/ ReadEmpty(r) \/ DropHandle(r)
        PROVE  UNCHANGED <<refs, stacked, ofloor>>
    BY <1>4 DEF Acquire, PrePublish, LoadHead, ReadEmpty, DropHandle
  <1>5. UNCHANGED vars \/ Writer => UNCHANGED <<refs, stacked, ofloor>>
    BY WriterFrame DEF vars, rvars
  <1>. QED BY <1>1, <1>2, <1>3, <1>4, <1>5 DEF Next, Reader

\* A reader's step adds nothing to what it holds but the head.
LEMMA HeldStep ==
    ASSUME BridgeInv, NEW r \in Readers, Reader(r), NEW q \in Readers
    PROVE  /\ Held(q)' \subseteq Held(q) \union ({head} \ {0})
           /\ q # r => Held(q)' = Held(q) /\ rpc'[q] = rpc[q] /\ mine'[q] = mine[q]
                       /\ ptr'[q] = ptr[q] /\ refs'[q] = refs[q]
  <1>0. TypeOK
    BY DEF BridgeInv, BlocksAreSafe
  <1>1. CASE Acquire(r) \/ PrePublish(r) \/ ReadEmpty(r) \/ DropHandle(r)
    <2>1. UNCHANGED <<ptr, refs>>
      BY <1>1 DEF Acquire, PrePublish, ReadEmpty, DropHandle
    <2>2. q # r => rpc'[q] = rpc[q] /\ mine'[q] = mine[q]
      BY <1>0, <1>1 DEF TypeOK, Acquire, PrePublish, ReadEmpty, DropHandle
    <2>. QED BY <2>1, <2>2 DEF Held
  <1>2. CASE LoadHead(r)
    <2>1. refs' = refs /\ mine' = mine
      BY <1>2 DEF LoadHead
    <2>2. ptr'[q] = IF q = r THEN head ELSE ptr[q]
      BY <1>0, <1>2 DEF TypeOK, LoadHead
    <2>3. q # r => rpc'[q] = rpc[q]
      BY <1>0, <1>2 DEF TypeOK, LoadHead
    <2>. QED BY <2>1, <2>2, <2>3 DEF Held
  <1>3. CASE Tighten(r)
    <2>1. PICK k \in RefIds : refs' = [refs EXCEPT ![r][k] = ptr[r]]
      BY <1>3, TightenFacts
    <2>2. ptr'[q] = IF q = r THEN 0 ELSE ptr[q]
      BY <1>0, <1>3 DEF TypeOK, Tighten
    <2>3. \A j \in RefIds : refs'[r][j] = IF j = k THEN ptr[r] ELSE refs[r][j]
      BY <1>0, <2>1 DEF TypeOK
    <2>4. q # r => refs'[q] = refs[q]
      BY <1>0, <2>1 DEF TypeOK
    <2>5. q # r => rpc'[q] = rpc[q] /\ mine'[q] = mine[q]
      BY <1>0, <1>3 DEF TypeOK, Tighten
    <2>6. CASE q = r
      BY <2>2, <2>3, <2>6 DEF Held
    <2>7. CASE q # r
      BY <2>2, <2>4, <2>5, <2>7 DEF Held
    <2>. QED BY <2>6, <2>7
  <1>4. CASE DropRef(r)
    <2>1. PICK k \in RefIds : refs' = [refs EXCEPT ![r][k] = 0]
      BY <1>4, DropFacts
    <2>2. ptr' = ptr /\ rpc' = rpc /\ mine' = mine
      BY <1>4 DEF DropRef
    <2>3. \A j \in RefIds : refs'[r][j] = IF j = k THEN 0 ELSE refs[r][j]
      BY <1>0, <2>1 DEF TypeOK
    <2>4. q # r => refs'[q] = refs[q]
      BY <1>0, <2>1 DEF TypeOK
    <2>5. CASE q = r
      BY <2>2, <2>3, <2>5 DEF Held
    <2>6. CASE q # r
      BY <2>2, <2>4, <2>6 DEF Held
    <2>. QED BY <2>5, <2>6
  <1>. QED BY <1>1, <1>2, <1>3, <1>4 DEF Reader

\* A reader writes no slot but its own.
LEMMA SlotStep ==
    ASSUME BridgeInv, NEW r \in Readers, Reader(r), NEW s \in Slots, s # mine[r]
    PROVE  slot'[s] = slot[s]
  <1>0. slot \in [Slots -> 1 .. Idle]
    BY DEF BridgeInv, BlocksAreSafe, TypeOK
  <1>. QED BY <1>0 DEF Reader, Acquire, PrePublish, LoadHead, ReadEmpty, Tighten, DropRef,
                       DropHandle, reg

\* Before the first write there is no block at all.
LEMMA NoHeadNoBlock ==
    ASSUME BridgeInv, head = 0
    PROVE  heap = {}
  <1>1. \A e \in retired \union behind : e \in Nat /\ e < 0
    BY BridgedAssumption DEF BridgeInv, BlocksAreSafe, TypeOK, BlocksOlder, Epochs
  <1>2. retired = {} /\ behind = {}
    BY <1>1
  <1>3. old = 0
    BY BridgedAssumption DEF BridgeInv, BlocksAreSafe, TypeOK, BlocksOlder
  <1>. QED BY <1>2, <1>3 DEF BridgeInv, BlocksAreSafe, BlocksAccounted

\* read_ref and ReadRef::drop keep a reader's position in step with what it
\* holds: floor 1 from the pin until the reference is tracked.
LEMMA PhaseStep ==
    ASSUME BridgeInv, [Next]_vars
    PROVE  HoldPhases'
  <1>0. TypeOK /\ HoldPhases /\ SlotsOwned
    BY DEF BridgeInv, BlocksAreSafe
  <1>1. CASE UNCHANGED <<reg, rvars>>
    BY <1>0, <1>1 DEF HoldPhases, reg, rvars
  <1>2. ASSUME NEW r \in Readers, Reader(r),
               ptr'[r] # 0 <=> rpc'[r] = "loaded",
               rpc'[r] \in {"none", "panicked", "empty"} => \A k \in RefIds : refs'[r][k] = 0,
               rpc'[r] \in {"pinned", "loaded", "empty"} => slot'[mine'[r]] = 1
        PROVE  HoldPhases'
    <2>1. ASSUME NEW q \in Readers, q # r
          PROVE  /\ ptr'[q] # 0 <=> rpc'[q] = "loaded"
                 /\ rpc'[q] \in {"none", "panicked", "empty"} => \A k \in RefIds : refs'[q][k] = 0
                 /\ rpc'[q] \in {"pinned", "loaded", "empty"} => slot'[mine'[q]] = 1
      <3>1. rpc'[q] = rpc[q] /\ mine'[q] = mine[q] /\ ptr'[q] = ptr[q] /\ refs'[q] = refs[q]
        BY <1>2, <2>1, HeldStep
      <3>2. rpc[q] \in {"pinned", "loaded", "empty"} => slot'[mine[q]] = slot[mine[q]]
        <4>1. SUFFICES ASSUME rpc[q] \in {"pinned", "loaded", "empty"}
                       PROVE  slot'[mine[q]] = slot[mine[q]]
          OBVIOUS
        <4>2. mine[q] \in Slots /\ mine[q] # NoSlot
          BY <4>1, OwnsSlot
        <4>3. mine[q] # mine[r]
          BY <1>0, <2>1, <4>2 DEF SlotsOwned
        <4>. QED BY <1>2, <4>2, <4>3, SlotStep
      <3>. QED BY <1>0, <3>1, <3>2 DEF HoldPhases
    <2>. QED BY <1>2, <2>1 DEF HoldPhases
  <1>3. ASSUME NEW r \in Readers, Acquire(r) PROVE HoldPhases'
    <2>1. rpc'[r] \in {"idle", "panicked"} /\ ptr' = ptr /\ refs' = refs
      BY <1>0, <1>3 DEF TypeOK, Acquire
    <2>2. ptr[r] = 0 /\ \A k \in RefIds : refs[r][k] = 0
      BY <1>0, <1>3 DEF Acquire, HoldPhases
    <2>. QED BY <1>2, <1>3, <2>1, <2>2 DEF Reader
  <1>4. ASSUME NEW r \in Readers, PrePublish(r) PROVE HoldPhases'
    <2>1. rpc'[r] = "pinned" /\ ptr' = ptr /\ mine' = mine
      BY <1>0, <1>4 DEF TypeOK, PrePublish
    <2>2. ptr[r] = 0 /\ rpc[r] = "idle"
      BY <1>0, <1>4 DEF PrePublish, HoldPhases
    <2>3. slot'[mine[r]] = 1
      BY <1>0, <1>4, <2>2, OwnsSlot DEF PrePublish, TypeOK
    <2>. QED BY <1>2, <1>4, <2>1, <2>2, <2>3 DEF Reader
  <1>5. ASSUME NEW r \in Readers, LoadHead(r) PROVE HoldPhases'
    <2>1. rpc'[r] = (IF head = 0 THEN "empty" ELSE "loaded") /\ ptr'[r] = head
          /\ UNCHANGED <<mine, refs, slot>>
      BY <1>0, <1>5 DEF TypeOK, LoadHead, reg
    <2>2. slot[mine[r]] = 1
      BY <1>0, <1>5 DEF LoadHead, HoldPhases
    <2>3. head = 0 => \A k \in RefIds : refs[r][k] = 0
      BY NoHeadNoBlock DEF BridgeInv, BlocksAreSafe, NoUseAfterFree, Held
    <2>. QED BY <1>2, <1>5, <2>1, <2>2, <2>3 DEF Reader
  <1>6. ASSUME NEW r \in Readers, ReadEmpty(r) PROVE HoldPhases'
    <2>1. rpc'[r] = "idle" /\ ptr' = ptr
      BY <1>0, <1>6 DEF TypeOK, ReadEmpty
    <2>2. ptr[r] = 0
      BY <1>0, <1>6 DEF ReadEmpty, HoldPhases
    <2>. QED BY <1>2, <1>6, <2>1, <2>2 DEF Reader
  <1>7. ASSUME NEW r \in Readers, Tighten(r) PROVE HoldPhases'
    <2>1. rpc'[r] = "idle" /\ ptr'[r] = 0
      BY <1>0, <1>7 DEF TypeOK, Tighten
    <2>. QED BY <1>2, <1>7, <2>1 DEF Reader
  <1>8. ASSUME NEW r \in Readers, DropRef(r) PROVE HoldPhases'
    <2>1. rpc'[r] = "idle" /\ ptr'[r] = 0
      BY <1>0, <1>8 DEF DropRef, HoldPhases
    <2>. QED BY <1>2, <1>8, <2>1 DEF Reader
  <1>9. ASSUME NEW r \in Readers, DropHandle(r) PROVE HoldPhases'
    <2>1. rpc'[r] = "none" /\ ptr' = ptr /\ refs' = refs
      BY <1>0, <1>9 DEF TypeOK, DropHandle
    <2>2. ptr[r] = 0 /\ \A k \in RefIds : refs[r][k] = 0
      BY <1>0, <1>9 DEF DropHandle, HoldPhases
    <2>. QED BY <1>2, <1>9, <2>1, <2>2 DEF Reader
  <1>10. UNCHANGED vars => UNCHANGED <<reg, rvars>>
    BY DEF vars
  <1>. QED BY <1>1, <1>3, <1>4, <1>5, <1>6, <1>7, <1>8, <1>9, <1>10, WriterFrame DEF Next, Reader

-----------------------------------------------------------------------------
(* Safety *)

\* Floors stay honest: the slot a thread writes is the floor of its stack, and
\* other threads' slots are not touched.
LEMMA FloorStep ==
    ASSUME BridgeInv, [Next]_vars
    PROVE  FloorIsHonest'
  <1>0. TypeOK /\ FloorIsHonest /\ SlotsOwned /\ HoldPhases
    BY DEF BridgeInv, BlocksAreSafe
  <1>1. CASE UNCHANGED <<reg, rvars>>
    BY <1>0, <1>1 DEF FloorIsHonest, Held, reg, rvars
  <1>2. ASSUME NEW r \in Readers, Reader(r),
               rpc'[r] = "idle" => /\ \A e \in Held(r)' : slot'[mine'[r]] <= e
                                   /\ Held(r)' = {} => slot'[mine'[r]] = Idle,
               \A s \in Slots : slot'[s] # Idle => \E q \in Readers : mine'[q] = s
        PROVE  FloorIsHonest'
    <2>1. ASSUME NEW q \in Readers, q # r, rpc'[q] = "idle"
          PROVE  /\ \A e \in Held(q)' : slot'[mine'[q]] <= e
                 /\ Held(q)' = {} => slot'[mine'[q]] = Idle
      <3>1. rpc[q] = "idle" /\ mine'[q] = mine[q] /\ Held(q)' = Held(q)
        BY <1>2, <2>1, HeldStep
      <3>2. mine[q] \in Slots /\ mine[q] # NoSlot
        BY <3>1, OwnsSlot
      <3>3. mine[q] # mine[r]
        BY <1>0, <2>1, <3>2 DEF SlotsOwned
      <3>4. slot'[mine[q]] = slot[mine[q]]
        BY <1>2, <3>2, <3>3, SlotStep
      <3>. QED BY <1>0, <3>1, <3>4 DEF FloorIsHonest
    <2>. QED BY <1>2, <2>1 DEF FloorIsHonest
  <1>3. ASSUME NEW r \in Readers, Reader(r), mine' = mine, rpc[r] \notin {"none", "panicked"}
        PROVE  \A s \in Slots : slot'[s] # Idle => \E q \in Readers : mine'[q] = s
    BY <1>0, <1>3, SlotStep DEF FloorIsHonest
  <1>4. ASSUME NEW r \in Readers, Acquire(r) PROVE FloorIsHonest'
    <2>1. slot' = slot /\ rpc[r] = "none"
      BY <1>4 DEF Acquire
    <2>2. mine[r] = NoSlot
      BY <1>0, <2>1 DEF SlotsOwned
    <2>3. \A s \in Slots : slot[s] # Idle => \E q \in Readers : q # r /\ mine[q] = s
      BY <1>0, <2>2, BridgedAssumption DEF FloorIsHonest, Slots, NoSlot
    <2>4. \A s \in Slots : slot[s] # Idle => \E q \in Readers : mine'[q] = s
      BY <1>4, <2>3, HeldStep DEF Reader
    <2>5. rpc'[r] = "idle" => mine'[r] = next /\ next \in Slots
      BY <1>0, <1>4, BridgedAssumption DEF TypeOK, Acquire, Slots
    <2>6. next \in Slots => slot[next] = Idle
      <3>1. \A q \in Readers : mine[q] = next => mine[q] = NoSlot
        BY <1>0, BridgedAssumption DEF TypeOK, SlotsOwned
      <3>. QED BY <1>0, <3>1, BridgedAssumption DEF FloorIsHonest, Slots, NoSlot
    <2>7. Held(r)' = {}
      <3>1. ptr' = ptr /\ refs' = refs
        BY <1>4 DEF Acquire
      <3>. QED BY <2>2, <3>1, NoHandleNoHold DEF Held
    <2>. QED BY <1>2, <1>4, <2>1, <2>4, <2>5, <2>6, <2>7 DEF Reader
  <1>5. ASSUME NEW r \in Readers, PrePublish(r) \/ LoadHead(r) PROVE FloorIsHonest'
    <2>1. rpc'[r] # "idle" /\ mine' = mine /\ rpc[r] \notin {"none", "panicked"}
      BY <1>0, <1>5 DEF TypeOK, PrePublish, LoadHead
    <2>2. Reader(r)
      BY <1>5 DEF Reader
    <2>. QED BY <1>2, <1>3, <2>1, <2>2
  <1>6. ASSUME NEW r \in Readers, ReadEmpty(r) PROVE FloorIsHonest'
    <2>1. mine' = mine /\ rpc[r] = "empty" /\ ptr' = ptr /\ refs' = refs
      BY <1>6 DEF ReadEmpty
    <2>2. slot'[mine[r]] = Idle
      BY <1>0, <1>6, <2>1, OwnsSlot DEF TypeOK, ReadEmpty
    <2>3. Held(r)' = {}
      BY <1>0, <2>1 DEF Held, HoldPhases
    <2>4. Reader(r)
      BY <1>6 DEF Reader
    <2>. QED BY <1>2, <1>3, <2>1, <2>2, <2>3, <2>4
  <1>7. ASSUME NEW r \in Readers, Tighten(r) \/ DropRef(r) PROVE FloorIsHonest'
    <2>1. PICK f \in Epochs \union {Idle} :
            IsFloor(f, refs'[r], stacked'[r], ofloor'[r]) /\ slot' = [slot EXCEPT ![mine[r]] = f]
      BY <1>7 DEF Tighten, DropRef
    <2>2. mine' = mine /\ rpc[r] \in {"idle", "loaded"}
      BY <1>7 DEF Tighten, DropRef
    <2>3. slot'[mine[r]] = f
      BY <1>0, <2>1, <2>2, OwnsSlot DEF TypeOK
    <2>4. ptr'[r] = 0
      BY <1>0, <1>7 DEF TypeOK, Tighten, DropRef, HoldPhases
    <2>5. refs'[r] \in [RefIds -> 0 .. MaxEpoch] /\ stacked'[r] \in SUBSET RefIds
          /\ ofloor'[r] \in 1 .. Idle
      BY TypeStep DEF TypeOK
    <2>6. (\A k \in stacked'[r] : refs'[r][k] # 0)
          /\ (\A k \in RefIds \ stacked'[r] : refs'[r][k] # 0 => ofloor'[r] <= refs'[r][k])
      BY <1>7, TightenFacts, DropFacts
    <2>7. /\ \A k \in RefIds : refs'[r][k] # 0 => f <= refs'[r][k]
          /\ (\A k \in RefIds : refs'[r][k] = 0) => f = Idle
      BY <2>1, <2>5, <2>6, FloorOfStack
    <2>8. (\A e \in Held(r)' : f <= e) /\ (Held(r)' = {} => f = Idle)
      BY <2>4, <2>7 DEF Held
    <2>9. Reader(r)
      BY <1>7 DEF Reader
    <2>. QED BY <1>2, <1>3, <2>2, <2>3, <2>8, <2>9
  <1>8. ASSUME NEW r \in Readers, DropHandle(r) PROVE FloorIsHonest'
    <2>1. rpc'[r] = "none" /\ rpc[r] = "idle"
      BY <1>0, <1>8 DEF TypeOK, DropHandle
    <2>2. slot'[mine[r]] = Idle
      BY <1>0, <1>8, <2>1, OwnsSlot DEF TypeOK, DropHandle
    <2>3. ASSUME NEW s \in Slots, slot'[s] # Idle PROVE \E q \in Readers : mine'[q] = s
      <3>1. s # mine[r]
        BY <2>2, <2>3
      <3>2. slot'[s] = slot[s]
        BY <1>8, <3>1, SlotStep DEF Reader
      <3>3. PICK q \in Readers : mine[q] = s
        BY <1>0, <2>3, <3>2 DEF FloorIsHonest
      <3>4. mine'[q] = s
        BY <1>8, <3>1, <3>3, HeldStep DEF Reader
      <3>. QED BY <3>4
    <2>. QED BY <1>2, <1>8, <2>1, <2>3 DEF Reader
  <1>9. UNCHANGED vars => UNCHANGED <<reg, rvars>>
    BY DEF vars
  <1>. QED BY <1>1, <1>4, <1>5, <1>6, <1>7, <1>8, <1>9, WriterFrame DEF Next, Reader

\* The writer frees no block that a reader holds: without readers there is
\* nothing to hold, and after a scan the minimum covers what is held.
LEMMA UseStep ==
    ASSUME BridgeInv, [Next]_vars
    PROVE  NoUseAfterFree'
  <1>0. TypeOK /\ NoUseAfterFree /\ BlocksAccounted /\ BlocksOlder
    BY DEF BridgeInv, BlocksAreSafe
  <1>1. ASSUME UNCHANGED rvars, heap \subseteq heap' PROVE NoUseAfterFree'
    BY <1>0, <1>1 DEF NoUseAfterFree, Held, rvars
  <1>2. ASSUME Write \/ Extend \/ WriteLazy \/ ScanSlot \/ Reclaim \/ ReclaimIfWatermark
        PROVE  NoUseAfterFree'
    <2>1. heap \subseteq heap' /\ UNCHANGED rvars
      BY <1>2 DEF Write, Extend, WriteLazy, ScanSlot, Reclaim, ReclaimIfWatermark, Publish, cell
    <2>. QED BY <1>1, <2>1
  <1>3. CASE LevelB
    <2>1. CASE anyEver
      BY <1>1, <1>3, <2>1 DEF LevelB
    <2>2. CASE ~anyEver
      <3>1. \A r \in Readers : mine[r] = NoSlot
        BY <2>2 DEF BridgeInv, SlotsOwned
      <3>2. \A r \in Readers : Held(r) = {}
        BY <3>1, NoHandleNoHold
      <3>. QED BY <1>3, <3>2 DEF LevelB, NoUseAfterFree, Held, rvars
    <2>. QED BY <2>1, <2>2
  <1>4. CASE LevelA
    <2>1. CASE fm > old
      <3>1. ASSUME NEW r \in Readers, NEW e \in Held(r) PROVE e # old
        <4>1. e = head \/ fm <= e
          BY <1>4, ScanComplete DEF LevelA, Scanning
        <4>2. old # head
          BY <1>0, <1>4, BridgedAssumption DEF LevelA, BlocksOlder, TypeOK
        <4>3. old \in Nat /\ fm \in Nat
          BY <1>0, BridgedAssumption DEF TypeOK, Idle
        <4>. QED BY <2>1, <4>1, <4>2, <4>3
      <3>2. heap' = heap \ {old} /\ UNCHANGED rvars
        BY <1>4, <2>1 DEF LevelA
      <3>. QED BY <1>0, <3>1, <3>2 DEF NoUseAfterFree, Held, rvars
    <2>2. CASE ~(fm > old)
      BY <1>1, <1>4, <2>2 DEF LevelA
    <2>. QED BY <2>1, <2>2
  <1>5. CASE Sweep
    <2>1. ASSUME NEW r \in Readers, NEW e \in Held(r) PROVE e \notin Freeable
      <3>1. e = head \/ fm <= e
        BY <1>5, ScanComplete DEF Sweep, Scanning
      <3>2. \A d \in Freeable : d \in Nat /\ d < fm /\ d < head /\ head \in Nat /\ fm \in Nat
        BY <1>0, BridgedAssumption DEF Freeable, TypeOK, BlocksOlder, Epochs, Idle
      <3>. QED BY <3>1, <3>2
    <2>2. heap' = heap \ Freeable /\ UNCHANGED rvars
      BY <1>5 DEF Sweep
    <2>. QED BY <1>0, <2>1, <2>2 DEF NoUseAfterFree, Held, rvars
  <1>6. ASSUME NEW r \in Readers, Reader(r) PROVE NoUseAfterFree'
    <2>1. heap' = heap /\ {head} \ {0} \subseteq heap
      BY <1>0, <1>6, ReaderFrame DEF cell, BlocksAccounted
    <2>2. \A q \in Readers : Held(q)' \subseteq Held(q) \union ({head} \ {0})
      BY <1>6, HeldStep
    <2>. QED BY <1>0, <2>1, <2>2 DEF NoUseAfterFree
  <1>7. CASE UNCHANGED vars
    BY <1>1, <1>7 DEF vars, cell
  <1>. QED BY <1>2, <1>3, <1>4, <1>5, <1>6, <1>7 DEF Next, Writer

\* While floor_min runs, the head stands still and readers gain nothing but
\* the head, so what a loaded slot covered stays covered.
LEMMA ScanStep ==
    ASSUME BridgeInv, [Next]_vars
    PROVE  ScanCovers'
  <1>0. TypeOK /\ ScanCovers /\ BlocksOlder
    BY DEF BridgeInv, BlocksAreSafe
  <1>1. ASSUME ~Scanning, UNCHANGED rvars, UNCHANGED wi PROVE ScanCovers'
    <2>1. wi' = 0 /\ mine' = mine
      BY <1>0, <1>1 DEF BlocksOlder, rvars
    <2>2. \A r \in Readers : mine[r] \in Nat
      BY <1>0, BridgedAssumption DEF TypeOK, Slots, NoSlot
    <2>3. \A r \in Readers : ~(mine'[r] < wi')
      BY <2>1, <2>2
    <2>. QED BY <2>3 DEF ScanCovers
  <1>2. ASSUME Write \/ Extend \/ WriteLazy \/ LevelB \/ Reclaim \/ ReclaimIfWatermark
        PROVE  ScanCovers'
    <2>1. ~Scanning /\ UNCHANGED rvars /\ UNCHANGED wi
      BY <1>2 DEF Write, Extend, WriteLazy, LevelB, Reclaim, ReclaimIfWatermark, Publish,
                  Scanning, wvars, rvars
    <2>. QED BY <1>1, <2>1
  <1>3. CASE ScanSlot
    <2>1. wi \in Slots /\ wi' = wi + 1 /\ head' = head /\ UNCHANGED rvars /\ Scanning
      BY <1>0, <1>3, BridgedAssumption DEF TypeOK, ScanSlot, cell, Slots, Scanning
    <2>2. fm' <= fm /\ fm' <= slot[wi] /\ fm' \in Int /\ fm \in Int
      BY <1>0, <1>3, <2>1, BridgedAssumption DEF TypeOK, ScanSlot, Idle
    <2>3. ASSUME NEW r \in Readers, mine[r] < wi + 1, NEW e \in Held(r)
          PROVE  e = head \/ fm' <= e
      <3>1. e \in Int
        BY <1>0 DEF TypeOK, Held
      <3>2. mine[r] \in Int /\ wi \in Int /\ mine[r] # NoSlot
        BY <1>0, <2>1, <2>3, BridgedAssumption DEF TypeOK, Slots, NoSlot
      <3>3. CASE mine[r] = wi
        <4>1. slot[wi] <= e /\ slot[wi] \in Int
          BY <1>0, <2>1, <3>2, <3>3, FloorCoversHeld, BridgedAssumption DEF TypeOK, Idle
        <4>. QED BY <2>2, <3>1, <4>1
      <3>4. CASE mine[r] < wi
        <4>1. e = head \/ fm <= e
          BY <1>0, <2>1, <3>4 DEF ScanCovers
        <4>. QED BY <2>2, <3>1, <4>1
      <3>. QED BY <2>3, <3>2, <3>3, <3>4
    <2>. QED BY <2>1, <2>3 DEF ScanCovers, Held, rvars
  <1>4. CASE LevelA \/ Sweep
    BY <1>4 DEF LevelA, Sweep, ScanCovers, Scanning
  <1>5. ASSUME NEW r \in Readers, Reader(r) PROVE ScanCovers'
    <2>1. head' = head /\ wpc' = wpc /\ wi' = wi /\ fm' = fm
      BY <1>5, ReaderFrame DEF cell, wvars
    <2>2. ASSUME Scanning, NEW q \in Readers, mine'[q] < wi, NEW e \in Held(q)'
          PROVE  e = head \/ fm <= e
      <3>1. CASE mine'[q] = mine[q]
        <4>1. e \in Held(q) \/ e = head
          BY <1>5, <2>2, HeldStep
        <4>. QED BY <1>0, <2>2, <3>1, <4>1 DEF ScanCovers
      <3>2. CASE mine'[q] # mine[q]
        <4>1. q = r
          BY <1>5, <3>2, HeldStep
        <4>2. Acquire(r) \/ DropHandle(r)
          BY <1>5, <3>2 DEF Reader, PrePublish, LoadHead, ReadEmpty, Tighten, DropRef
        <4>3. ~DropHandle(r)
          <5>1. DropHandle(r) => mine'[r] = NoSlot
            BY <1>0 DEF TypeOK, DropHandle
          <5>. QED BY <1>0, <2>2, <4>1, <5>1, BridgedAssumption DEF TypeOK, NoSlot
        <4>4. mine[r] = NoSlot
          BY <4>2, <4>3 DEF Acquire, BridgeInv, SlotsOwned
        <4>5. Held(r)' = Held(r)
          BY <4>2, <4>3 DEF Acquire, Held
        <4>. QED BY <2>2, <4>1, <4>4, <4>5, NoHandleNoHold
      <3>. QED BY <3>1, <3>2
    <2>. QED BY <2>1, <2>2 DEF ScanCovers, Scanning
  <1>6. CASE UNCHANGED vars
    BY <1>0, <1>6 DEF ScanCovers, Scanning, Held, vars, cell, wvars, rvars
  <1>. QED BY <1>2, <1>3, <1>4, <1>5, <1>6 DEF Next, Writer

-----------------------------------------------------------------------------

\* A new cell, with no block, no registered reader and an idle writer, satisfies
\* the invariant.
LEMMA BridgeInit ==
    ASSUME Init
    PROVE  BridgeInv
  <1>. USE DEF Init
  <1>1. TypeOK
    <2>1. slot \in [Slots -> 1 .. Idle] /\ ofloor \in [Readers -> 1 .. Idle] /\ fm \in 1 .. Idle
      BY BridgedAssumption DEF Idle
    <2>2. mine \in [Readers -> Slots \union {NoSlot}] /\ ptr \in [Readers -> 0 .. MaxEpoch]
      BY BridgedAssumption
    <2>3. refs \in [Readers -> [RefIds -> 0 .. MaxEpoch]] /\ stacked \in [Readers -> SUBSET RefIds]
      BY BridgedAssumption
    <2>4. rpc \in [Readers -> {"none", "idle", "pinned", "loaded", "empty", "panicked"}]
      OBVIOUS
    <2>5. anyEver \in BOOLEAN /\ wpc \in {"idle", "levelB", "levelA", "sweep", "gated"}
      OBVIOUS
    <2>6. head \in 0 .. MaxEpoch /\ skip \in 0 .. BackoffCap /\ backoff \in 0 .. BackoffCap
          /\ old \in 0 .. MaxEpoch /\ wi \in 0 .. MaxReaders /\ next \in 0 .. MaxReaders
      BY BridgedAssumption
    <2>7. heap \subseteq Epochs /\ behind \subseteq Epochs /\ retired \subseteq Epochs
      OBVIOUS
    <2>. QED BY <2>1, <2>2, <2>3, <2>4, <2>5, <2>6, <2>7 DEF TypeOK
  <1>2. \A r \in Readers : Held(r) = {}
    BY DEF Held
  <1>3. NoUseAfterFree /\ FloorIsHonest
    BY <1>2 DEF NoUseAfterFree, FloorIsHonest
  <1>4. BlocksAccounted /\ BlocksOlder
    BY DEF BlocksAccounted, BlocksOlder
  <1>5. SlotsOwned /\ HoldPhases /\ StackCovers
    <2>1. SlotsOwned
      BY DEF SlotsOwned
    <2>2. HoldPhases
      BY DEF HoldPhases
    <2>3. StackCovers
      BY DEF StackCovers
    <2>. QED BY <2>1, <2>2, <2>3
  <1>6. ScanCovers
    BY DEF ScanCovers, Scanning
  <1>. QED BY <1>1, <1>3, <1>4, <1>5, <1>6 DEF BridgeInv, BlocksAreSafe

\* The invariant of the bridge layer is inductive.
THEOREM BridgeInvariant == Spec => []BridgeInv
  <1>1. Init => BridgeInv
    BY BridgeInit
  <1>2. BridgeInv /\ [Next]_vars => BridgeInv'
    BY TypeStep, AccountStep, OwnedStep, StackStep, PhaseStep, FloorStep, UseStep, ScanStep
       DEF BridgeInv, BlocksAreSafe
  <1>. QED BY <1>1, <1>2, PTL DEF Spec

\* The safety of read_ref, ReadRef::drop, write_lazy and reclaim for any number
\* of threads and blocks: nothing a reader holds is freed, floors are honest,
\* and no block is freed twice or lost.
THEOREM BlocksSafe == Spec => []BlocksAreSafe
  <1>1. BridgeInv => BlocksAreSafe
    BY DEF BridgeInv
  <1>. QED BY <1>1, BridgeInvariant, PTL

-----------------------------------------------------------------------------
(* The sharded interner *)

Asks == [text : Strings, from : Callers]
OwnerStates == [at : {"idle", "lookup", "write", "commit", "remember", "dead"},
                req : Asks \union {NoReq}, local : Nat]
CallerStates == [at : {"idle", "reply", "get"}, text : Strings \union {""}, handle : Nat, seen : Nat]

\* The inductive invariant of the interner, in named parts.
ShardTypes ==
    /\ requests \in [Shards -> Seq(Asks)] /\ shardOwner \in [Shards -> OwnerStates]
    /\ dedup \in [Shards -> Seq(Strings)] /\ slotOf \in [Shards -> Seq(Strings)]
    /\ blocks \in [Shards -> Nat] /\ committed \in [Shards -> Nat]
    /\ ipc \in [Callers -> CallerStates]

\* A shard is asked only for the strings that are its own.
Routed(s) ==
    /\ \A i \in 1 .. Len(requests[s]) : shard_for[requests[s][i].text] = s
    /\ shardOwner[s].at \notin {"idle", "dead"} =>
        shardOwner[s].req.text \in Strings /\ shard_for[shardOwner[s].req.text] = s

\* The owner is inserting a new string; it has written its slot.
Inserts(s) == shardOwner[s].at \in {"write", "commit", "remember"}
HasWritten(s) == shardOwner[s].at \in {"commit", "remember"}

\* The slots hold the inserted strings in order, each once, and then the one
\* being inserted; what is committed has been written.
StringsInOrder(s) ==
    /\ Len(dedup[s]) <= LocalMask
    /\ \A i \in 1 .. Len(dedup[s]) : shard_for[dedup[s][i]] = s /\ slotOf[s][i] = dedup[s][i]
    /\ \A i, j \in 1 .. Len(dedup[s]) : dedup[s][i] = dedup[s][j] => i = j
    /\ Inserts(s) =>
        /\ shardOwner[s].local = Len(dedup[s]) /\ Len(dedup[s]) < LocalMask
        /\ \A i \in 1 .. Len(dedup[s]) : dedup[s][i] # shardOwner[s].req.text
    /\ HasWritten(s) => slotOf[s][Len(dedup[s]) + 1] = shardOwner[s].req.text
    /\ Len(slotOf[s]) = (IF HasWritten(s) THEN Len(dedup[s]) + 1 ELSE Len(dedup[s]))
    /\ committed[s] = (IF shardOwner[s].at = "remember" THEN Len(dedup[s]) + 1 ELSE Len(dedup[s]))

\* There are just enough blocks for the slots.
HasBlocks(s) ==
    /\ (blocks[s] - 1) * BlockLen < Len(slotOf[s])
    /\ Len(slotOf[s]) <= blocks[s] * BlockLen

ShardIsSound(s) == Routed(s) /\ StringsInOrder(s) /\ HasBlocks(s)

\* The i-th string of shard s, its handle, and what a reader of it has seen.
HandleOf(s, i) == s * (LocalMask + 1) + i
Named(p) ==
    \/ p = <<"", 0>>
    \/ \E s \in Shards : \E i \in 1 .. Len(dedup[s]) : p = <<dedup[s][i], HandleOf(s, i)>>
Gets(c) ==
    ipc[c].at = "get" => \E s \in Shards, i \in 1 .. LocalMask :
        ipc[c].handle = HandleOf(s, i) /\ ipc[c].seen <= committed[s]
Got(r) ==
    \E s \in Shards, i \in 1 .. LocalMask :
        /\ r[1] = HandleOf(s, i)
        /\ r[2] = Invalid \/ (i <= committed[s] /\ r[2] = slotOf[s][i])

ShardInv ==
    /\ ShardTypes
    /\ \A s \in Shards : ShardIsSound(s)
    /\ \A p \in interned : Named(p)
    /\ \A c \in Callers : Gets(c)
    /\ \A r \in resolved : Got(r)

-----------------------------------------------------------------------------
(* Handles and blocks *)

\* The quotient and the rest of a sum that is written that way.
LEMMA QuotientIs ==
    ASSUME NEW n \in Nat \ {0}, NEW q \in Nat, NEW r \in 0 .. n - 1
    PROVE  (n * q + r) \div n = q /\ (n * q + r) % n = r
<1>1. PICK a \in Nat : a = n * q + r
    OBVIOUS
<1>2. PICK p \in Nat, t \in 0 .. n - 1 : p = a \div n /\ t = a % n /\ a = n * p + t
  <2>1. a \div n \in Nat /\ a % n \in 0 .. n - 1 /\ a = n * (a \div n) + (a % n)
    OBVIOUS
  <2>. QED
    BY <2>1
<1>3. n * q + r = n * p + t
    BY <1>1, <1>2
<1>4. q = p /\ r = t
    BY <1>3, DivisionIsUnique
<1>. QED
    BY <1>1, <1>2, <1>4

\* A handle gives back its shard and its local.
LEMMA HandleIs ==
    ASSUME NEW s \in Shards, NEW i \in 0 .. LocalMask
    PROVE  /\ HandleOf(s, i) \in Nat /\ ShardOf(HandleOf(s, i)) = s /\ LocalOf(HandleOf(s, i)) = i - 1
           /\ i # 0 => HandleOf(s, i) # 0
<1>1. s \in Nat /\ LocalMask \in Nat /\ LocalMask + 1 \in Nat \ {0} /\ i \in 0 .. (LocalMask + 1) - 1
  <2>1. Shards \subseteq Nat /\ LocalMask \in Nat
    BY ShardsAssumption, Zenon
  <2>. QED
    BY <2>1
<1>2. PICK n \in Nat \ {0} : n = LocalMask + 1 /\ i \in 0 .. n - 1
    BY <1>1
<1>3. s * n \in Nat /\ s * n = n * s
    BY <1>1, <1>2
<1>4. (n * s + i) \div n = s /\ (n * s + i) % n = i
    BY <1>1, <1>2, QuotientIs
<1>5. HandleOf(s, i) = n * s + i
    BY <1>2, <1>3 DEF HandleOf
<1>6. ShardOf(HandleOf(s, i)) = s /\ LocalOf(HandleOf(s, i)) = i - 1
    BY <1>2, <1>4, <1>5 DEF ShardOf, LocalOf
<1>. QED
    BY <1>1, <1>3, <1>5, <1>6

\* pack gives the handle of the string after those that are inserted.
LEMMA PackIs ==
    ASSUME NEW s \in Shards, NEW l \in Nat, l < LocalMask
    PROVE  pack(s, l) = HandleOf(s, l + 1)
<1>1. PICK n \in Nat \ {0} : n = LocalMask + 1 /\ l + 1 \in 0 .. n - 1
  <2>1. LocalMask \in Nat
    BY ShardsAssumption, Zenon
  <2>. QED
    BY <2>1
<1>2. (n * 0 + (l + 1)) % n = l + 1 /\ n * 0 + (l + 1) = l + 1
    BY <1>1, QuotientIs
<1>. QED
    BY <1>1, <1>2 DEF pack, HandleOf

\* A slot more needs a block more exactly when the slots fill their blocks.
LEMMA OneSlotMore ==
    ASSUME NEW n \in Nat \ {0}, NEW a \in Nat, NEW b \in Nat, (b - 1) * n < a, a <= b * n,
           NEW c \in Nat, c = IF a % n = 0 THEN b + 1 ELSE b
    PROVE  (c - 1) * n < a + 1 /\ a + 1 <= c * n
<1>1. PICK q \in Nat, r \in 0 .. n - 1 : a = n * q + r /\ r = a % n
  <2>1. a \div n \in Nat /\ a % n \in 0 .. n - 1 /\ a = n * (a \div n) + (a % n)
    OBVIOUS
  <2>. QED
    BY <2>1
<1>2. b * n = n * b + 0 /\ 0 \in 0 .. n - 1
    OBVIOUS
<1>3. CASE r = 0
  <2>1. q >= b
    <3>1. ASSUME q <= b - 1 PROVE FALSE
        <4>1. n * q <= n * (b - 1)
            BY <3>1
        <4>2. (b - 1) * n = n * (b - 1)
            OBVIOUS
        <4>. QED
            BY <1>1, <1>3, <4>1, <4>2
    <3>. QED
        BY <3>1
  <2>2. q <= b
    <3>1. ASSUME q >= b + 1 PROVE FALSE
        <4>1. n * q >= n * (b + 1) /\ n * (b + 1) = n * b + n
            BY <3>1
        <4>. QED
            BY <1>1, <1>2, <1>3, <4>1
    <3>. QED
        BY <3>1
  <2>5. q = b
    BY <2>1, <2>2
  <2>3. a = b * n /\ c = b + 1
    BY <1>1, <1>2, <1>3, <2>5
  <2>4. (c - 1) * n = b * n /\ c * n = b * n + n
    BY <2>3
  <2>. QED
    BY <2>3, <2>4
<1>4. CASE r # 0
  <2>1. a # b * n
    <3>1. ASSUME a = b * n PROVE FALSE
        <4>1. n * q + r = n * b + 0
            BY <1>1, <1>2, <3>1
        <4>2. r = 0
            BY <1>2, <4>1, DivisionIsUnique
        <4>. QED
            BY <1>4, <4>2
    <3>. QED
        BY <3>1
  <2>2. c = b /\ b * n \in Nat
    BY <1>1, <1>4
  <2>. QED
    BY <2>1, <2>2
<1>. QED
    BY <1>3, <1>4

\* A local below the slots lies in a block that is there.
LEMMA BlockIsThere ==
    ASSUME NEW n \in Nat \ {0}, NEW l \in Nat, NEW b \in Nat, l < b * n
    PROVE  l \div n < b
<1>1. l \div n \in Nat /\ l % n \in 0 .. n - 1 /\ l = n * (l \div n) + (l % n)
    OBVIOUS
<1>2. PICK q \in Nat : q = l \div n /\ n * q <= l
    BY <1>1
<1>3. ASSUME q >= b PROVE FALSE
  <2>1. n * q >= n * b /\ n * b = b * n
    BY <1>3
  <2>. QED
    BY <1>2, <2>1
<1>. QED
    BY <1>2, <1>3

-----------------------------------------------------------------------------
(* Steps of the interner *)

\* What every step does to the strings: an inserted one keeps its place, and a
\* committed slot its string.
StringsStay ==
    \A s \in Shards :
        /\ Len(dedup'[s]) >= Len(dedup[s]) /\ committed'[s] >= committed[s]
        /\ \A i \in 1 .. Len(dedup[s]) : dedup'[s][i] = dedup[s][i]
        /\ \A i \in 1 .. committed[s] : slotOf'[s][i] = slotOf[s][i]

\* The types that arithmetic needs.
ShardNumbers ==
    \A s \in Shards : /\ Len(dedup[s]) \in Nat /\ Len(slotOf[s]) \in Nat /\ Len(requests[s]) \in Nat
                      /\ committed[s] \in Nat /\ blocks[s] \in Nat

\* They follow from the types of the whole.
LEMMA NumbersTyped == ShardTypes => ShardNumbers
    BY DEF ShardTypes, ShardNumbers

\* A shard whose owner does nothing is as it was.
ShardRests(s) ==
    /\ requests'[s] = requests[s] /\ shardOwner'[s] = shardOwner[s] /\ dedup'[s] = dedup[s]
    /\ slotOf'[s] = slotOf[s] /\ blocks'[s] = blocks[s] /\ committed'[s] = committed[s]

\* Such a shard stays sound.
LEMMA RestIsSound ==
    ASSUME NEW s \in Shards, ShardRests(s), ShardIsSound(s)
    PROVE  ShardIsSound(s)'
<1>1. Routed(s)'
    BY DEF ShardIsSound, ShardRests, Routed
<1>2. StringsInOrder(s)'
    BY DEF ShardIsSound, ShardRests, StringsInOrder, Inserts, HasWritten
<1>3. HasBlocks(s)'
    BY DEF ShardIsSound, ShardRests, HasBlocks
<1>. QED
    BY <1>1, <1>2, <1>3 DEF ShardIsSound

\* What readers and callers know stays true.
LEMMA KnownStays ==
    ASSUME ShardTypes, ShardTypes', StringsStay
    PROVE  /\ \A p : Named(p) => Named(p)'
           /\ \A r : Got(r) => Got(r)'
<1>1. ShardNumbers /\ ShardNumbers'
    BY NumbersTyped, PTL
<1>2. ASSUME NEW s \in Shards, NEW i \in 1 .. Len(dedup[s])
      PROVE  i \in 1 .. Len(dedup'[s]) /\ dedup'[s][i] = dedup[s][i]
    BY <1>1 DEF StringsStay, ShardNumbers
<1>3. ASSUME NEW s \in Shards, NEW i \in 1 .. LocalMask, i <= committed[s]
      PROVE  i <= committed'[s] /\ slotOf'[s][i] = slotOf[s][i]
  <2>1. LocalMask \in Nat
    BY ShardsAssumption, Zenon
  <2>2. committed[s] \in Nat /\ committed'[s] \in Nat /\ committed'[s] >= committed[s]
    BY <1>1 DEF StringsStay, ShardNumbers
  <2>3. i \in 1 .. committed[s]
    BY <1>3, <2>1, <2>2
  <2>. QED
    BY <2>1, <2>2, <2>3 DEF StringsStay
<1>4. ASSUME NEW p, Named(p) PROVE Named(p)'
  <2>1. CASE p = <<"", 0>>
    BY <2>1 DEF Named
  <2>2. CASE \E s \in Shards : \E i \in 1 .. Len(dedup[s]) : p = <<dedup[s][i], HandleOf(s, i)>>
    <3>3. PICK s \in Shards : \E i \in 1 .. Len(dedup[s]) : p = <<dedup[s][i], HandleOf(s, i)>>
        BY <2>2
    <3>1. PICK i \in 1 .. Len(dedup[s]) : p = <<dedup[s][i], HandleOf(s, i)>>
        BY <3>3
    <3>2. i \in 1 .. Len(dedup'[s]) /\ p = <<dedup'[s][i], HandleOf(s, i)>>
        BY <1>2, <3>1
    <3>. QED
        BY <3>2 DEF Named, HandleOf
  <2>. QED
    BY <1>4, <2>1, <2>2 DEF Named
<1>5. ASSUME NEW r, Got(r) PROVE Got(r)'
  <2>1. PICK s \in Shards, i \in 1 .. LocalMask :
        r[1] = HandleOf(s, i) /\ (r[2] = Invalid \/ (i <= committed[s] /\ r[2] = slotOf[s][i]))
    BY <1>5 DEF Got
  <2>2. r[2] = Invalid \/ (i <= committed'[s] /\ r[2] = slotOf'[s][i])
    BY <1>3, <2>1
  <2>. QED
    BY <2>1, <2>2 DEF Got, HandleOf
<1>. QED
    BY <1>4, <1>5

\* A caller that stays where it was, or goes idle, still knows what it saw.
LEMMA GetsStay ==
    ASSUME ShardTypes, ShardTypes', StringsStay, NEW c \in Callers, Gets(c),
           ipc'[c] = ipc[c] \/ ipc'[c] = CallerIdle
    PROVE  Gets(c)'
<1>1. CASE ipc'[c] = CallerIdle
  <2>1. CallerIdle.at = "idle"
    BY DEF CallerIdle
  <2>2. ipc'[c].at # "get"
    BY <1>1, <2>1
  <2>. QED
    BY <2>2 DEF Gets
<1>2. CASE ipc'[c] = ipc[c] /\ ipc[c].at = "get"
  <2>1. PICK s \in Shards, i \in 1 .. LocalMask : ipc[c].handle = HandleOf(s, i) /\ ipc[c].seen <= committed[s]
    BY <1>2 DEF Gets
  <2>2. committed[s] \in Nat /\ committed'[s] \in Nat /\ committed'[s] >= committed[s] /\ ipc[c].seen \in Nat
    <3>1. ShardNumbers /\ ShardNumbers'
        BY NumbersTyped, PTL
    <3>2. ipc[c].seen \in Nat
        BY DEF ShardTypes, CallerStates
    <3>. QED
        BY <3>1, <3>2 DEF StringsStay, ShardNumbers
  <2>3. ipc'[c].seen <= committed'[s] /\ ipc'[c].handle = HandleOf(s, i)
    BY <1>2, <2>1, <2>2
  <2>. QED
    BY <2>3 DEF Gets, HandleOf
<1>3. CASE ipc'[c] = ipc[c] /\ ipc[c].at # "get"
    BY <1>3 DEF Gets
<1>. QED
    BY <1>1, <1>2, <1>3

\* What an owner's step has to show: its own shard, and that the others rest.
LEMMA OwnerKeeps ==
    ASSUME ShardInv, ShardTypes', NEW s \in Shards, ShardIsSound(s)', StringsStay,
           \A u \in Shards \ {s} : ShardRests(u), UNCHANGED resolved,
           \A c \in Callers : ipc'[c] = ipc[c] \/ ipc'[c] = CallerIdle,
           \A p \in interned' : p \in interned \/ Named(p)'
    PROVE  ShardInv'
<1>1. \A u \in Shards : ShardIsSound(u)'
    BY RestIsSound DEF ShardInv
<1>2. \A p \in interned' : Named(p)'
    BY KnownStays DEF ShardInv
<1>3. \A r \in resolved' : Got(r)'
    BY KnownStays DEF ShardInv
<1>4. \A c \in Callers : Gets(c)'
    BY GetsStay DEF ShardInv
<1>. QED
    BY <1>1, <1>2, <1>3, <1>4 DEF ShardInv

\* At first there are no strings.
LEMMA ShardInit == NInit => ShardInv
<1>. SUFFICES ASSUME NInit PROVE ShardInv
    OBVIOUS
<1>1. ShardTypes
  <2>1. OwnerIdle \in OwnerStates /\ CallerIdle \in CallerStates
    BY DEF OwnerIdle, OwnerStates, CallerIdle, CallerStates
  <2>. QED
    BY <2>1 DEF NInit, ShardTypes
<1>2. ASSUME NEW s \in Shards PROVE ShardIsSound(s)
  <2>1. /\ requests[s] = <<>> /\ dedup[s] = <<>> /\ slotOf[s] = <<>>
        /\ blocks[s] = 0 /\ committed[s] = 0 /\ shardOwner[s].at = "idle"
    BY DEF NInit, OwnerIdle
  <2>2. LocalMask \in Nat \ {0} /\ BlockLen \in Nat \ {0}
    BY ShardsAssumption, Zenon
  <2>3. Len(dedup[s]) = 0 /\ Len(slotOf[s]) = 0 /\ Len(requests[s]) = 0
    BY <2>1
  <2>4. Routed(s)
    BY <2>1, <2>3 DEF Routed
  <2>5. StringsInOrder(s)
    BY <2>1, <2>2, <2>3 DEF StringsInOrder, Inserts, HasWritten
  <2>6. HasBlocks(s)
    BY <2>1, <2>2, <2>3 DEF HasBlocks
  <2>. QED
    BY <2>4, <2>5, <2>6 DEF ShardIsSound
<1>3. \A c \in Callers : Gets(c)
    BY DEF NInit, Gets, CallerIdle
<1>4. interned = {} /\ resolved = {}
    BY DEF NInit
<1>. QED
    BY <1>1, <1>2, <1>3, <1>4 DEF ShardInv

\* The state of one owner, and of a shard that is asked, in parts for reading.
LEMMA ShardTypesAt ==
    ASSUME ShardTypes, NEW s \in Shards
    PROVE  /\ requests[s] \in Seq(Asks) /\ shardOwner[s] \in OwnerStates
           /\ dedup[s] \in Seq(Strings) /\ slotOf[s] \in Seq(Strings)
           /\ blocks[s] \in Nat /\ committed[s] \in Nat
           /\ Len(dedup[s]) \in Nat /\ Len(slotOf[s]) \in Nat /\ Len(requests[s]) \in Nat
    BY DEF ShardTypes

\* A step that leaves the strings alone keeps them.
LEMMA StringsRest ==
    ASSUME ShardTypes, UNCHANGED <<dedup, slotOf, committed>>
    PROVE  StringsStay
    BY ShardTypesAt DEF StringsStay

\* The pair of the empty string.
LEMMA EmptyPair == <<"", 0>>[1] = "" /\ <<"", 0>>[2] = 0
    OBVIOUS

\* An answered caller is idle.
LEMMA ReplyIs ==
    ASSUME ShardTypes, NEW s \in Shards, NEW local, Reply(s, local)
    PROVE  /\ ipc' \in [Callers -> CallerStates] /\ shardOwner' \in [Shards -> OwnerStates]
           /\ \A c \in Callers : ipc'[c] = ipc[c] \/ ipc'[c] = CallerIdle
           /\ shardOwner'[s] = OwnerIdle /\ \A u \in Shards \ {s} : shardOwner'[u] = shardOwner[u]
           /\ interned' = interned \union {<<shardOwner[s].req.text, pack(s, local)>>}
<1>. DEFINE c == shardOwner[s].req.from
<1>1. ipc' = [ipc EXCEPT ![c] = CallerIdle] /\ shardOwner' = [shardOwner EXCEPT ![s] = OwnerIdle]
      /\ interned' = interned \union {<<shardOwner[s].req.text, pack(s, local)>>}
    BY DEF Reply
<1>2. OwnerIdle \in OwnerStates /\ CallerIdle \in CallerStates
    BY DEF OwnerIdle, OwnerStates, CallerIdle, CallerStates
<1>3. ipc \in [Callers -> CallerStates] /\ shardOwner \in [Shards -> OwnerStates]
    BY DEF ShardTypes
<1>. HIDE DEF c
<1>4. ipc' \in [Callers -> CallerStates] /\ \A d \in Callers : ipc'[d] = ipc[d] \/ ipc'[d] = CallerIdle
    BY <1>1, <1>2, <1>3
<1>5. /\ shardOwner' \in [Shards -> OwnerStates]
      /\ shardOwner'[s] = OwnerIdle /\ \A u \in Shards \ {s} : shardOwner'[u] = shardOwner[u]
    BY <1>1, <1>2, <1>3
<1>. QED
    BY <1>1, <1>4, <1>5

\* The owner takes the first request.
LEMMA PopKeeps ==
    ASSUME ShardInv, NEW s \in Shards, OwnerPop(s)
    PROVE  ShardInv'
<1>1. /\ ShardTypes /\ ShardIsSound(s) /\ requests[s] # <<>> /\ shardOwner[s].at = "idle"
      /\ UNCHANGED <<dedup, blocks, slotOf, committed, ipc, interned, resolved>>
    BY DEF OwnerPop, ShardInv
<1>2. PICK q \in Seq(Asks) : q = requests[s] /\ q # <<>>
    BY <1>1, ShardTypesAt
<1>3. /\ Head(q) \in Asks /\ Tail(q) \in Seq(Asks) /\ Len(q) \in Nat \ {0} /\ Len(Tail(q)) = Len(q) - 1
      /\ Head(q) = q[1] /\ \A i \in 1 .. Len(q) - 1 : Tail(q)[i] = q[i + 1]
    BY <1>2
<1>4. PICK ask \in Asks : ask = Head(q)
    BY <1>3
<1>5. PICK n \in OwnerStates : n = [at |-> "lookup", req |-> ask, local |-> 0]
    BY DEF OwnerStates
<1>6. /\ n.at = "lookup" /\ n.req = ask
      /\ shardOwner' = [shardOwner EXCEPT ![s] = n] /\ requests' = [requests EXCEPT ![s] = Tail(q)]
    BY <1>2, <1>4, <1>5 DEF OwnerPop
<1>7. ShardTypes'
  <2>1. requests' \in [Shards -> Seq(Asks)] /\ shardOwner' \in [Shards -> OwnerStates]
    BY <1>1, <1>3, <1>6 DEF ShardTypes
  <2>. QED
    BY <1>1, <2>1 DEF ShardTypes
<1>8. /\ requests'[s] = Tail(q) /\ shardOwner'[s] = n
      /\ \A u \in Shards \ {s} : requests'[u] = requests[u] /\ shardOwner'[u] = shardOwner[u]
    BY <1>1, <1>6 DEF ShardTypes
<1>9. Routed(s)'
  <2>1. \A i \in 1 .. Len(q) : shard_for[q[i].text] = s
    BY <1>1, <1>2 DEF ShardIsSound, Routed
  <2>2. \A i \in 1 .. Len(Tail(q)) : shard_for[Tail(q)[i].text] = s
    BY <1>3, <2>1
  <2>3. ask.text \in Strings /\ shard_for[ask.text] = s
    BY <1>3, <1>4, <2>1 DEF Asks
  <2>. QED
    BY <1>6, <1>8, <2>2, <2>3 DEF Routed
<1>10. StringsInOrder(s)'
    BY <1>1, <1>6, <1>8 DEF ShardIsSound, StringsInOrder, Inserts, HasWritten
<1>11. HasBlocks(s)'
    BY <1>1 DEF ShardIsSound, HasBlocks
<1>12. StringsStay
    BY <1>1, ShardTypesAt DEF StringsStay
<1>13. \A u \in Shards \ {s} : ShardRests(u)
    BY <1>1, <1>8 DEF ShardRests
<1>. QED
    BY <1>1, <1>7, <1>9, <1>10, <1>11, <1>12, <1>13, OwnerKeeps DEF ShardIsSound

\* A string that is known gets the handle of its place.
LEMMA KnownKeeps ==
    ASSUME ShardInv, NEW s \in Shards, OwnerKnown(s)
    PROVE  ShardInv'
<1>. DEFINE x == shardOwner[s].req.text
            places == {i \in 1 .. Len(dedup[s]) : dedup[s][i] = x}
<1>1. /\ ShardTypes /\ ShardIsSound(s) /\ shardOwner[s].at = "lookup" /\ places # {}
      /\ UNCHANGED <<requests, dedup, blocks, slotOf, committed, resolved>>
    BY DEF OwnerKnown, ShardInv
<1>2. Reply(s, Min(places) - 1)
    BY <1>1 DEF OwnerKnown, SelectInSeq
<1>3. PICK k \in 1 .. Len(dedup[s]) : k = Min(places) /\ dedup[s][k] = x
  <2>1. \A i, j \in places : i = j
    BY <1>1 DEF ShardIsSound, StringsInOrder
  <2>2. PICK k \in places : places = {k}
    BY <1>1, <2>1
  <2>3. k \in Int
    BY <2>2
  <2>. HIDE DEF places
  <2>4. Min(places) = k
    BY <2>2, <2>3 DEF Min
  <2>. USE DEF places
  <2>. QED
    BY <2>2, <2>4
<1>. HIDE DEF places
<1>4. pack(s, k - 1) = HandleOf(s, k)
  <2>1. Len(dedup[s]) <= LocalMask /\ LocalMask \in Nat /\ Len(dedup[s]) \in Nat
    BY <1>1, ShardTypesAt, ShardsAssumption, Zenon DEF ShardIsSound, StringsInOrder
  <2>2. k - 1 \in Nat /\ k - 1 < LocalMask /\ (k - 1) + 1 = k
    BY <2>1
  <2>. QED
    BY <2>2, PackIs
<1>5. Reply(s, k - 1)
    BY <1>2, <1>3
<1>6. /\ ipc' \in [Callers -> CallerStates] /\ shardOwner' \in [Shards -> OwnerStates]
      /\ \A c \in Callers : ipc'[c] = ipc[c] \/ ipc'[c] = CallerIdle
      /\ shardOwner'[s] = OwnerIdle /\ \A u \in Shards \ {s} : shardOwner'[u] = shardOwner[u]
      /\ interned' = interned \union {<<x, pack(s, k - 1)>>}
    BY <1>1, <1>5, ReplyIs
<1>7. OwnerIdle.at = "idle"
    BY DEF OwnerIdle
<1>8. ShardTypes'
    BY <1>1, <1>6 DEF ShardTypes
<1>9. Routed(s)'
    BY <1>1, <1>6, <1>7 DEF ShardIsSound, Routed
<1>10. StringsInOrder(s)'
    BY <1>1, <1>6, <1>7 DEF ShardIsSound, StringsInOrder, Inserts, HasWritten
<1>11. HasBlocks(s)'
    BY <1>1 DEF ShardIsSound, HasBlocks
<1>12. StringsStay
    BY <1>1, ShardTypesAt DEF StringsStay
<1>13. \A u \in Shards \ {s} : ShardRests(u)
    BY <1>1, <1>6 DEF ShardRests
<1>14. \A p \in interned' : p \in interned \/ Named(p)'
  <2>1. PICK p : p = <<x, pack(s, k - 1)>>
    OBVIOUS
  <2>2. p = <<dedup'[s][k], HandleOf(s, k)>> /\ k \in 1 .. Len(dedup'[s])
    BY <1>1, <1>3, <1>4, <2>1
  <2>3. Named(p)'
    BY <2>2 DEF Named, HandleOf
  <2>. QED
    BY <1>6, <2>1, <2>3
<1>. QED
    BY <1>1, <1>6, <1>8, <1>9, <1>10, <1>11, <1>12, <1>13, <1>14, OwnerKeeps DEF ShardIsSound

\* A new string takes the place after the others, or the owner dies.
LEMMA NewKeeps ==
    ASSUME ShardInv, NEW s \in Shards, OwnerNew(s)
    PROVE  ShardInv'
<1>1. /\ ShardTypes /\ ShardIsSound(s) /\ shardOwner[s].at = "lookup"
      /\ \A i \in 1 .. Len(dedup[s]) : dedup[s][i] # shardOwner[s].req.text
      /\ UNCHANGED <<requests, dedup, blocks, slotOf, committed, ipc, interned, resolved>>
    BY ShardTypesAt DEF OwnerNew, ShardInv
<1>2. PICK n \in OwnerStates :
        /\ shardOwner' = [shardOwner EXCEPT ![s] = n] /\ n.req = shardOwner[s].req
        /\ n.at = "dead" \/ (n.at = "write" /\ n.local = Len(dedup[s]) /\ Len(dedup[s]) < LocalMask)
  <2>1. PICK l \in Nat : l = Len(dedup[s])
    BY <1>1, ShardTypesAt
  <2>2. PICK o \in OwnerStates : o = shardOwner[s]
    BY <1>1, ShardTypesAt
  <2>3. CASE l < LocalMask /\ shardOwner' = [shardOwner EXCEPT ![s].at = "write", ![s].local = l]
    <3>1. PICK n \in OwnerStates : n = [o EXCEPT !.at = "write", !.local = l]
        BY DEF OwnerStates
    <3>2. n.at = "write" /\ n.local = l /\ n.req = o.req /\ shardOwner' = [shardOwner EXCEPT ![s] = n]
        BY <2>2, <2>3, <3>1 DEF OwnerStates
    <3>. QED
        BY <2>1, <2>2, <2>3, <3>2
  <2>4. CASE shardOwner' = [shardOwner EXCEPT ![s].at = "dead"]
    <3>1. PICK n \in OwnerStates : n = [o EXCEPT !.at = "dead"]
        BY DEF OwnerStates
    <3>2. n.at = "dead" /\ n.req = o.req /\ shardOwner' = [shardOwner EXCEPT ![s] = n]
        BY <2>2, <2>4, <3>1 DEF OwnerStates
    <3>. QED
        BY <2>2, <3>2
  <2>. QED
    BY <2>1, <2>3, <2>4 DEF OwnerNew
<1>3. shardOwner'[s] = n /\ \A u \in Shards \ {s} : shardOwner'[u] = shardOwner[u]
    BY <1>1, <1>2 DEF ShardTypes
<1>4. ShardTypes'
    BY <1>1, <1>2 DEF ShardTypes
<1>5. Routed(s)'
    BY <1>1, <1>2, <1>3 DEF ShardIsSound, Routed
<1>6. StringsInOrder(s)'
    BY <1>1, <1>2, <1>3 DEF ShardIsSound, StringsInOrder, Inserts, HasWritten
<1>7. HasBlocks(s)'
    BY <1>1 DEF ShardIsSound, HasBlocks
<1>8. StringsStay
    BY <1>1, ShardTypesAt DEF StringsStay
<1>9. \A u \in Shards \ {s} : ShardRests(u)
    BY <1>1, <1>3 DEF ShardRests
<1>. QED
    BY <1>1, <1>4, <1>5, <1>6, <1>7, <1>8, <1>9, OwnerKeeps DEF ShardIsSound

\* The slot after the last gets the string, in a new block if it is its first.
LEMMA WriteKeeps ==
    ASSUME ShardInv, NEW s \in Shards, OwnerWrite(s)
    PROVE  ShardInv'
<1>1. /\ ShardTypes /\ ShardIsSound(s) /\ shardOwner[s].at = "write"
      /\ UNCHANGED <<requests, dedup, committed, ipc, interned, resolved>>
    BY DEF OwnerWrite, ShardInv
<1>2. PICK x \in Strings, l \in Nat :
        /\ x = shardOwner[s].req.text /\ l = shardOwner[s].local /\ l = Len(dedup[s]) /\ l = Len(slotOf[s])
        /\ l < LocalMask
    BY <1>1, ShardTypesAt DEF ShardIsSound, Routed, StringsInOrder, Inserts, HasWritten
<1>3. PICK b \in Nat : b = blocks[s]
    BY <1>1, ShardTypesAt
<1>4. PICK d \in Nat : d = (IF l % BlockLen = 0 THEN b + 1 ELSE b)
    BY <1>3
<1>5. PICK o \in OwnerStates : o = shardOwner[s]
    BY <1>1, ShardTypesAt
<1>6. PICK n \in OwnerStates : n = [o EXCEPT !.at = "commit"]
    BY DEF OwnerStates
<1>7. /\ n.at = "commit" /\ n.local = l /\ n.req = shardOwner[s].req /\ shardOwner' = [shardOwner EXCEPT ![s] = n]
      /\ slotOf' = [slotOf EXCEPT ![s] = Append(@, x)] /\ blocks' = [blocks EXCEPT ![s] = d]
  <2>1. n.at = "commit" /\ n.local = o.local /\ n.req = o.req
    BY <1>6 DEF OwnerStates
  <2>2. shardOwner' = [shardOwner EXCEPT ![s] = n]
    BY <1>5, <1>6 DEF OwnerWrite
  <2>3. slotOf' = [slotOf EXCEPT ![s] = Append(@, x)] /\ blocks' = [blocks EXCEPT ![s] = d]
    BY <1>2, <1>3, <1>4 DEF OwnerWrite
  <2>. QED
    BY <1>2, <1>5, <2>1, <2>2, <2>3
<1>8. /\ shardOwner'[s] = n /\ slotOf'[s] = Append(slotOf[s], x) /\ blocks'[s] = d
      /\ \A u \in Shards \ {s} : shardOwner'[u] = shardOwner[u] /\ slotOf'[u] = slotOf[u] /\ blocks'[u] = blocks[u]
    BY <1>1, <1>7 DEF ShardTypes
<1>9. /\ Append(slotOf[s], x) \in Seq(Strings) /\ Len(slotOf'[s]) = l + 1 /\ slotOf'[s][l + 1] = x
      /\ \A i \in 1 .. l : slotOf'[s][i] = slotOf[s][i]
    BY <1>1, <1>2, <1>8, ShardTypesAt, AppendProperties
<1>10. ShardTypes'
  <2>1. /\ shardOwner' \in [Shards -> OwnerStates] /\ slotOf' \in [Shards -> Seq(Strings)]
        /\ blocks' \in [Shards -> Nat]
    BY <1>1, <1>7, <1>9 DEF ShardTypes
  <2>. QED
    BY <1>1, <2>1 DEF ShardTypes
<1>11. Routed(s)'
    BY <1>1, <1>7, <1>8 DEF ShardIsSound, Routed
<1>12. StringsInOrder(s)'
  <2>1. /\ l < LocalMask
        /\ \A i \in 1 .. l : shard_for[dedup[s][i]] = s /\ slotOf[s][i] = dedup[s][i] /\ dedup[s][i] # x
        /\ \A i, j \in 1 .. l : dedup[s][i] = dedup[s][j] => i = j
        /\ l <= LocalMask /\ committed[s] = l
    BY <1>1, <1>2 DEF ShardIsSound, StringsInOrder, Inserts
  <2>2. Inserts(s)' /\ HasWritten(s)' /\ shardOwner'[s].at # "remember"
    BY <1>7, <1>8 DEF Inserts, HasWritten
  <2>3. shardOwner'[s].local = l /\ shardOwner'[s].req.text = x /\ dedup'[s] = dedup[s] /\ Len(dedup'[s]) = l
    BY <1>1, <1>2, <1>7, <1>8
  <2>4. \A i \in 1 .. l : shard_for[dedup'[s][i]] = s /\ slotOf'[s][i] = dedup'[s][i] /\ dedup'[s][i] # x
    BY <1>9, <2>1, <2>3
  <2>5. slotOf'[s][l + 1] = x /\ Len(slotOf'[s]) = l + 1 /\ committed'[s] = l
    BY <1>1, <1>9, <2>1
  <2>. QED
    BY <2>1, <2>2, <2>3, <2>4, <2>5 DEF StringsInOrder
<1>13. HasBlocks(s)'
  <2>1. BlockLen \in Nat \ {0}
    BY ShardsAssumption, Zenon
  <2>2. (b - 1) * BlockLen < l /\ l <= b * BlockLen
    BY <1>1, <1>2, <1>3 DEF ShardIsSound, HasBlocks
  <2>3. (d - 1) * BlockLen < l + 1 /\ l + 1 <= d * BlockLen
    BY <1>4, <2>1, <2>2, OneSlotMore
  <2>. QED
    BY <1>8, <1>9, <2>3 DEF HasBlocks
<1>14. StringsStay
  <2>1. committed[s] = l
    BY <1>1, <1>2 DEF ShardIsSound, StringsInOrder
  <2>2. ASSUME NEW u \in Shards
        PROVE  /\ Len(dedup'[u]) >= Len(dedup[u]) /\ committed'[u] >= committed[u]
               /\ \A i \in 1 .. Len(dedup[u]) : dedup'[u][i] = dedup[u][i]
    BY <1>1, ShardTypesAt
  <2>3. ASSUME NEW u \in Shards
        PROVE  \A i \in 1 .. committed[u] : slotOf'[u][i] = slotOf[u][i]
    BY <1>8, <1>9, <2>1
  <2>. QED
    BY <2>2, <2>3 DEF StringsStay
<1>15. \A u \in Shards \ {s} : ShardRests(u)
    BY <1>1, <1>8 DEF ShardRests
<1>. QED
    BY <1>1, <1>10, <1>11, <1>12, <1>13, <1>14, <1>15, OwnerKeeps DEF ShardIsSound

\* The slot that is written is published.
LEMMA CommitKeeps ==
    ASSUME ShardInv, NEW s \in Shards, OwnerCommit(s)
    PROVE  ShardInv'
<1>1. /\ ShardTypes /\ ShardIsSound(s) /\ shardOwner[s].at = "commit"
      /\ UNCHANGED <<requests, dedup, blocks, slotOf, ipc, interned, resolved>>
    BY DEF OwnerCommit, ShardInv
<1>2. PICK l \in Nat : l = shardOwner[s].local /\ l = Len(dedup[s]) /\ committed[s] = l
    BY <1>1, ShardTypesAt DEF ShardIsSound, StringsInOrder, Inserts
<1>3. PICK o \in OwnerStates : o = shardOwner[s]
    BY <1>1, ShardTypesAt
<1>4. PICK n \in OwnerStates : n = [o EXCEPT !.at = "remember"]
    BY DEF OwnerStates
<1>5. /\ n.at = "remember" /\ n.local = l /\ n.req = shardOwner[s].req
      /\ shardOwner' = [shardOwner EXCEPT ![s] = n] /\ committed' = [committed EXCEPT ![s] = l + 1]
  <2>1. n.at = "remember" /\ n.local = o.local /\ n.req = o.req
    BY <1>4 DEF OwnerStates
  <2>2. shardOwner' = [shardOwner EXCEPT ![s] = n] /\ committed' = [committed EXCEPT ![s] = l + 1]
    BY <1>2, <1>3, <1>4 DEF OwnerCommit
  <2>. QED
    BY <1>2, <1>3, <2>1, <2>2
<1>6. /\ shardOwner'[s] = n /\ committed'[s] = l + 1
      /\ \A u \in Shards \ {s} : shardOwner'[u] = shardOwner[u] /\ committed'[u] = committed[u]
    BY <1>1, <1>5 DEF ShardTypes
<1>7. ShardTypes'
  <2>1. shardOwner' \in [Shards -> OwnerStates] /\ committed' \in [Shards -> Nat]
    BY <1>1, <1>5 DEF ShardTypes
  <2>. QED
    BY <1>1, <2>1 DEF ShardTypes
<1>8. Routed(s)'
    BY <1>1, <1>5, <1>6 DEF ShardIsSound, Routed
<1>9. StringsInOrder(s)'
    BY <1>1, <1>2, <1>5, <1>6 DEF ShardIsSound, StringsInOrder, Inserts, HasWritten
<1>10. HasBlocks(s)'
    BY <1>1 DEF ShardIsSound, HasBlocks
<1>11. StringsStay
  <2>1. ASSUME NEW u \in Shards PROVE committed'[u] >= committed[u]
    BY <1>1, <1>2, <1>6, ShardTypesAt
  <2>2. ASSUME NEW u \in Shards PROVE Len(dedup'[u]) >= Len(dedup[u])
    BY <1>1, ShardTypesAt
  <2>. QED
    BY <1>1, <2>1, <2>2 DEF StringsStay
<1>12. \A u \in Shards \ {s} : ShardRests(u)
    BY <1>1, <1>6 DEF ShardRests
<1>. QED
    BY <1>1, <1>7, <1>8, <1>9, <1>10, <1>11, <1>12, OwnerKeeps DEF ShardIsSound

\* The string joins the others, and its caller gets the handle.
LEMMA RememberKeeps ==
    ASSUME ShardInv, NEW s \in Shards, OwnerRemember(s)
    PROVE  ShardInv'
<1>1. /\ ShardTypes /\ ShardIsSound(s) /\ shardOwner[s].at = "remember" /\ Reply(s, shardOwner[s].local)
      /\ UNCHANGED <<requests, blocks, slotOf, committed, resolved>>
    BY DEF OwnerRemember, ShardInv
<1>2. PICK x \in Strings, l \in Nat :
        /\ x = shardOwner[s].req.text /\ shard_for[x] = s
        /\ l = shardOwner[s].local /\ l = Len(dedup[s]) /\ l < LocalMask
    BY <1>1, ShardTypesAt DEF ShardIsSound, Routed, StringsInOrder, Inserts
<1>3. /\ \A i \in 1 .. l : dedup[s][i] # x /\ shard_for[dedup[s][i]] = s /\ slotOf[s][i] = dedup[s][i]
      /\ \A i, j \in 1 .. l : dedup[s][i] = dedup[s][j] => i = j
      /\ slotOf[s][l + 1] = x /\ Len(slotOf[s]) = l + 1 /\ committed[s] = l + 1
    BY <1>1, <1>2 DEF ShardIsSound, StringsInOrder, Inserts, HasWritten
<1>4. /\ ipc' \in [Callers -> CallerStates] /\ shardOwner' \in [Shards -> OwnerStates]
      /\ \A c \in Callers : ipc'[c] = ipc[c] \/ ipc'[c] = CallerIdle
      /\ shardOwner'[s] = OwnerIdle /\ \A u \in Shards \ {s} : shardOwner'[u] = shardOwner[u]
      /\ interned' = interned \union {<<x, pack(s, l)>>}
    BY <1>1, <1>2, ReplyIs
<1>5. dedup' = [dedup EXCEPT ![s] = Append(@, x)]
    BY <1>2 DEF OwnerRemember
<1>6. dedup'[s] = Append(dedup[s], x) /\ \A u \in Shards \ {s} : dedup'[u] = dedup[u]
    BY <1>1, <1>5 DEF ShardTypes
<1>7. /\ Append(dedup[s], x) \in Seq(Strings) /\ Len(dedup'[s]) = l + 1 /\ dedup'[s][l + 1] = x
      /\ \A i \in 1 .. l : dedup'[s][i] = dedup[s][i]
    BY <1>1, <1>2, <1>6, ShardTypesAt, AppendProperties
<1>8. OwnerIdle.at = "idle"
    BY DEF OwnerIdle
<1>9. ShardTypes'
  <2>1. dedup' \in [Shards -> Seq(Strings)]
    BY <1>1, <1>5, <1>7 DEF ShardTypes
  <2>. QED
    BY <1>1, <1>4, <2>1 DEF ShardTypes
<1>10. Routed(s)'
    BY <1>1, <1>4, <1>8 DEF ShardIsSound, Routed
<1>11. StringsInOrder(s)'
  <2>1. ~Inserts(s)' /\ ~HasWritten(s)' /\ shardOwner'[s].at # "remember"
    BY <1>4, <1>8 DEF Inserts, HasWritten
  <2>2. LocalMask \in Nat
    BY ShardsAssumption, Zenon
  <2>3. ASSUME NEW i \in 1 .. l + 1
        PROVE  shard_for[dedup'[s][i]] = s /\ slotOf'[s][i] = dedup'[s][i]
    <3>1. slotOf'[s] = slotOf[s]
        BY <1>1
    <3>2. CASE i = l + 1
        BY <1>2, <1>3, <1>7, <3>1, <3>2
    <3>3. CASE i \in 1 .. l
        BY <1>3, <1>7, <3>1, <3>3
    <3>. QED
        BY <3>2, <3>3
  <2>4. ASSUME NEW i \in 1 .. l + 1, NEW j \in 1 .. l + 1, dedup'[s][i] = dedup'[s][j]
        PROVE  i = j
    <3>1. \A k \in 1 .. l : dedup'[s][k] = dedup[s][k] /\ dedup'[s][k] # x
        BY <1>3, <1>7
    <3>2. CASE i \in 1 .. l /\ j \in 1 .. l
        BY <1>3, <2>4, <3>1, <3>2
    <3>3. CASE i = l + 1
        <4>1. j \notin 1 .. l
            BY <1>7, <2>4, <3>1, <3>3
        <4>. QED
            BY <3>3, <4>1
    <3>4. CASE j = l + 1
        <4>1. i \notin 1 .. l
            BY <1>7, <2>4, <3>1, <3>4
        <4>. QED
            BY <3>4, <4>1
    <3>. QED
        BY <3>2, <3>3, <3>4
  <2>5. Len(dedup'[s]) <= LocalMask
    BY <1>2, <1>7, <2>2
  <2>6. Len(slotOf'[s]) = Len(dedup'[s]) /\ committed'[s] = Len(dedup'[s])
    BY <1>1, <1>3, <1>7
  <2>. QED
    BY <1>7, <2>1, <2>3, <2>4, <2>5, <2>6 DEF StringsInOrder
<1>12. HasBlocks(s)'
    BY <1>1 DEF ShardIsSound, HasBlocks
<1>13. StringsStay
  <2>1. ASSUME NEW u \in Shards
        PROVE  /\ Len(dedup'[u]) >= Len(dedup[u])
               /\ \A i \in 1 .. Len(dedup[u]) : dedup'[u][i] = dedup[u][i]
    BY <1>1, <1>2, <1>6, <1>7, ShardTypesAt
  <2>2. ASSUME NEW u \in Shards PROVE committed'[u] >= committed[u]
    BY <1>1, ShardTypesAt
  <2>. QED
    BY <1>1, <2>1, <2>2 DEF StringsStay
<1>14. \A u \in Shards \ {s} : ShardRests(u)
    BY <1>1, <1>4, <1>6 DEF ShardRests
<1>15. \A p \in interned' : p \in interned \/ Named(p)'
  <2>1. PICK p : p = <<x, pack(s, l)>>
    OBVIOUS
  <2>2. p = <<dedup'[s][l + 1], HandleOf(s, l + 1)>> /\ l + 1 \in 1 .. Len(dedup'[s])
    BY <1>2, <1>7, <2>1, PackIs
  <2>3. Named(p)'
    BY <2>2 DEF Named, HandleOf
  <2>. QED
    BY <1>4, <2>1, <2>3
<1>. QED
    BY <1>1, <1>4, <1>9, <1>10, <1>11, <1>12, <1>13, <1>14, <1>15, OwnerKeeps DEF ShardIsSound

\* The empty string is handle 0 at once.
LEMMA EmptyKeeps ==
    ASSUME ShardInv, NEW c \in Callers, Intern(c, "")
    PROVE  ShardInv'
<1>1. /\ ShardTypes /\ interned' = interned \union {<<"", 0>>}
      /\ UNCHANGED <<requests, ipc, shardOwner, dedup, blocks, slotOf, committed, resolved>>
    BY DEF Intern, ShardInv
<1>2. ShardTypes'
    BY <1>1 DEF ShardTypes
<1>3. \A s \in Shards : ShardRests(s)
    BY <1>1 DEF ShardRests
<1>4. \A s \in Shards : ShardIsSound(s)'
    BY <1>3, RestIsSound DEF ShardInv
<1>5. StringsStay
    BY <1>1, StringsRest
<1>6. \A p \in interned' : Named(p)'
  <2>1. Named(<<"", 0>>)'
    BY DEF Named
  <2>. QED
    BY <1>1, <1>2, <1>5, <2>1, KnownStays DEF ShardInv
<1>7. \A d \in Callers : Gets(d)'
    BY <1>1, <1>2, <1>5, GetsStay DEF ShardInv
<1>8. \A r \in resolved' : Got(r)'
    BY <1>1, <1>2, <1>5, KnownStays DEF ShardInv
<1>. QED
    BY <1>2, <1>4, <1>6, <1>7, <1>8 DEF ShardInv

\* A request as it is queued.
LEMMA AskIs ==
    ASSUME NEW x \in Strings, NEW c \in Callers
    PROVE  \E ask \in Asks : ask = [text |-> x, from |-> c] /\ ask.text = x
<1>1. [text |-> x, from |-> c] \in Asks
    BY DEF Asks
<1>. QED
    BY <1>1

\* A request more for the shard, behind those that are its own.
LEMMA AskedToo ==
    ASSUME NEW q \in Seq(Asks), NEW ask \in Asks, NEW s,
           \A i \in 1 .. Len(q) : shard_for[q[i].text] = s, shard_for[ask.text] = s
    PROVE  Append(q, ask) \in Seq(Asks) /\ \A i \in 1 .. Len(Append(q, ask)) : shard_for[Append(q, ask)[i].text] = s
<1>1. PICK k \in Nat : k = Len(q)
    OBVIOUS
<1>2. /\ Append(q, ask) \in Seq(Asks) /\ Len(Append(q, ask)) = k + 1
      /\ Append(q, ask)[k + 1] = ask /\ \A i \in 1 .. k : Append(q, ask)[i] = q[i]
    BY <1>1, AppendProperties
<1>3. \A i \in 1 .. k + 1 : i = k + 1 \/ i \in 1 .. k
    OBVIOUS
<1>4. ASSUME NEW i \in 1 .. k + 1 PROVE shard_for[Append(q, ask)[i].text] = s
  <2>1. CASE i = k + 1
    BY <1>2, <2>1
  <2>2. CASE i \in 1 .. k
    BY <1>1, <1>2, <2>2
  <2>. QED
    BY <1>3, <2>1, <2>2
<1>. QED
    BY <1>2, <1>4

\* A caller queues any other string at its own shard.
LEMMA AskKeeps ==
    ASSUME ShardInv, NEW c \in Callers, NEW x \in Strings, Intern(c, x)
    PROVE  ShardInv'
<1>1. /\ ShardTypes /\ ipc[c].at = "idle" /\ ipc[c] \in CallerStates /\ x # ""
      /\ UNCHANGED <<shardOwner, dedup, blocks, slotOf, committed, resolved>>
  <2>1. x # ""
    BY ShardsAssumption
  <2>. QED
    BY <2>1 DEF Intern, ShardInv, ShardTypes
<1>2. PICK s \in Shards : s = shard_for[x]
  <2>1. shard_for \in [Strings -> Shards]
    BY ShardsAssumption, Zenon
  <2>. QED
    BY <2>1
<1>3. PICK ask \in Asks : ask = [text |-> x, from |-> c] /\ ask.text = x
    BY AskIs
<1>4. PICK n \in CallerStates : n = [ipc[c] EXCEPT !.at = "reply", !.text = x]
    BY <1>1 DEF CallerStates
<1>5. /\ requests' = [requests EXCEPT ![s] = Append(@, ask)] /\ n.at = "reply"
      /\ ipc' = [ipc EXCEPT ![c] = n] /\ UNCHANGED interned
    BY <1>1, <1>2, <1>3, <1>4 DEF Intern, CallerStates
<1>6. /\ requests'[s] = Append(requests[s], ask) /\ \A u \in Shards \ {s} : requests'[u] = requests[u]
      /\ ipc'[c] = n /\ \A d \in Callers \ {c} : ipc'[d] = ipc[d]
    BY <1>1, <1>5 DEF ShardTypes
<1>7. PICK q \in Seq(Asks) : q = requests[s] /\ \A i \in 1 .. Len(q) : shard_for[q[i].text] = s
  <2>1. requests[s] \in Seq(Asks)
    BY <1>1, ShardTypesAt
  <2>2. Routed(s)
    BY DEF ShardInv, ShardIsSound
  <2>. QED
    BY <2>1, <2>2 DEF Routed
<1>8. Append(q, ask) \in Seq(Asks) /\ \A i \in 1 .. Len(Append(q, ask)) : shard_for[Append(q, ask)[i].text] = s
    BY <1>2, <1>3, <1>7, AskedToo
<1>9. ShardTypes'
  <2>1. requests' \in [Shards -> Seq(Asks)] /\ ipc' \in [Callers -> CallerStates]
    BY <1>1, <1>5, <1>7, <1>8 DEF ShardTypes
  <2>. QED
    BY <1>1, <2>1 DEF ShardTypes
<1>10. ShardIsSound(s)'
  <2>1. ShardIsSound(s)
    BY DEF ShardInv
  <2>2. Routed(s)'
    BY <1>1, <1>6, <1>7, <1>8, <2>1 DEF ShardIsSound, Routed
  <2>3. StringsInOrder(s)' /\ HasBlocks(s)'
    BY <1>1, <2>1 DEF ShardIsSound, StringsInOrder, Inserts, HasWritten, HasBlocks
  <2>. QED
    BY <2>2, <2>3 DEF ShardIsSound
<1>11. \A u \in Shards : ShardIsSound(u)'
  <2>1. \A u \in Shards \ {s} : ShardRests(u)
    BY <1>1, <1>6 DEF ShardRests
  <2>. QED
    BY <1>10, <2>1, RestIsSound DEF ShardInv
<1>12. StringsStay
    BY <1>1, StringsRest
<1>13. \A p \in interned' : Named(p)'
    BY <1>1, <1>5, <1>9, <1>12, KnownStays DEF ShardInv
<1>14. \A d \in Callers : Gets(d)'
  <2>1. Gets(c)'
    BY <1>5, <1>6 DEF Gets
  <2>. QED
    BY <1>1, <1>6, <1>9, <1>12, <2>1, GetsStay DEF ShardInv
<1>15. \A r \in resolved' : Got(r)'
    BY <1>1, <1>9, <1>12, KnownStays DEF ShardInv
<1>. QED
    BY <1>9, <1>11, <1>13, <1>14, <1>15 DEF ShardInv

\* What a reader's step has to show: it touches no shard.
LEMMA ReaderKeeps ==
    ASSUME ShardInv, UNCHANGED <<requests, shardOwner, dedup, blocks, slotOf, committed, interned>>,
           NEW c \in Callers, NEW n \in CallerStates, ipc' = [ipc EXCEPT ![c] = n], Gets(c)',
           \A r \in resolved' : r \in resolved \/ Got(r)'
    PROVE  ShardInv'
<1>1. ShardTypes /\ ShardTypes'
    BY DEF ShardInv, ShardTypes
<1>2. \A s \in Shards : ShardIsSound(s)'
  <2>1. \A s \in Shards : ShardRests(s)
    BY DEF ShardRests
  <2>. QED
    BY <2>1, RestIsSound DEF ShardInv
<1>3. StringsStay
    BY <1>1, ShardTypesAt DEF StringsStay
<1>4. \A p \in interned' : Named(p)'
    BY <1>1, <1>3, KnownStays DEF ShardInv
<1>5. \A r \in resolved' : Got(r)'
    BY <1>1, <1>3, KnownStays DEF ShardInv
<1>6. \A d \in Callers : Gets(d)'
  <2>1. \A d \in Callers \ {c} : ipc'[d] = ipc[d]
    BY <1>1 DEF ShardTypes
  <2>. QED
    BY <1>1, <1>3, <2>1, GetsStay DEF ShardInv
<1>. QED
    BY <1>1, <1>2, <1>4, <1>5, <1>6 DEF ShardInv

\* A reader sees how many slots are committed.
LEMMA LoadKeeps ==
    ASSUME ShardInv, NEW c \in Callers, NEW h \in Handles, GetLoad(c, h)
    PROVE  ShardInv'
<1>1. /\ ShardTypes /\ ipc[c] \in CallerStates /\ h # 0 /\ LocalOf(h) >= 0
      /\ UNCHANGED <<requests, shardOwner, dedup, blocks, slotOf, committed, interned, resolved>>
    BY DEF GetLoad, ShardInv, ShardTypes
<1>2. PICK s \in Shards, i \in 0 .. LocalMask : h = HandleOf(s, i)
    BY DEF Handles, HandleOf
<1>3. h \in Nat /\ ShardOf(h) = s /\ i \in 1 .. LocalMask
  <2>1. h \in Nat /\ ShardOf(h) = s /\ LocalOf(h) = i - 1
    BY <1>2, HandleIs
  <2>2. LocalMask \in Nat
    BY ShardsAssumption, Zenon
  <2>. QED
    BY <1>1, <2>1, <2>2
<1>4. PICK k \in Nat : k = committed[s]
    BY <1>1, ShardTypesAt
<1>5. PICK g \in Nat : g = h
    BY <1>3
<1>6. PICK n \in CallerStates : n = [ipc[c] EXCEPT !.at = "get", !.handle = g, !.seen = k]
    BY <1>1 DEF CallerStates
<1>7. n.handle = h /\ n.seen = k /\ ipc' = [ipc EXCEPT ![c] = n]
    BY <1>1, <1>3, <1>4, <1>5, <1>6 DEF GetLoad, CallerStates
<1>8. ipc'[c] = n
    BY <1>1, <1>7 DEF ShardTypes
<1>9. Gets(c)'
  <2>1. ipc'[c].handle = HandleOf(s, i) /\ ipc'[c].seen <= committed'[s]
    BY <1>1, <1>2, <1>4, <1>7, <1>8
  <2>. QED
    BY <1>3, <2>1 DEF Gets, HandleOf
<1>. QED
    BY <1>1, <1>7, <1>9, ReaderKeeps

\* A reader looks at a slot only below what it saw committed.
LEMMA ReadKeeps ==
    ASSUME ShardInv, NEW c \in Callers, GetRead(c)
    PROVE  ShardInv'
<1>1. /\ ShardTypes /\ ipc[c].at = "get" /\ ipc[c] \in CallerStates /\ Gets(c)
      /\ UNCHANGED <<requests, shardOwner, dedup, blocks, slotOf, committed, interned>>
      /\ ipc' = [ipc EXCEPT ![c] = CallerIdle]
    BY DEF GetRead, ShardInv, ShardTypes
<1>2. PICK s \in Shards, i \in 1 .. LocalMask : ipc[c].handle = HandleOf(s, i) /\ ipc[c].seen <= committed[s]
    BY <1>1 DEF Gets
<1>3. PICK k \in Nat, l \in Nat : k = ipc[c].seen /\ l = i - 1 /\ i = l + 1
  <2>1. LocalMask \in Nat
    BY ShardsAssumption, Zenon
  <2>2. ipc[c].seen \in Nat
    BY <1>1 DEF CallerStates
  <2>3. i - 1 \in Nat /\ i = (i - 1) + 1
    BY <2>1
  <2>. QED
    BY <2>2, <2>3
<1>4. ShardOf(ipc[c].handle) = s /\ LocalOf(ipc[c].handle) = l
  <2>1. LocalMask \in Nat
    BY ShardsAssumption, Zenon
  <2>2. i \in 0 .. LocalMask
    BY <2>1
  <2>. QED
    BY <1>2, <1>3, <2>2, HandleIs
<1>5. l < k => l < Len(slotOf[s]) /\ l \div BlockLen < blocks[s] /\ i <= committed[s]
  <2>1. ShardIsSound(s)
    BY DEF ShardInv
  <2>2. ASSUME l < k
        PROVE  l < Len(slotOf[s]) /\ i <= committed[s]
    <3>1. committed[s] <= Len(slotOf[s]) /\ committed[s] \in Nat /\ Len(slotOf[s]) \in Nat
        BY <1>1, <2>1, ShardTypesAt DEF ShardIsSound, StringsInOrder, HasWritten
    <3>. QED
        BY <1>2, <1>3, <2>2, <3>1
  <2>3. ASSUME l < k
        PROVE  l \div BlockLen < blocks[s]
    <3>1. BlockLen \in Nat \ {0}
        BY ShardsAssumption, Zenon
    <3>2. PICK b \in Nat, n \in Nat : b = blocks[s] /\ n = Len(slotOf[s])
        BY <1>1, ShardTypesAt
    <3>3. l < n /\ n <= b * BlockLen
        BY <2>1, <2>2, <2>3, <3>2 DEF ShardIsSound, HasBlocks
    <3>4. l < b * BlockLen
        BY <3>1, <3>3
    <3>. QED
        BY <3>1, <3>2, <3>4, BlockIsThere
  <2>. QED
    BY <2>2, <2>3
<1>6. PICK given : /\ resolved' = resolved \union {<<ipc[c].handle, given>>}
                    /\ given = IF l >= k THEN Invalid ELSE slotOf[s][l + 1]
    BY <1>3, <1>4, <1>5 DEF GetRead
<1>7. \A r \in resolved' : r \in resolved \/ Got(r)'
  <2>1. PICK r : r = <<ipc[c].handle, given>>
    OBVIOUS
  <2>2. r[1] = HandleOf(s, i) /\ (r[2] = Invalid \/ (i <= committed[s] /\ r[2] = slotOf[s][i]))
    <3>1. r[1] = HandleOf(s, i) /\ r[2] = given
        BY <1>2, <2>1
    <3>2. l >= k \/ l < k
        BY <1>3
    <3>3. given = Invalid \/ (i <= committed[s] /\ given = slotOf[s][i])
        BY <1>3, <1>5, <1>6, <3>2
    <3>. QED
        BY <3>1, <3>3
  <2>3. Got(r)'
    BY <1>1, <2>2 DEF Got, HandleOf, Invalid
  <2>. QED
    BY <1>6, <2>1, <2>3
<1>8. CallerIdle \in CallerStates /\ CallerIdle.at = "idle"
    BY DEF CallerIdle, CallerStates
<1>9. Gets(c)'
  <2>1. ipc'[c] = CallerIdle
    BY <1>1 DEF ShardTypes
  <2>. QED
    BY <1>8, <2>1 DEF Gets
<1>. QED
    BY <1>1, <1>7, <1>8, <1>9, ReaderKeeps

\* Every step keeps the invariant.
LEMMA ShardStep == ShardInv /\ [NNext]_nvars => ShardInv'
<1>1. ASSUME ShardInv, NEW s \in Shards, OwnerStep(s) PROVE ShardInv'
    BY <1>1, PopKeeps, KnownKeeps, NewKeeps, WriteKeeps, CommitKeeps, RememberKeeps DEF OwnerStep
<1>2. ASSUME ShardInv, NEW c \in Callers,
             (\E x \in Strings \union {""} : Intern(c, x)) \/ (\E h \in Handles : GetLoad(c, h)) \/ GetRead(c)
      PROVE  ShardInv'
    BY <1>2, EmptyKeeps, AskKeeps, LoadKeeps, ReadKeeps
<1>3. ASSUME ShardInv, UNCHANGED nvars PROVE ShardInv'
  <2>1. UNCHANGED <<requests, shardOwner, dedup, blocks, slotOf, committed, ipc, interned, resolved>>
    BY <1>3 DEF nvars
  <2>2. ShardTypes' /\ StringsStay
    BY <1>3, <2>1, ShardTypesAt DEF ShardInv, ShardTypes, StringsStay
  <2>3. \A s \in Shards : ShardIsSound(s)'
    <3>1. \A s \in Shards : ShardRests(s)
        BY <2>1 DEF ShardRests
    <3>. QED
        BY <1>3, <3>1, RestIsSound DEF ShardInv
  <2>4. (\A p \in interned' : Named(p)') /\ (\A r \in resolved' : Got(r)') /\ (\A c \in Callers : Gets(c)')
    BY <1>3, <2>1, <2>2, KnownStays, GetsStay DEF ShardInv
  <2>. QED
    BY <2>2, <2>3, <2>4 DEF ShardInv
<1>. QED
    BY <1>1, <1>2, <1>3 DEF NNext

-----------------------------------------------------------------------------
(* What the interner promises *)

\* An inserted string: its place, its shard and its slot.
LEMMA InsertedIs ==
    ASSUME ShardInv, NEW s \in Shards, NEW i \in 1 .. Len(dedup[s])
    PROVE  /\ i \in 1 .. LocalMask /\ i <= Len(dedup[s]) /\ i <= committed[s]
           /\ dedup[s][i] \in Strings /\ shard_for[dedup[s][i]] = s /\ slotOf[s][i] = dedup[s][i]
<1>1. ShardIsSound(s) /\ ShardTypes
    BY DEF ShardInv
<1>2. LocalMask \in Nat
    BY ShardsAssumption, Zenon
<1>3. PICK n \in Nat, k \in Nat : n = Len(dedup[s]) /\ k = committed[s] /\ n <= LocalMask /\ n <= k
  <2>1. Len(dedup[s]) \in Nat /\ committed[s] \in Nat
    BY <1>1, ShardTypesAt
  <2>2. Len(dedup[s]) <= LocalMask /\ (committed[s] = Len(dedup[s]) + 1 \/ committed[s] = Len(dedup[s]))
    BY <1>1 DEF ShardIsSound, StringsInOrder
  <2>. QED
    BY <2>1, <2>2
<1>4. i \in 1 .. LocalMask /\ i <= Len(dedup[s]) /\ i <= committed[s]
    BY <1>2, <1>3
<1>5. shard_for[dedup[s][i]] = s /\ slotOf[s][i] = dedup[s][i]
    BY <1>1 DEF ShardIsSound, StringsInOrder
<1>6. dedup[s][i] \in Strings
  <2>1. dedup[s] \in Seq(Strings)
    BY <1>1, ShardTypesAt
  <2>. QED
    BY <2>1
<1>. QED
    BY <1>4, <1>5, <1>6

\* The strings with a handle, apart from the empty one.
LEMMA NamedIs ==
    ASSUME ShardInv, NEW p \in interned, p # <<"", 0>>
    PROVE  \E s \in Shards, i \in 1 .. LocalMask :
            /\ p = <<dedup[s][i], HandleOf(s, i)>> /\ i <= Len(dedup[s]) /\ i <= committed[s]
            /\ dedup[s][i] \in Strings /\ shard_for[dedup[s][i]] = s /\ slotOf[s][i] = dedup[s][i]
<1>1. PICK s \in Shards : \E i \in 1 .. Len(dedup[s]) : p = <<dedup[s][i], HandleOf(s, i)>>
    BY DEF ShardInv, Named
<1>2. PICK i \in 1 .. Len(dedup[s]) : p = <<dedup[s][i], HandleOf(s, i)>>
    BY <1>1
<1>3. /\ i \in 1 .. LocalMask /\ i <= Len(dedup[s]) /\ i <= committed[s]
      /\ dedup[s][i] \in Strings /\ shard_for[dedup[s][i]] = s /\ slotOf[s][i] = dedup[s][i]
    BY InsertedIs
<1>. QED
    BY <1>2, <1>3, Zenon

\* The invariant says that handles are exact.
LEMMA ShardPromises == ShardInv => HandlesAreExact
<1>. SUFFICES ASSUME ShardInv PROVE HandlesAreExact
    OBVIOUS
<1>1. LocalMask \in Nat
    BY ShardsAssumption, Zenon
<1>2. Strings \intersect {"", Invalid, Uninit} = {} /\ Invalid # Uninit
    BY ShardsAssumption DEF Invalid, Uninit
<1>3. ASSUME NEW s \in Shards, NEW i \in 1 .. LocalMask
      PROVE  ShardOf(HandleOf(s, i)) = s /\ LocalOf(HandleOf(s, i)) = i - 1 /\ HandleOf(s, i) # 0
  <2>1. i \in 0 .. LocalMask /\ i # 0
    BY <1>1
  <2>. QED
    BY <2>1, HandleIs
<1>4. ASSUME NEW p \in interned, NEW q \in interned PROVE p[1] = q[1] <=> p[2] = q[2]
  <2>1. CASE p # <<"", 0>> /\ q # <<"", 0>>
    <3>1. PICK s \in Shards, i \in 1 .. LocalMask :
            /\ p = <<dedup[s][i], HandleOf(s, i)>> /\ i <= Len(dedup[s])
            /\ shard_for[dedup[s][i]] = s
        BY <2>1, NamedIs
    <3>2. PICK u \in Shards, j \in 1 .. LocalMask :
            /\ q = <<dedup[u][j], HandleOf(u, j)>> /\ j <= Len(dedup[u])
            /\ shard_for[dedup[u][j]] = u
        BY <2>1, NamedIs
    <3>3. ASSUME p[1] = q[1] PROVE p[2] = q[2]
        <4>1. dedup[s][i] = dedup[u][j]
            BY <3>1, <3>2, <3>3
        <4>2. s = u
            BY <3>1, <3>2, <4>1
        <4>3. i = j
            <5>1. i \in 1 .. Len(dedup[s]) /\ j \in 1 .. Len(dedup[s])
                BY <1>1, <3>1, <3>2, <4>2, ShardTypesAt DEF ShardInv
            <5>. QED
                BY <4>1, <4>2, <5>1 DEF ShardInv, ShardIsSound, StringsInOrder
        <4>. QED
            BY <3>1, <3>2, <4>2, <4>3
    <3>4. ASSUME p[2] = q[2] PROVE p[1] = q[1]
        <4>1. HandleOf(s, i) = HandleOf(u, j)
            BY <3>1, <3>2, <3>4
        <4>2. s = u /\ i - 1 = j - 1
            BY <1>3, <4>1
        <4>3. i = j
            BY <1>1, <4>2
        <4>. QED
            BY <3>1, <3>2, <4>2, <4>3
    <3>. QED
        BY <3>3, <3>4
  <2>2. \A a \in interned : a # <<"", 0>> => a[1] # "" /\ a[2] # 0
    <3>1. ASSUME NEW a \in interned, a # <<"", 0>> PROVE a[1] # "" /\ a[2] # 0
        <4>1. PICK s \in Shards, i \in 1 .. LocalMask :
                a = <<dedup[s][i], HandleOf(s, i)>> /\ dedup[s][i] \in Strings
            BY <3>1, NamedIs
        <4>. QED
            BY <1>2, <1>3, <4>1
    <3>. QED
        BY <3>1
  <2>3. CASE p = <<"", 0>>
    BY <2>2, <2>3, EmptyPair
  <2>4. CASE q = <<"", 0>>
    BY <2>2, <2>4, EmptyPair
  <2>. QED
    BY <2>1, <2>3, <2>4
<1>5. ASSUME NEW r \in resolved PROVE r[2] # Uninit
  <2>1. PICK s \in Shards, i \in 1 .. LocalMask : r[2] = Invalid \/ (i <= committed[s] /\ r[2] = slotOf[s][i])
    BY DEF ShardInv, Got
  <2>2. CASE i <= committed[s] /\ r[2] = slotOf[s][i]
    <3>1. i \in 1 .. Len(slotOf[s])
        BY <1>1, <2>2, ShardTypesAt DEF ShardInv, ShardIsSound, StringsInOrder, HasWritten
    <3>2. slotOf[s][i] \in Strings
        BY <3>1, ShardTypesAt DEF ShardInv
    <3>. QED
        BY <1>2, <2>2, <3>2
  <2>. QED
    BY <1>2, <2>1, <2>2
<1>6. ASSUME NEW p \in interned, NEW r \in resolved, p[2] = r[1] PROVE r[2] \in {p[1], Invalid}
  <2>1. PICK s \in Shards, i \in 1 .. LocalMask :
            r[1] = HandleOf(s, i) /\ (r[2] = Invalid \/ (i <= committed[s] /\ r[2] = slotOf[s][i]))
    BY DEF ShardInv, Got
  <2>2. p # <<"", 0>>
    BY <1>3, <1>6, <2>1, EmptyPair
  <2>3. PICK u \in Shards, j \in 1 .. LocalMask :
            p = <<dedup[u][j], HandleOf(u, j)>> /\ slotOf[u][j] = dedup[u][j]
    BY <2>2, NamedIs
  <2>4. HandleOf(s, i) = HandleOf(u, j)
    BY <1>6, <2>1, <2>3
  <2>5. s = u /\ i - 1 = j - 1
    BY <1>3, <2>4
  <2>6. i = j
    BY <1>1, <2>5
  <2>. QED
    BY <2>1, <2>3, <2>5, <2>6
<1>7. ASSUME NEW p \in interned, p[1] # ""
      PROVE  /\ p[2] # 0 /\ LocalOf(p[2]) < committed[ShardOf(p[2])]
             /\ slotOf[ShardOf(p[2])][LocalOf(p[2]) + 1] = p[1]
  <2>1. p # <<"", 0>>
    BY <1>7, EmptyPair
  <2>2. PICK s \in Shards, i \in 1 .. LocalMask :
            p = <<dedup[s][i], HandleOf(s, i)>> /\ i <= committed[s] /\ slotOf[s][i] = dedup[s][i]
    BY <2>1, NamedIs
  <2>3. p[2] # 0 /\ ShardOf(p[2]) = s /\ LocalOf(p[2]) = i - 1
    BY <1>3, <2>2
  <2>4. committed[s] \in Nat /\ i - 1 < committed[s] /\ (i - 1) + 1 = i
    BY <1>1, <2>2, ShardTypesAt DEF ShardInv
  <2>. QED
    BY <2>2, <2>3, <2>4
<1>. QED
    BY <1>4, <1>5, <1>6, <1>7 DEF HandlesAreExact

\* HandlesAreExact: an intern is an injection that readers undo, and no reader
\* looks at an unwritten slot (interner_shard.rs, get_or_insert and Table::get).
THEOREM HandlesExact == NSpec => []HandlesAreExact
<1>1. NSpec => []ShardInv
    BY ShardInit, ShardStep, PTL DEF NSpec
<1>. QED
    BY <1>1, ShardPromises, PTL

-----------------------------------------------------------------------------
(* The frozen bank *)

Size == 2 * MaxEntries

\* The k-th slot of a text's probe sequence, without the modulus.
Place(x, k) == IF home[x] + k < Size THEN home[x] + k ELSE home[x] + k - Size

Text(i) == entries[table[i]].text
Ord(i) == entries[table[i]].ord

\* A walk for x gets to slot i: the slots before it hold other texts.
Reach(x, i) ==
    \E k \in 0 .. Size - 1 :
        /\ i = Place(x, k)
        /\ \A j \in 0 .. k - 1 : table[Place(x, j)] # 0 /\ Text(Place(x, j)) # x

Written == [text : Texts \union {""}, ord : Nat]
PutPlaces == [at : {"probe", "claim", "look", "cas", "done"}, i : TableSlots, cur : Nat, id : Nat, res : Nat]

\* The inductive invariant of the bank, in named parts.
BankTypes ==
    /\ table \in [TableSlots -> Nat]
    /\ entries \in Seq(Written)
    /\ used \in [count : Nat, bytes : Nat]
    /\ Len(entries) = (IF used.count <= MaxEntries THEN used.count ELSE MaxEntries)
    /\ call \in [Putters -> [text : Texts, ord : Nat]]
    /\ bpc \in [Putters -> PutPlaces]

\* A slot's entry has been written, and a walk for its text gets to the slot.
TableWalks ==
    \A i \in TableSlots : table[i] # 0 =>
        table[i] \in 1 .. Len(entries) /\ Text(i) \in Texts /\ Reach(Text(i), i)

\* A bank takes puts or interns; the entries of interns have no ordinal.
OneMode ==
    \/ \A t \in Putters : ~Interns(t)
    \/ (\A t \in Putters : Interns(t)) /\ (\A e \in 1 .. Len(entries) : entries[e].ord = 0)

\* The entry a thread has claimed is its own: in no slot and no other thread's.
Claimed(t) == bpc[t].at \in {"look", "cas"}
ClaimsApart ==
    \A t \in Putters : Claimed(t) =>
        /\ bpc[t].id \in 1 .. Len(entries) /\ entries[bpc[t].id] = call[t]
        /\ \A i \in TableSlots : table[i] # bpc[t].id
        /\ \A u \in Putters : u # t /\ Claimed(u) => bpc[u].id # bpc[t].id

\* A thread's walk got to where it is, and what it means to displace holds its
\* text with a higher ordinal.
Walking(t) ==
    /\ bpc[t].at # "done" => Reach(call[t].text, bpc[t].i)
    /\ bpc[t].at = "cas" /\ bpc[t].cur # 0 =>
        /\ bpc[t].cur \in 1 .. Len(entries) /\ entries[bpc[t].cur].text = call[t].text
        /\ ~Interns(t) /\ call[t].ord < entries[bpc[t].cur].ord

\* Slot i answers for call c, which has returned res.
Answers(c, res, i) ==
    /\ table[i] # 0 /\ Text(i) = c.text /\ Ord(i) <= c.ord
    /\ c.ord = 0 => res = table[i]
    /\ res # Refused =>
        /\ res \in 1 .. Len(entries) /\ entries[res] = c
        /\ table[i] = res \/ Ord(i) < c.ord
Answered(t) ==
    bpc[t].at = "done" /\ bpc[t].res # Full => \E i \in TableSlots : Answers(call[t], bpc[t].res, i)

BankInv ==
    /\ BankTypes /\ TableWalks /\ OneMode /\ ClaimsApart
    /\ \A t \in Putters : Walking(t) /\ Answered(t)

-----------------------------------------------------------------------------
(* Probe sequences *)

\* The probe sequence in the terms of the code.
LEMMA PlaceIs ==
    ASSUME NEW x \in Texts, NEW k \in 0 .. Size - 1
    PROVE  /\ Place(x, k) = (home[x] + k) % (2 * MaxEntries) /\ Place(x, k) \in TableSlots
           /\ Place(x, 0) = home[x]
<1>. USE BankAssumption DEF Size, TableSlots, Place
<1>1. home[x] \in 0 .. Size - 1 /\ Size \in Nat \ {0}
    OBVIOUS
<1>2. ASSUME NEW n \in Nat \ {0}, NEW a \in 0 .. n - 1, NEW b \in 0 .. n - 1
      PROVE  (a + b) % n = IF a + b < n THEN a + b ELSE a + b - n
  <2>1. CASE a + b < n
    BY <2>1
  <2>2. CASE ~(a + b < n)
    <3>1. a + b = n * 1 + (a + b - n) /\ a + b - n \in 0 .. n - 1
        BY <2>2
    <3>. QED
        BY <2>2, <3>1
  <2>. QED
    BY <2>1, <2>2
<1>3. (home[x] + k) % Size = IF home[x] + k < Size THEN home[x] + k ELSE home[x] + k - Size
    BY <1>1, <1>2
<1>. QED
    BY <1>1, <1>3

\* A walk starts at the home slot and goes on behind a slot with another text.
LEMMA ReachHome == ASSUME NEW x \in Texts PROVE Reach(x, home[x])
<1>1. 0 \in 0 .. Size - 1
    BY BankAssumption DEF Size
<1>. QED
    BY <1>1, PlaceIs DEF Reach

\* The slot behind is the home slot again, or the next of the sequence.
LEMMA ReachNext ==
    ASSUME NEW x \in Texts, NEW i \in TableSlots, Reach(x, i), table[i] # 0, Text(i) # x
    PROVE  Next1(i) \in TableSlots /\ Reach(x, Next1(i))
<1>. USE BankAssumption
<1>1. PICK k \in 0 .. Size - 1 :
        /\ i = Place(x, k)
        /\ \A j \in 0 .. k - 1 : table[Place(x, j)] # 0 /\ Text(Place(x, j)) # x
    BY DEF Reach
<1>2. home[x] \in 0 .. Size - 1 /\ Size \in Nat \ {0} /\ Size = 2 * MaxEntries /\ i \in 0 .. Size - 1
    BY DEF Size, TableSlots
<1>3. Next1(i) = IF i + 1 < Size THEN i + 1 ELSE 0
    BY <1>2 DEF Next1
<1>4. CASE k = Size - 1
  <2>1. Next1(i) = home[x]
    BY <1>1, <1>2, <1>3, <1>4 DEF Place
  <2>. QED
    BY <1>2, <2>1, ReachHome DEF TableSlots, Size
<1>5. CASE k # Size - 1
  <2>1. k + 1 \in 0 .. Size - 1 /\ Next1(i) = Place(x, k + 1)
    BY <1>1, <1>2, <1>3, <1>5 DEF Place
  <2>2. \A j \in 0 .. (k + 1) - 1 : table[Place(x, j)] # 0 /\ Text(Place(x, j)) # x
    BY <1>1
  <2>. QED
    BY <2>1, <2>2, PlaceIs DEF Reach
<1>. QED
    BY <1>4, <1>5

\* A text is in one slot: the walk to a second one would have met the first.
LEMMA OneSlot ==
    ASSUME TableWalks, NEW i \in TableSlots, NEW j \in TableSlots,
           table[i] # 0, table[j] # 0, Text(i) = Text(j)
    PROVE  i = j
<1>. DEFINE x == Text(i)
<1>1. PICK k \in 0 .. Size - 1 :
        /\ i = Place(x, k) /\ \A m \in 0 .. k - 1 : table[Place(x, m)] # 0 /\ Text(Place(x, m)) # x
    BY DEF TableWalks, Reach
<1>2. PICK l \in 0 .. Size - 1 :
        /\ j = Place(x, l) /\ \A m \in 0 .. l - 1 : table[Place(x, m)] # 0 /\ Text(Place(x, m)) # x
    BY DEF TableWalks, Reach
<1>3. ~(k < l) /\ ~(l < k)
    BY <1>1, <1>2
<1>4. k = l
    BY <1>3
<1>. QED
    BY <1>1, <1>2, <1>4

\* fbank_find's walk ends at the slot that holds the text.
LEMMA FindIs ==
    ASSUME TableWalks, NEW i \in TableSlots, table[i] # 0
    PROVE  fbank_find(Text(i)) = table[i]
<1>. DEFINE x == Text(i)
            probed(k) == (home[x] + k) % (2 * MaxEntries)
            stops == {k \in 0 .. 2 * MaxEntries - 1 : table[probed(k)] = 0 \/ entries[table[probed(k)]].text = x}
<1>1. x \in Texts
    BY DEF TableWalks
<1>2. PICK k \in 0 .. Size - 1 :
        /\ i = Place(x, k) /\ \A m \in 0 .. k - 1 : table[Place(x, m)] # 0 /\ Text(Place(x, m)) # x
    BY DEF TableWalks, Reach
<1>3. \A m \in 0 .. Size - 1 : probed(m) = Place(x, m)
    BY <1>1, PlaceIs
<1>4. k \in stops /\ \A m \in stops : k <= m
  <2>1. probed(k) = i /\ entries[table[i]].text = x
    BY <1>2, <1>3 DEF Text
  <2>2. k \in stops
    BY <2>1 DEF Size
  <2>3. ASSUME NEW m \in stops PROVE ~(m < k)
    <3>1. m \in 0 .. Size - 1 /\ (table[Place(x, m)] = 0 \/ Text(Place(x, m)) = x)
        BY <1>3 DEF Size, Text
    <3>. QED
        BY <1>2, <3>1
  <2>4. \A m \in stops : m \in Int
    OBVIOUS
  <2>. HIDE DEF stops
  <2>. QED
    BY <2>2, <2>3, <2>4
<1>5. stops \subseteq Int
    OBVIOUS
<1>6. Min(stops) = k
  <2>. HIDE DEF stops
  <2>1. Min(stops) \in stops /\ \A m \in stops : Min(stops) <= m
    BY <1>4, Zenon DEF Min
  <2>2. Min(stops) <= k /\ k <= Min(stops)
    BY <1>4, <2>1
  <2>3. \A m, n \in Int : m <= n /\ n <= m => m = n
    OBVIOUS
  <2>4. Min(stops) \in Int /\ k \in Int
    BY <1>4, <1>5, <2>1
  <2>. QED
    BY <2>2, <2>3, <2>4
<1>7. fbank_find(x) = table[probed(Min(stops))]
    BY DEF fbank_find
<1>. QED
    BY <1>2, <1>3, <1>6, <1>7

-----------------------------------------------------------------------------
(* Steps *)

\* What every step does to the entries and the slots: entries stay as written,
\* and a slot keeps its text and gets a lower ordinal if it changes.
EntriesStay ==
    /\ Len(entries') >= Len(entries)
    /\ \A e \in 1 .. Len(entries) : entries'[e] = entries[e]
SlotsStay ==
    \A i \in TableSlots : table[i] # 0 =>
        /\ table'[i] # 0 /\ entries'[table'[i]].text = Text(i)
        /\ table'[i] = table[i] \/ entries'[table'[i]].ord < Ord(i)

\* A place that a walk gets to stays one.
LEMMA ReachStays ==
    ASSUME SlotsStay, NEW x \in Texts, NEW i \in TableSlots, Reach(x, i)
    PROVE  Reach(x, i)'
<1>1. PICK k \in 0 .. Size - 1 :
        /\ i = Place(x, k) /\ \A j \in 0 .. k - 1 : table[Place(x, j)] # 0 /\ Text(Place(x, j)) # x
    BY DEF Reach
<1>2. ASSUME NEW j \in 0 .. k - 1
      PROVE  table'[Place(x, j)] # 0 /\ entries'[table'[Place(x, j)]].text # x
  <2>1. j \in 0 .. Size - 1
    BY <1>1, BankAssumption DEF Size
  <2>2. Place(x, j) \in TableSlots
    BY <2>1, PlaceIs
  <2>. QED
    BY <1>1, <2>2 DEF SlotsStay
<1>. QED
    BY <1>1, <1>2 DEF Reach, Place, Text

\* Facts that a thread's typing gives.
LEMMA ThreadTypes ==
    ASSUME BankTypes, NEW t \in Putters
    PROVE  /\ call[t].text \in Texts /\ call[t].ord \in Nat /\ bpc[t].i \in TableSlots
           /\ bpc[t].id \in Nat /\ bpc[t].cur \in Nat /\ bpc[t].res \in Nat
           /\ home[call[t].text] \in TableSlots
    BY BankAssumption DEF BankTypes, PutPlaces

\* An entry that is written has an ordinal.
LEMMA OrdIsNat ==
    ASSUME BankTypes, NEW e \in 1 .. Len(entries)
    PROVE  entries[e] \in Written /\ entries[e].ord \in Nat
<1>1. entries[e] \in Written
    BY DEF BankTypes
<1>. QED
    BY <1>1 DEF Written

\* What an id whose bytes do not fit holds.
LEMMA BlankIsWritten == [text |-> "", ord |-> 0] \in Written /\ [text |-> "", ord |-> 0].ord = 0
    BY DEF Written

\* The types of slots and entries.
SlotTypes ==
    /\ Len(entries) \in Nat /\ \A i \in TableSlots : table[i] \in Nat
    /\ \A e \in 1 .. Len(entries) : entries[e].ord \in Nat

\* They follow from the types of the whole.
LEMMA SlotsTyped == BankTypes => SlotTypes
<1>. SUFFICES ASSUME BankTypes PROVE SlotTypes
    OBVIOUS
<1>1. Len(entries) \in Nat
    BY BankAssumption DEF BankTypes
<1>2. table \in [TableSlots -> Nat]
    BY DEF BankTypes
<1>3. \A i \in TableSlots : table[i] \in Nat
    BY <1>2
<1>. QED
    BY <1>1, <1>3, OrdIsNat DEF SlotTypes

\* A slot that answers a call answers it after the step.
LEMMA AnswerStays ==
    ASSUME BankTypes, BankTypes', TableWalks, EntriesStay, SlotsStay,
           \A j \in TableSlots : table'[j] # 0 => table'[j] \in 1 .. Len(entries'),
           NEW c \in [text : Texts, ord : Nat], NEW res \in Nat, NEW i \in TableSlots,
           c.ord = 0 => \A e \in 1 .. Len(entries) : entries[e].ord = 0,
           Answers(c, res, i)
    PROVE  Answers(c, res, i)'
<1>1. table[i] \in 1 .. Len(entries) /\ table'[i] \in 1 .. Len(entries')
    BY DEF Answers, TableWalks, SlotsStay
<1>2. Ord(i) \in Nat /\ entries'[table'[i]].ord \in Nat /\ c.ord \in Nat
  <2>1. Ord(i) \in Nat
    BY <1>1, OrdIsNat DEF Ord
  <2>2. SlotTypes'
    BY SlotsTyped, PTL
  <2>. QED
    BY <1>1, <2>1, <2>2 DEF SlotTypes
<1>3. table'[i] # 0 /\ entries'[table'[i]].text = c.text
    BY DEF Answers, SlotsStay
<1>4. table'[i] = table[i] => entries'[table'[i]].ord = Ord(i)
    BY <1>1 DEF EntriesStay, Ord
<1>5. entries'[table'[i]].ord <= c.ord
    BY <1>2, <1>4 DEF Answers, SlotsStay
<1>6. c.ord = 0 => res = table'[i]
  <2>1. c.ord = 0 => Ord(i) = 0
    BY <1>1 DEF Ord
  <2>. QED
    BY <1>2, <2>1 DEF Answers, SlotsStay
<1>7. ASSUME res # Refused
      PROVE  /\ res \in 1 .. Len(entries') /\ entries'[res] = c
             /\ table'[i] = res \/ entries'[table'[i]].ord < c.ord
  <2>1. /\ res \in 1 .. Len(entries) /\ entries[res] = c
        /\ table[i] = res \/ Ord(i) < c.ord
    BY <1>7 DEF Answers
  <2>2. res \in 1 .. Len(entries') /\ entries'[res] = c
    <3>1. SlotTypes /\ SlotTypes'
        BY SlotsTyped, PTL
    <3>. QED
        BY <2>1, <3>1 DEF EntriesStay, SlotTypes
  <2>3. CASE table'[i] = table[i]
    BY <1>2, <1>4, <2>1, <2>2, <2>3
  <2>4. CASE table'[i] # table[i]
    <3>1. entries'[table'[i]].ord < Ord(i) /\ Ord(i) <= c.ord
        BY <2>4 DEF Answers, SlotsStay
    <3>. QED
        BY <1>2, <2>2, <3>1
  <2>. QED
    BY <2>3, <2>4
<1>. QED
    BY <1>3, <1>5, <1>6, <1>7 DEF Answers, Text, Ord

\* A thread that does nothing in a step is as it was.
LEMMA OtherThread ==
    ASSUME BankTypes, BankTypes', TableWalks, OneMode, EntriesStay, SlotsStay,
           \A i \in TableSlots : table'[i] # 0 => table'[i] \in 1 .. Len(entries'),
           NEW t \in Putters, UNCHANGED call, bpc'[t] = bpc[t], Walking(t), Answered(t)
    PROVE  Walking(t)' /\ Answered(t)'
<1>1. Walking(t)'
  <2>1. ASSUME bpc[t].at # "done"
        PROVE  Reach(call[t].text, bpc[t].i)'
    <3>1. PICK x \in Texts : x = call[t].text
        BY ThreadTypes
    <3>2. PICK i \in TableSlots : i = bpc[t].i
        BY ThreadTypes
    <3>3. Reach(x, i)
        BY <2>1, <3>1, <3>2 DEF Walking
    <3>4. Reach(x, i)'
        BY <3>3, ReachStays
    <3>5. (call[t].text)' = x /\ (bpc[t].i)' = i
        BY <3>1, <3>2
    <3>. QED
        BY <3>4, <3>5 DEF Reach, Place, Text
  <2>2. ASSUME bpc[t].at = "cas", bpc[t].cur # 0
        PROVE  /\ bpc[t].cur \in 1 .. Len(entries') /\ entries'[bpc[t].cur].text = call[t].text
               /\ ~Interns(t) /\ call[t].ord < entries'[bpc[t].cur].ord
    <3>1. bpc[t].cur \in 1 .. Len(entries) /\ entries[bpc[t].cur].text = call[t].text
          /\ ~Interns(t) /\ call[t].ord < entries[bpc[t].cur].ord
        BY <2>2 DEF Walking
    <3>2. SlotTypes /\ SlotTypes'
        BY SlotsTyped, PTL
    <3>. QED
        BY <3>1, <3>2 DEF EntriesStay, SlotTypes
  <2>. QED
    BY <2>1, <2>2 DEF Walking, Interns
<1>2. Answered(t)'
  <2>1. ASSUME bpc[t].at = "done", bpc[t].res # Full
        PROVE  \E i \in TableSlots : Answers(call[t], bpc[t].res, i)'
    <3>1. PICK c \in [text : Texts, ord : Nat] : c = call[t]
        BY DEF BankTypes
    <3>2. PICK res \in Nat : res = bpc[t].res
        BY ThreadTypes
    <3>3. PICK i \in TableSlots : Answers(c, res, i)
        BY <2>1, <3>1, <3>2 DEF Answered
    <3>4. c.ord = 0 => \A e \in 1 .. Len(entries) : entries[e].ord = 0
        BY <3>1 DEF OneMode, Interns
    <3>5. Answers(c, res, i)'
        BY <3>3, <3>4, AnswerStays
    <3>6. (call[t])' = c /\ (bpc[t].res)' = res
        BY <3>1, <3>2
    <3>. QED
        BY <3>5, <3>6 DEF Answers, Text, Ord
  <2>. QED
    BY <2>1 DEF Answered
<1>. QED
    BY <1>1, <1>2

\* At first every slot is free and every walk at its home.
LEMMA BankInit == FInit => BankInv
<1>. SUFFICES ASSUME FInit PROVE BankInv
    OBVIOUS
<1>. USE BankAssumption
<1>1. /\ table = [i \in TableSlots |-> 0] /\ entries = <<>> /\ used = [count |-> 0, bytes |-> 0] /\ Len(entries) = 0
      /\ bpc = [t \in Putters |-> Start(t)]
    BY DEF FInit
<1>2. call \in [Putters -> [text : Texts, ord : Nat]] /\ OneMode
  <2>1. PICK texts \in [Putters -> Texts] :
        \/ \E ord \in {f \in [Putters -> 1 .. Cardinality(Putters)] :
                        \A p, q \in Putters : p # q => f[p] # f[q]} :
            call = [t \in Putters |-> [text |-> texts[t], ord |-> ord[t]]]
        \/ call = [t \in Putters |-> [text |-> texts[t], ord |-> 0]]
    BY DEF FInit
  <2>2. ASSUME NEW ord \in [Putters -> 1 .. Cardinality(Putters)],
               call = [t \in Putters |-> [text |-> texts[t], ord |-> ord[t]]]
        PROVE  call \in [Putters -> [text : Texts, ord : Nat]] /\ OneMode
    <3>1. Cardinality(Putters) \in Nat
        BY FS_CardinalityType
    <3>2. \A t \in Putters : ord[t] \in Nat \ {0}
        BY <2>2, <3>1
    <3>. QED
        BY <2>1, <2>2, <3>2 DEF OneMode, Interns
  <2>3. ASSUME call = [t \in Putters |-> [text |-> texts[t], ord |-> 0]]
        PROVE  call \in [Putters -> [text : Texts, ord : Nat]] /\ OneMode
    BY <1>1, <2>1, <2>3 DEF OneMode, Interns
  <2>. QED
    BY <2>1, <2>2, <2>3
<1>3. \A t \in Putters : bpc[t] = [at |-> "probe", i |-> home[call[t].text], cur |-> 0, id |-> 0, res |-> 0]
                         /\ call[t].text \in Texts /\ home[call[t].text] \in TableSlots
    BY <1>1, <1>2 DEF Start
<1>4. BankTypes
  <2>1. entries \in Seq([text : Texts \union {""}, ord : Nat])
    BY <1>1
  <2>2. bpc \in [Putters -> PutPlaces]
    <3>1. bpc = [t \in Putters |-> bpc[t]]
        BY <1>1
    <3>. QED
        BY <1>3, <3>1 DEF PutPlaces
  <2>. QED
    BY <1>1, <1>2, <2>1, <2>2 DEF BankTypes
<1>5. TableWalks
    BY <1>1 DEF TableWalks
<1>8. ASSUME NEW t \in Putters PROVE bpc[t].at = "probe" /\ bpc[t].i = home[call[t].text]
  <2>1. bpc[t] = Start(t)
    BY <1>1
  <2>. QED
    BY <2>1 DEF Start
<1>6. ClaimsApart
    BY <1>8 DEF ClaimsApart, Claimed
<1>7. ASSUME NEW t \in Putters PROVE Walking(t) /\ Answered(t)
  <2>1. Reach(call[t].text, bpc[t].i)
    BY <1>3, <1>8, ReachHome
  <2>. QED
    BY <1>8, <2>1 DEF Walking, Answered
<1>. QED
    BY <1>2, <1>4, <1>5, <1>6, <1>7 DEF BankInv

\* What a step that leaves the slots and the entries alone has to show of the
\* place n where its thread gets to.
LEMMA QuietPutter ==
    ASSUME BankInv, UNCHANGED <<table, entries, used, call>>, NEW t \in Putters, NEW n \in PutPlaces,
           bpc' = [bpc EXCEPT ![t] = n], n.id = bpc[t].id, n.at \in {"look", "cas"} => Claimed(t),
           n.at # "done" => Reach(call[t].text, n.i),
           n.at = "cas" /\ n.cur # 0 =>
                /\ n.cur \in 1 .. Len(entries) /\ entries[n.cur].text = call[t].text
                /\ ~Interns(t) /\ call[t].ord < entries[n.cur].ord,
           n.at = "done" /\ n.res # Full => \E i \in TableSlots : Answers(call[t], n.res, i)
    PROVE  BankInv'
<1>1. bpc'[t] = n /\ \A u \in Putters \ {t} : bpc'[u] = bpc[u]
    BY DEF BankInv, BankTypes
<1>2. BankTypes'
    BY DEF BankInv, BankTypes
<1>3. TableWalks' /\ OneMode' /\ EntriesStay /\ SlotsStay
  <2>1. TableWalks'
    BY DEF BankInv, TableWalks, Text, Reach, Place
  <2>2. OneMode'
    BY DEF BankInv, OneMode, Interns
  <2>3. Len(entries) \in Nat
    BY SlotsTyped DEF BankInv, SlotTypes
  <2>. QED
    BY <2>1, <2>2, <2>3 DEF EntriesStay, SlotsStay, Text
<1>4. ClaimsApart'
    BY <1>1 DEF BankInv, ClaimsApart, Claimed
<1>5. ASSUME NEW u \in Putters \ {t} PROVE Walking(u)' /\ Answered(u)'
  <2>1. \A j \in TableSlots : table'[j] # 0 => table'[j] \in 1 .. Len(entries')
    BY DEF BankInv, TableWalks
  <2>. QED
    BY <1>1, <1>2, <1>3, <2>1, OtherThread DEF BankInv
<1>6. Walking(t)'
    BY <1>1 DEF Walking, Reach, Place, Text, Interns
<1>7. Answered(t)'
    BY <1>1 DEF Answered, Answers, Text, Ord
<1>. QED
    BY <1>2, <1>3, <1>4, <1>5, <1>6, <1>7 DEF BankInv

\* A slot that holds the text of a call answers it with the holder, if it is an
\* intern, and with a refusal, if the holder's ordinal is no higher.
LEMMA HolderAnswers ==
    ASSUME BankInv, NEW t \in Putters, NEW i \in TableSlots, table[i] # 0, Text(i) = call[t].text
    PROVE  /\ table[i] \in 1 .. Len(entries) /\ Ord(i) \in Nat /\ table[i] \in Nat
           /\ Interns(t) => Answers(call[t], table[i], i)
           /\ ~Interns(t) /\ Ord(i) <= call[t].ord => Answers(call[t], Refused, i)
<1>1. /\ table[i] \in 1 .. Len(entries) /\ Ord(i) \in Nat /\ table[i] \in Nat
      /\ entries[table[i]] \in Written
  <2>1. table[i] \in 1 .. Len(entries) /\ table[i] \in Nat
    BY SlotsTyped DEF BankInv, TableWalks, SlotTypes
  <2>. QED
    BY <2>1, OrdIsNat DEF BankInv, Ord
<1>2. call[t] \in [text : Texts, ord : Nat]
    BY DEF BankInv, BankTypes
<1>3. ASSUME Interns(t) PROVE Answers(call[t], table[i], i)
  <2>1. call[t].ord = 0 /\ Ord(i) = 0
    BY <1>1, <1>3 DEF BankInv, OneMode, Interns, Ord
  <2>2. entries[table[i]] = call[t]
    <3>1. /\ entries[table[i]] = [text |-> Text(i), ord |-> Ord(i)]
          /\ call[t] = [text |-> call[t].text, ord |-> call[t].ord]
        BY <1>1, <1>2 DEF Written, Text, Ord
    <3>. QED
        BY <2>1, <3>1
  <2>3. Ord(i) <= call[t].ord
    BY <2>1
  <2>. QED
    BY <1>1, <2>2, <2>3, Zenon DEF Answers
<1>4. ASSUME ~Interns(t), Ord(i) <= call[t].ord PROVE Answers(call[t], Refused, i)
    BY <1>4 DEF Answers, Interns
<1>. QED
    BY <1>1, <1>3, <1>4

\* The read-only probe.
LEMMA ProbeKeeps ==
    ASSUME BankInv, NEW t \in Putters, Probe(t)
    PROVE  BankInv'
<1>. DEFINE cur == table[bpc[t].i]
<1>1. bpc[t].at = "probe" /\ bpc[t] \in PutPlaces /\ UNCHANGED <<table, entries, used, call>>
    BY DEF Probe, BankInv, BankTypes
<1>2. /\ call[t].text \in Texts /\ bpc[t].i \in TableSlots /\ Reach(call[t].text, bpc[t].i)
    BY <1>1, ThreadTypes DEF BankInv, Walking
<1>3. CASE bpc' = [bpc EXCEPT ![t].at = "claim"]
  <2>1. PICK n \in PutPlaces : n = [bpc[t] EXCEPT !.at = "claim"]
    BY <1>1 DEF PutPlaces
  <2>2. n.at = "claim" /\ n.i = bpc[t].i /\ n.id = bpc[t].id /\ bpc' = [bpc EXCEPT ![t] = n]
    BY <1>1, <1>3, <2>1 DEF PutPlaces
  <2>. QED
    BY <1>1, <1>2, <2>2, QuietPutter
<1>4. CASE cur # 0 /\ ~Matches(t, cur) /\ bpc' = [bpc EXCEPT ![t].i = Next1(@)]
  <2>1. Next1(bpc[t].i) \in TableSlots /\ Reach(call[t].text, Next1(bpc[t].i))
    BY <1>2, <1>4, ReachNext DEF Matches, Text
  <2>2. PICK n \in PutPlaces : n = [bpc[t] EXCEPT !.i = Next1(bpc[t].i)]
    BY <1>1, <2>1 DEF PutPlaces
  <2>3. n.at = "probe" /\ n.i = Next1(bpc[t].i) /\ n.id = bpc[t].id /\ bpc' = [bpc EXCEPT ![t] = n]
    BY <1>1, <1>4, <2>2 DEF PutPlaces
  <2>. QED
    BY <1>1, <2>1, <2>3, QuietPutter
<1>5. CASE /\ cur # 0 /\ Matches(t, cur)
           /\ \/ Interns(t) /\ Finish(t, cur)
              \/ ~Interns(t) /\ entries[cur].ord <= call[t].ord /\ Finish(t, Refused)
  <2>1. PICK res \in Nat : Finish(t, res) /\ Answers(call[t], res, bpc[t].i)
    <3>1. Refused \in Nat
        BY BankAssumption DEF Refused
    <3>. QED
        BY <1>2, <1>5, <3>1, HolderAnswers DEF Matches, Text, Ord
  <2>2. PICK n \in PutPlaces : n = [bpc[t] EXCEPT !.at = "done", !.res = res]
    BY <1>1 DEF PutPlaces
  <2>3. n.at = "done" /\ n.res = res /\ n.id = bpc[t].id /\ bpc' = [bpc EXCEPT ![t] = n]
    BY <1>1, <2>1, <2>2 DEF PutPlaces, Finish
  <2>. QED
    BY <1>1, <1>2, <2>1, <2>3, QuietPutter
<1>. QED
    BY <1>3, <1>4, <1>5 DEF Probe

\* The load of the insertion loop.
LEMMA LookKeeps ==
    ASSUME BankInv, NEW t \in Putters, Look(t)
    PROVE  BankInv'
<1>. DEFINE cur == table[bpc[t].i]
<1>1. bpc[t].at = "look" /\ bpc[t] \in PutPlaces /\ UNCHANGED <<table, entries, used, call>> /\ Claimed(t)
    BY DEF Look, BankInv, BankTypes, Claimed
<1>2. /\ call[t].text \in Texts /\ bpc[t].i \in TableSlots /\ Reach(call[t].text, bpc[t].i)
    BY <1>1, ThreadTypes DEF BankInv, Walking
<1>3. CASE cur # 0 /\ ~Matches(t, cur) /\ bpc' = [bpc EXCEPT ![t].i = Next1(@)]
  <2>1. Next1(bpc[t].i) \in TableSlots /\ Reach(call[t].text, Next1(bpc[t].i))
    BY <1>2, <1>3, ReachNext DEF Matches, Text
  <2>2. PICK n \in PutPlaces : n = [bpc[t] EXCEPT !.i = Next1(bpc[t].i)]
    BY <1>1, <2>1 DEF PutPlaces
  <2>3. n.at = "look" /\ n.i = Next1(bpc[t].i) /\ n.id = bpc[t].id /\ bpc' = [bpc EXCEPT ![t] = n]
    BY <1>1, <1>3, <2>2 DEF PutPlaces
  <2>. QED
    BY <1>1, <2>1, <2>3, QuietPutter
<1>4. CASE /\ cur # 0 /\ Matches(t, cur)
           /\ \/ Interns(t) /\ Finish(t, cur)
              \/ ~Interns(t) /\ entries[cur].ord <= call[t].ord /\ Finish(t, Refused)
  <2>1. PICK res \in Nat : Finish(t, res) /\ Answers(call[t], res, bpc[t].i)
    <3>1. Refused \in Nat
        BY BankAssumption DEF Refused
    <3>. QED
        BY <1>2, <1>4, <3>1, HolderAnswers DEF Matches, Text, Ord
  <2>2. PICK n \in PutPlaces : n = [bpc[t] EXCEPT !.at = "done", !.res = res]
    BY <1>1 DEF PutPlaces
  <2>3. n.at = "done" /\ n.res = res /\ n.id = bpc[t].id /\ bpc' = [bpc EXCEPT ![t] = n]
    BY <1>1, <2>1, <2>2 DEF PutPlaces, Finish
  <2>. QED
    BY <1>1, <1>2, <2>1, <2>3, QuietPutter
<1>5. CASE /\ cur = 0 \/ (Matches(t, cur) /\ ~Interns(t) /\ ~(entries[cur].ord <= call[t].ord))
           /\ bpc' = [bpc EXCEPT ![t].at = "cas", ![t].cur = cur]
  <2>1. cur \in Nat
    BY <1>2, SlotsTyped DEF BankInv, SlotTypes
  <2>2. PICK c \in Nat : c = cur
    BY <2>1
  <2>3. PICK n \in PutPlaces : n = [bpc[t] EXCEPT !.at = "cas", !.cur = c]
    BY <1>1 DEF PutPlaces
  <2>4. n.at = "cas" /\ n.i = bpc[t].i /\ n.id = bpc[t].id /\ n.cur = cur /\ bpc' = [bpc EXCEPT ![t] = n]
    BY <1>1, <1>5, <2>2, <2>3 DEF PutPlaces
  <2>5. cur # 0 => /\ cur \in 1 .. Len(entries) /\ entries[cur].text = call[t].text
                   /\ ~Interns(t) /\ call[t].ord < entries[cur].ord
    <3>1. SUFFICES ASSUME cur # 0
                   PROVE  /\ cur \in 1 .. Len(entries) /\ entries[cur].text = call[t].text
                          /\ ~Interns(t) /\ call[t].ord < entries[cur].ord
        OBVIOUS
    <3>2. Matches(t, cur) /\ ~Interns(t) /\ ~(entries[cur].ord <= call[t].ord)
        BY <1>5, <3>1
    <3>3. cur \in 1 .. Len(entries) /\ entries[cur].ord \in Nat /\ call[t].ord \in Nat
        BY <1>2, <3>1, <3>2, HolderAnswers, ThreadTypes DEF Matches, Text, Ord, BankInv
    <3>. QED
        BY <3>2, <3>3 DEF Matches
  <2>. QED
    BY <1>1, <1>2, <2>4, <2>5, QuietPutter
<1>. QED
    BY <1>3, <1>4, <1>5 DEF Look, Matches

\* What a step has to show that writes an entry, or none, and touches no slot.
LEMMA ClaimStep ==
    ASSUME BankInv, BankTypes', OneMode', UNCHANGED <<table, call>>, EntriesStay, NEW t \in Putters,
           NEW n \in PutPlaces, bpc' = [bpc EXCEPT ![t] = n],
           \/ n.at = "done" /\ n.res = Full
           \/ /\ n.at = "look" /\ n.id = Len(entries) + 1 /\ Len(entries') = Len(entries) + 1
              /\ entries'[n.id] = call[t] /\ Reach(call[t].text, n.i)
    PROVE  BankInv'
<1>1. bpc'[t] = n /\ \A u \in Putters \ {t} : bpc'[u] = bpc[u]
    BY DEF BankInv, BankTypes
<1>2. PICK len \in Nat : len = Len(entries) /\ Len(entries') \in Nat /\ Len(entries') >= len
  <2>1. SlotTypes /\ SlotTypes'
    BY SlotsTyped, PTL DEF BankInv
  <2>. QED
    BY <2>1 DEF SlotTypes, EntriesStay
<1>3. \A i \in TableSlots : table[i] # 0 => table[i] \in 1 .. len /\ entries'[table[i]] = entries[table[i]]
    BY <1>2 DEF BankInv, TableWalks, EntriesStay
<1>4. SlotsStay /\ \A j \in TableSlots : table'[j] # 0 => table'[j] \in 1 .. Len(entries')
    BY <1>2, <1>3 DEF SlotsStay, Text, Ord
<1>5. TableWalks'
  <2>1. ASSUME NEW i \in TableSlots, table[i] # 0
        PROVE  Text(i)' = Text(i) /\ Text(i) \in Texts /\ Reach(Text(i), i)'
    <3>1. PICK x \in Texts : x = Text(i) /\ Reach(x, i)
        BY <2>1 DEF BankInv, TableWalks
    <3>2. Reach(x, i)'
        BY <1>4, <3>1, ReachStays
    <3>3. (Text(i))' = x
        BY <1>3, <2>1, <3>1 DEF Text
    <3>. QED
        BY <3>1, <3>2, <3>3 DEF Reach, Text
  <2>. QED
    BY <1>4, <2>1 DEF TableWalks
<1>6. ClaimsApart'
  <2>1. ASSUME NEW u \in Putters, Claimed(u)', u # t
        PROVE  /\ bpc[u].id \in 1 .. len /\ entries'[bpc[u].id] = call[u]
               /\ \A i \in TableSlots : table[i] # bpc[u].id
               /\ \A v \in Putters : v # u /\ v # t /\ Claimed(v) => bpc[v].id # bpc[u].id
               /\ bpc'[u] = bpc[u]
    BY <1>1, <1>2, <2>1 DEF BankInv, ClaimsApart, Claimed, EntriesStay
  <2>2. Claimed(t)' => /\ bpc'[t].id = len + 1 /\ Len(entries') = len + 1 /\ entries'[len + 1] = call[t]
                       /\ \A i \in TableSlots : table[i] # len + 1
    BY <1>1, <1>2, <1>3 DEF Claimed
  <2>3. \A v \in Putters : v # t => bpc'[v] = bpc[v] /\ (Claimed(v)' <=> Claimed(v))
    BY <1>1 DEF Claimed
  <2>4. ASSUME NEW u \in Putters, Claimed(u)', u # t
        PROVE  /\ bpc'[u].id \in 1 .. Len(entries') /\ entries'[bpc'[u].id] = call'[u]
               /\ \A i \in TableSlots : table'[i] # bpc'[u].id
               /\ \A v \in Putters : v # u /\ Claimed(v)' => bpc'[v].id # bpc'[u].id
    BY <1>2, <2>1, <2>2, <2>3, <2>4
  <2>5. ASSUME Claimed(t)'
        PROVE  /\ bpc'[t].id \in 1 .. Len(entries') /\ entries'[bpc'[t].id] = call'[t]
               /\ \A i \in TableSlots : table'[i] # bpc'[t].id
               /\ \A v \in Putters : v # t /\ Claimed(v)' => bpc'[v].id # bpc'[t].id
    BY <1>2, <2>1, <2>2, <2>5
  <2>. QED
    BY <2>4, <2>5 DEF ClaimsApart
<1>7. ASSUME NEW u \in Putters \ {t} PROVE Walking(u)' /\ Answered(u)'
    BY <1>1, <1>4, OtherThread DEF BankInv
<1>8. Walking(t)'
  <2>1. n.at # "done" => Reach(call[t].text, n.i)'
    <3>1. PICK x \in Texts : x = call[t].text
        BY ThreadTypes DEF BankInv
    <3>2. n.i \in TableSlots
        BY DEF PutPlaces
    <3>3. n.at # "done" => Reach(x, n.i)'
        BY <1>4, <3>1, <3>2, ReachStays
    <3>. QED
        BY <3>1, <3>3 DEF Reach, Place, Text
  <2>. QED
    BY <1>1, <2>1 DEF Walking, Reach, Place, Text
<1>9. Answered(t)'
    BY <1>1 DEF Answered
<1>. QED
    BY <1>5, <1>6, <1>7, <1>8, <1>9 DEF BankInv

\* An entry is taken and written before any slot names it: the other threads'
\* entries and the slots have older ones.
LEMMA ClaimKeeps ==
    ASSUME BankInv, NEW t \in Putters, Claim(t)
    PROVE  BankInv'
<1>1. /\ bpc[t].at = "claim" /\ bpc[t] \in PutPlaces /\ UNCHANGED <<table, call>>
      /\ call[t] \in [text : Texts, ord : Nat]
    BY DEF Claim, BankInv, BankTypes
<1>2. /\ call[t].text \in Texts /\ bpc[t].i \in TableSlots /\ Reach(call[t].text, bpc[t].i)
      /\ home[call[t].text] \in TableSlots /\ length[call[t].text] \in Nat
    BY <1>1, ThreadTypes, BankAssumption DEF BankInv, Walking
<1>3. PICK len \in Nat : len = Len(entries)
    BY SlotsTyped DEF BankInv, SlotTypes
<1>4. PICK taken \in Nat, spent \in Nat :
        used = [count |-> taken, bytes |-> spent] /\ len = (IF taken <= MaxEntries THEN taken ELSE MaxEntries)
    BY <1>3 DEF BankInv, BankTypes
<1>8. MaxEntries \in Nat
    BY BankAssumption
<1>5. \A n \in PutPlaces : bpc' = [bpc EXCEPT ![t] = n] => bpc' \in [Putters -> PutPlaces]
    BY DEF BankInv, BankTypes
\* The full bank: only the count goes on.
<1>6. CASE taken >= MaxEntries
  <2>1. used' = [count |-> taken + 1, bytes |-> spent] /\ Finish(t, Full) /\ entries' = entries
    BY <1>4, <1>6 DEF Claim
  <2>2. Full \in Nat
    BY <1>8 DEF Full
  <2>3. PICK n \in PutPlaces : n = [bpc[t] EXCEPT !.at = "done", !.res = Full]
    BY <1>1, <2>2 DEF PutPlaces
  <2>4. n.at = "done" /\ n.res = Full /\ bpc' = [bpc EXCEPT ![t] = n]
    BY <1>1, <2>1, <2>3 DEF PutPlaces, Finish
  <2>5. BankTypes'
    <3>1. /\ used' \in [count : Nat, bytes : Nat]
          /\ Len(entries') = (IF used'.count <= MaxEntries THEN used'.count ELSE MaxEntries)
      <4>1. used'.count = taken + 1 /\ used'.bytes = spent /\ used' = [count |-> taken + 1, bytes |-> spent]
        BY <2>1
      <4>2. taken + 1 \in Nat /\ used' \in [count : Nat, bytes : Nat]
        BY <4>1
      <4>4. len = IF taken <= MaxEntries THEN taken ELSE MaxEntries
        BY <1>4
      <4>5. len = MaxEntries
        BY <1>6, <1>8, <4>4
      <4>3. Len(entries') = len /\ len = MaxEntries
        BY <1>3, <2>1, <4>5
      <4>. QED
        BY <1>6, <1>8, <4>1, <4>2, <4>3
    <3>2. bpc' \in [Putters -> PutPlaces]
        BY <1>5, <2>4
    <3>. QED
        BY <1>1, <2>1, <3>1, <3>2 DEF BankInv, BankTypes
  <2>6. OneMode' /\ EntriesStay
    BY <1>1, <1>3, <2>1 DEF BankInv, OneMode, Interns, EntriesStay
  <2>. QED
    BY <1>1, <2>4, <2>5, <2>6, ClaimStep
\* An entry is written, empty if its bytes do not fit.
<1>7. CASE ~(taken >= MaxEntries)
  <2>1. PICK e \in Written, n \in PutPlaces :
            /\ entries' = Append(entries, e) /\ bpc' = [bpc EXCEPT ![t] = n]
            /\ e.ord = 0 \/ e = call[t]
            /\ \/ n.at = "done" /\ n.res = Full
               \/ n.at = "look" /\ n.id = taken + 1 /\ e = call[t] /\ Reach(call[t].text, n.i)
    <3>1. CASE Finish(t, Full) /\ entries' = Append(entries, [text |-> "", ord |-> 0])
      <4>1. Full \in Nat
        BY <1>8 DEF Full
      <4>2. PICK n \in PutPlaces : n = [bpc[t] EXCEPT !.at = "done", !.res = Full]
        BY <1>1, <4>1 DEF PutPlaces
      <4>3. n.at = "done" /\ n.res = Full /\ bpc' = [bpc EXCEPT ![t] = n]
        BY <1>1, <3>1, <4>2 DEF PutPlaces, Finish
      <4>4. PICK e \in Written : e = [text |-> "", ord |-> 0] /\ e.ord = 0
        BY BlankIsWritten
      <4>. QED
        BY <3>1, <4>3, <4>4
    <3>2. CASE /\ entries' = Append(entries, call[t])
               /\ bpc' = [bpc EXCEPT ![t].at = "look", ![t].id = taken + 1,
                                     ![t].i = IF Interns(t) THEN @ ELSE home[call[t].text]]
      <4>1. PICK i \in TableSlots : /\ i = IF Interns(t) THEN bpc[t].i ELSE home[call[t].text]
                                    /\ Reach(call[t].text, i)
        BY <1>2, ReachHome
      <4>5. PICK id \in Nat : id = taken + 1
        OBVIOUS
      <4>2. PICK n \in PutPlaces : n = [bpc[t] EXCEPT !.at = "look", !.id = id, !.i = i]
        BY <1>1 DEF PutPlaces
      <4>6. n.at = "look" /\ n.id = taken + 1 /\ n.i = i
        BY <1>1, <4>2, <4>5 DEF PutPlaces
      <4>3. bpc' = [bpc EXCEPT ![t] = n]
        BY <3>2, <4>1, <4>2, <4>5
      <4>4. PICK e \in Written : e = call[t]
        BY <1>1 DEF Written
      <4>7. entries' = Append(entries, e) /\ Reach(call[t].text, n.i)
        BY <3>2, <4>1, <4>4, <4>6
      <4>. QED
        BY <4>3, <4>4, <4>6, <4>7, Zenon
    <3>. QED
        BY <1>4, <1>7, <3>1, <3>2 DEF Claim
  <2>2. /\ used' \in [count : Nat, bytes : Nat] /\ used'.count = taken + 1 /\ taken = len /\ len < MaxEntries
    <3>1. used' = [count |-> taken + 1, bytes |-> spent + length[call[t].text]]
        BY <1>4, <1>7 DEF Claim
    <3>. QED
        BY <1>2, <1>4, <1>7, <1>8, <3>1
  <2>3. entries' \in Seq(Written)
    BY <2>1 DEF BankInv, BankTypes
  <2>4. /\ Len(entries') = len + 1
        /\ entries'[len + 1] = e /\ \A k \in 1 .. len : entries'[k] = entries[k]
    <3>1. entries \in Seq(Written) /\ e \in Written /\ entries' = Append(entries, e)
        BY <2>1 DEF BankInv, BankTypes
    <3>. QED
        BY <1>3, <3>1, AppendProperties
  <2>5. BankTypes'
    <3>1. bpc' \in [Putters -> PutPlaces]
        BY <1>5, <2>1
    <3>2. Len(entries') = (IF used'.count <= MaxEntries THEN used'.count ELSE MaxEntries)
        BY <1>8, <2>2, <2>4
    <3>. QED
        BY <1>1, <2>2, <2>3, <3>1, <3>2 DEF BankInv, BankTypes
  <2>6. EntriesStay
    BY <1>3, <2>4 DEF EntriesStay
  <2>7. OneMode'
    <3>1. CASE \A u \in Putters : ~Interns(u)
        BY <1>1, <3>1 DEF OneMode, Interns
    <3>2. CASE (\A u \in Putters : Interns(u)) /\ (\A k \in 1 .. len : entries[k].ord = 0)
      <4>1. e.ord = 0
        BY <2>1, <3>2 DEF Interns
      <4>2. \A k \in 1 .. Len(entries') : entries'[k].ord = 0
        BY <2>4, <3>2, <4>1
      <4>. QED
        BY <1>1, <3>2, <4>2 DEF OneMode, Interns
    <3>. QED
        BY <1>3, <3>1, <3>2 DEF BankInv, OneMode
  <2>8. \/ n.at = "done" /\ n.res = Full
        \/ /\ n.at = "look" /\ n.id = Len(entries) + 1 /\ Len(entries') = Len(entries) + 1
           /\ entries'[n.id] = call[t] /\ Reach(call[t].text, n.i)
    BY <1>3, <2>1, <2>2, <2>4
  <2>. QED
    BY <1>1, <2>1, <2>5, <2>6, <2>7, <2>8, ClaimStep
<1>. QED
    BY <1>6, <1>7

\* A slot that is taken was free, or held the text with a higher ordinal; a lost
\* race changes nothing.
LEMMA CasKeeps ==
    ASSUME BankInv, NEW t \in Putters, Cas(t)
    PROVE  BankInv'
<1>1. /\ bpc[t].at = "cas" /\ bpc[t] \in PutPlaces /\ UNCHANGED <<entries, used, call>>
      /\ table \in [TableSlots -> Nat] /\ BankTypes
    BY DEF Cas, BankInv, BankTypes
<1>2. PICK x \in Texts, i \in TableSlots, own \in Nat :
        x = call[t].text /\ i = bpc[t].i /\ own = bpc[t].id
    BY <1>1, ThreadTypes
<1>3. Reach(x, i) /\ call[t].ord \in Nat
    BY <1>1, <1>2, ThreadTypes DEF BankInv, Walking
<1>4. CASE table[i] = bpc[t].cur
  <2>1. table' = [table EXCEPT ![i] = own] /\ Finish(t, own)
    BY <1>2, <1>4 DEF Cas
  <2>2. PICK n \in PutPlaces : n = [bpc[t] EXCEPT !.at = "done", !.res = own]
    BY <1>1 DEF PutPlaces
  <2>3. /\ n.at = "done" /\ n.res = own /\ bpc' = [bpc EXCEPT ![t] = n]
        /\ bpc'[t] = n /\ \A u \in Putters \ {t} : bpc'[u] = bpc[u]
    BY <1>1, <2>1, <2>2 DEF PutPlaces, Finish, BankInv, BankTypes
  <2>4. /\ own \in 1 .. Len(entries) /\ entries[own] = call[t] /\ own # 0
        /\ \A j \in TableSlots : table[j] # own
        /\ \A u \in Putters : u # t /\ Claimed(u) => bpc[u].id # own
    <3>1. Claimed(t)
        BY <1>1 DEF Claimed
    <3>2. /\ own \in 1 .. Len(entries) /\ entries[own] = call[t]
          /\ \A j \in TableSlots : table[j] # own
          /\ \A u \in Putters : u # t /\ Claimed(u) => bpc[u].id # own
        BY <1>2, <3>1 DEF BankInv, ClaimsApart
    <3>. QED
        BY <3>2
  <2>5. table'[i] = own /\ \A j \in TableSlots \ {i} : table'[j] = table[j]
    BY <1>1, <2>1
  <2>6. EntriesStay
    <3>1. SlotTypes
        BY <1>1, SlotsTyped
    <3>. QED
        BY <1>1, <3>1 DEF EntriesStay, SlotTypes
  <2>7. SlotsStay
    <3>1. ASSUME table[i] # 0
          PROVE  entries[table[i]].text = x /\ call[t].ord < Ord(i)
        BY <1>1, <1>2, <1>4, <3>1 DEF BankInv, Walking, Ord
    <3>2. table[i] # 0 => /\ table'[i] # 0 /\ entries'[table'[i]].text = Text(i)
                          /\ entries'[table'[i]].ord < Ord(i)
        BY <1>1, <1>2, <2>4, <2>5, <3>1 DEF Text
    <3>. QED
        BY <1>1, <2>5, <3>2 DEF SlotsStay, Text
  <2>8. BankTypes'
    <3>1. bpc' \in [Putters -> PutPlaces] /\ table' \in [TableSlots -> Nat]
        BY <1>1, <2>1, <2>3 DEF BankTypes
    <3>. QED
        BY <1>1, <3>1 DEF BankTypes
  <2>9. \A j \in TableSlots : table'[j] # 0 => table'[j] \in 1 .. Len(entries')
    BY <1>1, <2>4, <2>5 DEF BankInv, TableWalks
  <2>10. TableWalks'
    <3>1. ASSUME NEW j \in TableSlots, table'[j] # 0
          PROVE  Text(j)' \in Texts /\ Reach(Text(j), j)'
        <4>1. CASE j = i
            <5>1. Reach(x, i)' /\ Text(j)' = x
                BY <1>1, <1>2, <1>3, <2>4, <2>5, <2>7, <4>1, ReachStays DEF Text
            <5>. QED
                BY <4>1, <5>1 DEF Reach, Text
        <4>2. CASE j # i
            <5>1. PICK y \in Texts : y = Text(j) /\ Reach(y, j)
                BY <2>5, <3>1, <4>2 DEF BankInv, TableWalks
            <5>2. Reach(y, j)' /\ Text(j)' = y
                BY <1>1, <2>5, <2>7, <4>2, <5>1, ReachStays DEF Text
            <5>. QED
                BY <5>1, <5>2 DEF Reach, Text
        <4>. QED
            BY <4>1, <4>2
    <3>. QED
        BY <2>9, <3>1 DEF TableWalks
  <2>11. OneMode'
    BY <1>1 DEF BankInv, OneMode, Interns
  <2>12. ClaimsApart'
    <3>1. ASSUME NEW u \in Putters, Claimed(u)'
          PROVE  /\ u # t /\ bpc'[u] = bpc[u] /\ Claimed(u)
                 /\ \A j \in TableSlots : table'[j] # bpc'[u].id
        <4>1. u # t /\ bpc'[u] = bpc[u] /\ Claimed(u)
            BY <2>3, <3>1 DEF Claimed
        <4>2. \A j \in TableSlots : table[j] # bpc[u].id
            BY <4>1 DEF BankInv, ClaimsApart
        <4>. QED
            BY <2>4, <2>5, <4>1, <4>2
    <3>. QED
        BY <1>1, <3>1 DEF BankInv, ClaimsApart
  <2>13. ASSUME NEW u \in Putters \ {t} PROVE Walking(u)' /\ Answered(u)'
    <3>1. TableWalks /\ OneMode /\ Walking(u) /\ Answered(u)
        BY DEF BankInv
    <3>. QED
        BY <1>1, <2>3, <2>6, <2>7, <2>8, <2>9, <3>1, OtherThread
  <2>14. Walking(t)'
    BY <2>3 DEF Walking
  <2>15. Answered(t)'
    <3>1. Answers(call[t], own, i)'
        BY <1>1, <1>2, <1>3, <2>4, <2>5 DEF Answers, Text, Ord
    <3>. QED
        BY <1>1, <2>3, <3>1 DEF Answered, Answers, Text, Ord
  <2>. QED
    BY <2>8, <2>10, <2>11, <2>12, <2>13, <2>14, <2>15 DEF BankInv
<1>5. CASE table[i] # bpc[t].cur
  <2>1. UNCHANGED table /\ bpc' = [bpc EXCEPT ![t].at = "look"]
    BY <1>2, <1>5 DEF Cas
  <2>2. PICK n \in PutPlaces : n = [bpc[t] EXCEPT !.at = "look"]
    BY <1>1 DEF PutPlaces
  <2>3. n.at = "look" /\ n.id = bpc[t].id /\ n.i = i /\ bpc' = [bpc EXCEPT ![t] = n] /\ Claimed(t)
    BY <1>1, <1>2, <2>1, <2>2 DEF PutPlaces, Claimed
  <2>. QED
    BY <1>1, <1>2, <1>3, <2>1, <2>3, QuietPutter
<1>. QED
    BY <1>4, <1>5

\* Every step keeps the invariant.
LEMMA BankStep == BankInv /\ [FNext]_bankvars => BankInv'
<1>1. ASSUME BankInv, NEW t \in Putters, FStep(t) PROVE BankInv'
    BY <1>1, ProbeKeeps, ClaimKeeps, LookKeeps, CasKeeps DEF FStep
<1>2. ASSUME BankInv, UNCHANGED bankvars PROVE BankInv'
  <2>1. UNCHANGED <<table, entries, used, call, bpc>>
    BY <1>2 DEF bankvars
  <2>2. BankTypes' /\ OneMode'
    BY <1>2, <2>1 DEF BankInv, BankTypes, OneMode, Interns
  <2>3. TableWalks'
    BY <1>2, <2>1 DEF BankInv, TableWalks, Reach, Place, Text
  <2>4. ClaimsApart'
    BY <1>2, <2>1 DEF BankInv, ClaimsApart, Claimed
  <2>5. ASSUME NEW t \in Putters PROVE Walking(t)' /\ Answered(t)'
    <3>1. Walking(t)'
        BY <1>2, <2>1, SMTT(30) DEF BankInv, Walking, Reach, Place, Text, Interns
    <3>2. Answered(t)'
        BY <1>2, <2>1 DEF BankInv, Answered, Answers, Text, Ord
    <3>. QED
        BY <3>1, <3>2
  <2>. QED
    BY <2>2, <2>3, <2>4, <2>5 DEF BankInv
<1>. QED
    BY <1>1, <1>2 DEF FNext

-----------------------------------------------------------------------------
(* What it promises *)

\* A slot that answers a call is where the walk for its text ends.
LEMMA AnswerIsFound ==
    ASSUME BankInv, NEW t \in Putters, bpc[t].at = "done", bpc[t].res # Full
    PROVE  LET h == fbank_find(call[t].text)
           IN  /\ h # 0 /\ entries[h].text = call[t].text
               /\ entries[h].ord <= call[t].ord
               /\ Interns(t) => bpc[t].res = h
               /\ bpc[t].res # Refused =>
                    /\ entries[bpc[t].res] = call[t]
                    /\ fbank_holds(bpc[t].res) \/ entries[h].ord < call[t].ord
<1>1. PICK i \in TableSlots : Answers(call[t], bpc[t].res, i)
    BY DEF BankInv, Answered
<1>2. fbank_find(call[t].text) = table[i]
    BY <1>1, FindIs DEF BankInv, Answers
<1>3. bpc[t].res # Refused => fbank_find(entries[bpc[t].res].text) = table[i]
    BY <1>1, <1>2 DEF Answers
<1>. QED
    BY <1>1, <1>2, <1>3 DEF Answers, Text, Ord, Interns, fbank_holds

\* The invariant says what the bank promises.
LEMMA BankPromises == BankInv => BankAnswers
<1>. SUFFICES ASSUME BankInv PROVE BankAnswers
    OBVIOUS
<1>1. ASSUME NEW x \in Texts
      PROVE  Cardinality({i \in TableSlots : table[i] # 0 /\ entries[table[i]].text = x}) <= 1
  <2>. DEFINE S == {i \in TableSlots : table[i] # 0 /\ entries[table[i]].text = x}
  <2>1. \A i, j \in S : i = j
    BY OneSlot DEF BankInv, Text
  <2>2. Cardinality(S) <= 1
    <3>. HIDE DEF S
    <3>1. CASE S = {}
        BY <3>1, FS_EmptySet
    <3>2. CASE S # {}
        <4>1. PICK i : S = {i}
            BY <2>1, <3>2
        <4>2. Cardinality({i}) = 1
            BY FS_Singleton
        <4>. QED
            BY <4>1, <4>2
    <3>. QED
        BY <3>1, <3>2
  <2>. QED
    BY <2>2
<1>. QED
    BY <1>1, AnswerIsFound DEF BankAnswers

\* BankAnswers: whatever the threads do, a bank answers like a pass in ordinal
\* order (fbank.rs, the compare_exchange loops).
THEOREM BankAnswersAll == FSpec => []BankAnswers
<1>1. FSpec => []BankInv
    BY BankInit, BankStep, PTL DEF FSpec
<1>. QED
    BY <1>1, BankPromises, PTL

-----------------------------------------------------------------------------
(* Constructor tags *)

Published == snapshots[tagHead]
NamesApart(s) == \A i, j \in 1 .. Len(s) : s[i] = s[j] => i = j

\* The inductive invariant of the tag interner, in named parts.
TagTypes ==
    /\ snapshots \in Seq(Seq(TagNames)) /\ tagHead \in 1 .. Len(snapshots)
    /\ work \in [Threads -> {NoWork} \union [at : {"miss", "locked"}, name : TagNames]
                                     \union [at : {"built"}, name : TagNames, snap : Nat]]

\* LF_WRITE has one holder; what it has built is the published snapshot and one
\* name that is not in it.
LockHolds ==
    \A t \in Threads :
        /\ work[t].at \in {"locked", "built"} <=> lfLock = t
        /\ work[t].at = "built" =>
            /\ work[t].snap \in 1 .. Len(snapshots)
            /\ snapshots[work[t].snap] = Append(Published, work[t].name)
            /\ ~Knows(tagHead, work[t].name)

\* A tag handed out is the place of its name in the published snapshot.
TagsPlaced ==
    \A v \in values : v.tag \in 1 .. Len(Published) /\ Published[v.tag] = v.name

TagsInv == TagTypes /\ LockHolds /\ TagsPlaced /\ NamesApart(Published) /\ shown.text = shown.want

\* At first there is one snapshot, with no name.
LEMMA TagsInit == YInit => TagsInv
<1>. SUFFICES ASSUME YInit PROVE TagsInv
    OBVIOUS
<1>1. snapshots = <<<<>>>> /\ tagHead = 1 /\ Len(snapshots) = 1 /\ Published = <<>>
    BY DEF YInit, Published
<1>2. TagTypes
    BY <1>1 DEF YInit, TagTypes
<1>3. LockHolds
    BY TagsAssumption DEF YInit, LockHolds, NoWork
<1>4. TagsPlaced /\ NamesApart(Published)
    BY <1>1 DEF YInit, TagsPlaced, NamesApart
<1>. QED
    BY <1>2, <1>3, <1>4 DEF TagsInv, YInit, NoShow

\* A name the snapshot has is found at its tag.
LEMMA TagFound ==
    ASSUME TagsInv, NEW n \in TagNames, Knows(tagHead, n)
    PROVE  TagOf(tagHead, n) \in 1 .. Len(Published) /\ Published[TagOf(tagHead, n)] = n
<1>1. Published \in Seq(TagNames)
    BY DEF TagsInv, TagTypes, Published
<1>2. DOMAIN Published = 1 .. Len(Published)
    BY <1>1
<1>3. PICK i \in 1 .. Len(Published) : Published[i] = n
    BY DEF Knows, Contains, Published
<1>. QED
    BY <1>2, <1>3 DEF TagOf, Published

\* Handing out the place of a name keeps tags in their places.
LEMMA GiveKeeps ==
    ASSUME TagsPlaced, Published' = Published, NEW t \in Threads, NEW n, NEW tag \in 1 .. Len(Published),
           Published[tag] = n, Give(t, n, tag)
    PROVE  TagsPlaced'
<1>1. values' = values \union {[name |-> n, tag |-> tag]}
    BY DEF Give
<1>. QED
    BY <1>1 DEF TagsPlaced

\* A call looks the name up without the lock.
LEMMA InternStartKeeps ==
    ASSUME TagsInv, NEW t \in Threads, NEW n \in TagNames, InternStart(t, n)
    PROVE  TagsInv'
<1>1. work[t] = NoWork /\ UNCHANGED <<snapshots, tagHead, lfLock, shown>>
    BY DEF InternStart
<1>2. Published' = Published
    BY <1>1 DEF Published
<1>3. lfLock # t
    BY <1>1 DEF TagsInv, LockHolds, NoWork
<1>4. CASE Knows(tagHead, n)
  <2>1. Give(t, n, TagOf(tagHead, n))
    BY <1>4 DEF InternStart
  <2>2. work' = work
    BY <1>1, <2>1 DEF Give, TagsInv, TagTypes
  <2>3. TagsPlaced'
    BY <1>2, <1>4, <2>1, TagFound, GiveKeeps DEF TagsInv
  <2>. QED
    BY <1>1, <1>2, <2>2, <2>3 DEF TagsInv, TagTypes, LockHolds, Knows
<1>5. CASE ~Knows(tagHead, n)
  <2>1. work' = [work EXCEPT ![t] = [at |-> "miss", name |-> n]] /\ values' = values
    BY <1>5 DEF InternStart
  <2>2. TagTypes'
    BY <1>1, <2>1 DEF TagsInv, TagTypes
  <2>3. LockHolds'
    BY <1>1, <1>2, <1>3, <2>1 DEF TagsInv, TagTypes, LockHolds, Knows
  <2>. QED
    BY <1>1, <1>2, <2>1, <2>2, <2>3 DEF TagsInv, TagsPlaced
<1>. QED
    BY <1>4, <1>5

\* The lock is taken when nobody has it.
LEMMA InternLockKeeps ==
    ASSUME TagsInv, NEW t \in Threads, InternLock(t)
    PROVE  TagsInv'
<1>1. /\ work[t].at = "miss" /\ lfLock = Nobody /\ lfLock' = t
      /\ work' = [work EXCEPT ![t].at = "locked"]
      /\ UNCHANGED <<snapshots, tagHead, values, shown>>
    BY DEF InternLock
<1>2. Published' = Published
    BY <1>1 DEF Published
<1>3. work[t] \in [at : {"miss", "locked"}, name : TagNames]
    BY <1>1 DEF TagsInv, TagTypes, NoWork
<1>4. work' \in [Threads -> {NoWork} \union [at : {"miss", "locked"}, name : TagNames]
                                     \union [at : {"built"}, name : TagNames, snap : Nat]]
      /\ work'[t].at = "locked" /\ \A u \in Threads \ {t} : work'[u] = work[u]
    BY <1>1, <1>3 DEF TagsInv, TagTypes
<1>5. \A u \in Threads : work[u].at \notin {"locked", "built"}
    BY <1>1, TagsAssumption DEF TagsInv, LockHolds
<1>6. LockHolds'
    BY <1>1, <1>4, <1>5 DEF LockHolds
<1>. QED
    BY <1>1, <1>2, <1>4, <1>6 DEF TagsInv, TagTypes, TagsPlaced

\* Under the lock: a hit gives the lock back, a miss builds the next snapshot.
LEMMA InternBuildKeeps ==
    ASSUME TagsInv, NEW t \in Threads, InternBuild(t)
    PROVE  TagsInv'
<1>1. work[t].at = "locked" /\ UNCHANGED <<tagHead, shown>>
    BY DEF InternBuild
<1>2. lfLock = t /\ \A u \in Threads \ {t} : work[u].at \notin {"locked", "built"}
    BY <1>1 DEF TagsInv, LockHolds
<1>3. PICK n \in TagNames : work[t].name = n
    BY <1>1 DEF TagsInv, TagTypes, NoWork
<1>4. snapshots \in Seq(Seq(TagNames)) /\ tagHead \in 1 .. Len(snapshots) /\ Published \in Seq(TagNames)
    BY DEF TagsInv, TagTypes, Published
<1>5. CASE Knows(tagHead, n)
  <2>1. Give(t, n, TagOf(tagHead, n)) /\ lfLock' = Nobody /\ UNCHANGED snapshots
    BY <1>3, <1>5 DEF InternBuild
  <2>2. work' = [work EXCEPT ![t] = NoWork] /\ Published' = Published
    BY <1>1, <2>1 DEF Give, Published
  <2>3. TagsPlaced'
    BY <1>5, <2>1, <2>2, TagFound, GiveKeeps DEF TagsInv
  <2>4. TagTypes'
    BY <1>1, <2>1, <2>2 DEF TagsInv, TagTypes
  <2>5. LockHolds'
    BY <1>2, <2>1, <2>2, TagsAssumption DEF TagsInv, TagTypes, LockHolds, NoWork
  <2>. QED
    BY <1>1, <2>2, <2>3, <2>4, <2>5 DEF TagsInv
<1>6. CASE ~Knows(tagHead, n)
  <2>1. /\ snapshots' = Append(snapshots, Append(Published, n))
        /\ work' = [work EXCEPT ![t] = [at |-> "built", name |-> n, snap |-> Len(snapshots) + 1]]
        /\ UNCHANGED <<lfLock, values>>
    BY <1>3, <1>6 DEF InternBuild, Published
  <2>2. Append(Published, n) \in Seq(TagNames)
    BY <1>4
  <2>3. /\ snapshots' \in Seq(Seq(TagNames)) /\ Len(snapshots') = Len(snapshots) + 1
        /\ snapshots'[Len(snapshots) + 1] = Append(Published, n)
        /\ \A i \in 1 .. Len(snapshots) : snapshots'[i] = snapshots[i]
    BY <1>4, <2>1, <2>2, AppendProperties
  <2>4. Published' = Published
    BY <1>1, <1>4, <2>3 DEF Published
  <2>5. TagTypes'
    BY <1>1, <1>4, <2>1, <2>3 DEF TagsInv, TagTypes
  <2>6. LockHolds'
    <3>1. work'[t] = [at |-> "built", name |-> n, snap |-> Len(snapshots) + 1]
          /\ \A u \in Threads \ {t} : work'[u] = work[u]
        BY <2>1 DEF TagsInv, TagTypes
    <3>2. ~Knows(tagHead, n)'
        BY <1>1, <1>6, <2>4 DEF Knows, Published
    <3>. QED
        BY <1>1, <1>2, <1>4, <2>1, <2>3, <2>4, <3>1, <3>2 DEF LockHolds
  <2>. QED
    BY <1>1, <2>1, <2>4, <2>5, <2>6 DEF TagsInv, TagsPlaced
<1>. QED
    BY <1>5, <1>6

\* Publication moves to the snapshot built: the old names keep their places and
\* the new one gets the last.
LEMMA InternPublishKeeps ==
    ASSUME TagsInv, NEW t \in Threads, InternPublish(t)
    PROVE  TagsInv'
<1>1. /\ work[t].at = "built" /\ tagHead' = work[t].snap /\ lfLock' = Nobody
      /\ Give(t, work[t].name, Len(snapshots[work[t].snap])) /\ UNCHANGED <<snapshots, shown>>
    BY DEF InternPublish
<1>2. lfLock = t /\ \A u \in Threads \ {t} : work[u].at \notin {"locked", "built"}
    BY <1>1 DEF TagsInv, LockHolds
<1>3. PICK n \in TagNames : work[t].name = n
    BY <1>1 DEF TagsInv, TagTypes, NoWork
<1>4. Published \in Seq(TagNames) /\ Len(Published) \in Nat
    BY DEF TagsInv, TagTypes, Published
<1>5. work[t].snap \in 1 .. Len(snapshots) /\ snapshots[work[t].snap] = Append(Published, n) /\ ~Knows(tagHead, n)
    BY <1>1, <1>3 DEF TagsInv, LockHolds
<1>6. /\ Published' = Append(Published, n) /\ Len(Published') = Len(Published) + 1
      /\ Published'[Len(Published) + 1] = n
      /\ \A i \in 1 .. Len(Published) : Published'[i] = Published[i]
  <2>1. Published' = Append(Published, n)
    BY <1>1, <1>5 DEF Published
  <2>. QED
    BY <1>4, <2>1, AppendProperties
<1>7. values' = values \union {[name |-> n, tag |-> Len(Published) + 1]} /\ work' = [work EXCEPT ![t] = NoWork]
    BY <1>1, <1>3, <1>5, <1>6 DEF Give, Published
<1>8. TagTypes'
    BY <1>1, <1>5, <1>7 DEF TagsInv, TagTypes
<1>9. LockHolds'
    BY <1>1, <1>2, <1>7, TagsAssumption DEF TagsInv, TagTypes, LockHolds, NoWork
<1>10. TagsPlaced'
    BY <1>4, <1>6, <1>7 DEF TagsInv, TagsPlaced
<1>11. NamesApart(Published)'
  <2>1. \A i \in 1 .. Len(Published) : Published[i] # n
    BY <1>5 DEF Knows, Contains, Published
  <2>. QED
    BY <1>4, <1>6, <2>1 DEF TagsInv, NamesApart
<1>. QED
    BY <1>1, <1>8, <1>9, <1>10, <1>11 DEF TagsInv

\* Every step keeps the invariant.
LEMMA TagsStep == TagsInv /\ [YNext]_yvars => TagsInv'
<1>. SUFFICES ASSUME TagsInv, [YNext]_yvars PROVE TagsInv'
    OBVIOUS
<1>1. ASSUME NEW v \in values, get_tag_name(v) PROVE TagsInv'
  <2>1. UNCHANGED <<snapshots, tagHead, lfLock, work, values>> /\ Published' = Published
    BY <1>1 DEF get_tag_name, Published
  <2>2. v.tag \in 1 .. Len(Published) /\ Published[v.tag] = v.name
    BY DEF TagsInv, TagsPlaced
  <2>3. shown'.text = shown'.want
    BY <1>1, <2>2 DEF get_tag_name, Published
  <2>. QED
    BY <2>1, <2>3 DEF TagsInv, TagTypes, LockHolds, TagsPlaced, Knows
<1>2. CASE UNCHANGED yvars
    BY <1>2 DEF yvars, TagsInv, TagTypes, LockHolds, TagsPlaced, Knows, Published
<1>. QED
    BY <1>1, <1>2, InternStartKeeps, InternLockKeeps, InternBuildKeeps, InternPublishKeeps DEF YNext

\* For any threads and names: a tag means one name for every thread and for
\* ever, and a value resolves to the name it was made with.
THEOREM TagsGlobal == YSpec => []TagsAreGlobal
<1>1. YSpec => []TagsInv
    BY TagsInit, TagsStep, PTL DEF YSpec
<1>2. TagsInv => TagsAreGlobal
  <2>. SUFFICES ASSUME TagsInv PROVE TagsAreGlobal
    OBVIOUS
  <2>1. \A v, w \in values : v.name = w.name <=> v.tag = w.tag
    BY DEF TagsInv, TagsPlaced, NamesApart
  <2>. QED
    BY <2>1 DEF TagsInv, TagsPlaced, TagsAreGlobal, Published
<1>. QED
    BY <1>1, <1>2, PTL

-----------------------------------------------------------------------------
(* The identity tables together *)

\* The run's property: whatever the threads do to the sharded interner, the
\* frozen bank and the constructor tags, an identity stands for one text and a
\* text has one identity (interner_shard.rs, fbank.rs and value.rs).
THEOREM IdentitiesExact == ISpec => []IdentitiesAreExact
<1>1. HandlesAreExact /\ BankAnswers /\ TagsAreGlobal => IdentitiesAreExact
    BY DEF IdentitiesAreExact
<1>. QED
    BY <1>1, HandlesExact, BankAnswersAll, TagsGlobal, PTL DEF ISpec

-----------------------------------------------------------------------------
(* The caches built on cells *)

\* The inductive invariant of the caches, in named parts.

PutterStates == [at : {"idle", "flush", "seal", "publish"}, shard : CacheShards \union {0}, ep : Nat,
                 rest : SUBSET CacheShards]
Segments == {S \in SUBSET Hashes : IsFiniteSet(S) /\ S # {}}
Sealing(w) == putter[w].at \in {"seal", "publish"}

HotTypes ==
    /\ lock \in [CacheShards -> CacheWriters \union {NoThread}]
    /\ unsealed \in [CacheShards -> SUBSET Hashes]
    /\ \A s \in CacheShards : IsFiniteSet(unsealed[s])
    /\ segs \in [CacheShards -> Seq(Segments)] /\ total \in [CacheShards -> Nat]
    /\ headBlk \in [CacheShards -> Nat] /\ epoch \in Nat
    /\ putter \in [CacheWriters -> PutterStates]
    /\ seen \in [CacheReaders -> [CacheShards -> Nat]]

\* A writer that seals holds its shard's mutex, the only one to, and finds
\* something to seal.
SealersHold ==
    \A w \in CacheWriters : Sealing(w) =>
        /\ putter[w].shard \in CacheShards /\ lock[putter[w].shard] = w
        /\ unsealed[putter[w].shard] # {}

\* An epoch that was drawn is newer than the one its shard shows.
EpochsRise ==
    /\ \A s \in CacheShards : headBlk[s] <= epoch /\ (headBlk[s] > 0 => segs[s] # <<>>)
    /\ \A w \in CacheWriters : putter[w].at = "publish" => headBlk[putter[w].shard] < putter[w].ep /\ putter[w].ep <= epoch
    /\ \A r \in CacheReaders, s \in CacheShards : seen[r][s] <= headBlk[s]

TotalsAdd ==
    \A s \in CacheShards :
        /\ total[s] = Sizes(segs[s])[Len(segs[s])]
        /\ total[s] <= Cap \/ Len(segs[s]) <= 1

\* What a hotmem reader was told since it started adds up to the epochs it
\* has passed.
ReadersTold ==
    /\ arena \in Nat /\ last \in [CacheReaders -> Nat]
    /\ missedSum \in [CacheReaders -> Nat] /\ gotten \in [CacheReaders -> Nat]
    /\ joined \in [CacheReaders -> Nat]
    /\ \A r \in CacheReaders :
        /\ joined[r] + gotten[r] + missedSum[r] = last[r] + (IF last[r] = 0 THEN 0 ELSE 1)
        /\ joined[r] <= last[r] /\ last[r] <= arena

HotInv == HotTypes /\ SealersHold /\ EpochsRise /\ TotalsAdd /\ ReadersTold

\* Every nonempty set of numbers has a least one: the intervals up to its
\* members are finite sets, which inclusion orders well.
LEMMA LeastNat ==
    ASSUME NEW T \in SUBSET Nat, T # {}
    PROVE  \E x \in T : \A y \in T : x <= y
<1> DEFINE F == {1 .. n : n \in T}
           R == StrictSubsetOrdering(Nat)
           U == FiniteSubsetsOf(Nat)
<1>1. IsWellFoundedOn(R, U) BY FS_StrictSubsetOrderingWellFounded
<1>2. F \subseteq U /\ F # {}
  <2>1. \A n \in T : IsFiniteSet(1 .. n) /\ 1 .. n \subseteq Nat BY FS_Interval
  <2> QED BY <2>1 DEF FiniteSubsetsOf
<1>3. PICK s \in F : \A t \in F : ~ (<<t, s>> \in R)
  <2> HIDE DEF R, U, F
  <2> QED BY <1>1, <1>2, WFMin
<1>4. PICK x \in T : s = 1 .. x OBVIOUS
<1>5. ASSUME NEW y \in T PROVE x <= y
  <2>1. <<1 .. y, 1 .. x>> \notin R BY <1>3, <1>4
  <2>2. ASSUME y < x PROVE FALSE
    <3>1. 1 .. y \subseteq 1 .. x /\ x \in 1 .. x /\ x \notin 1 .. y BY <2>2
    <3>2. 1 .. y # 1 .. x BY <3>1
    <3>3. 1 .. y \in SUBSET Nat /\ 1 .. x \in SUBSET Nat OBVIOUS
    <3> QED BY <2>1, <3>1, <3>2, <3>3 DEF StrictSubsetOrdering
  <2> QED BY <2>2
<1> QED BY <1>5

-----------------------------------------------------------------------------
(* Sizes and Evict *)

\* What Sizes is defined by, for the first n segments of a list.
SumsTo(g, list, n) ==
    \A i \in 0 .. n : g[i] = IF i = 0 THEN 0 ELSE g[i - 1] + Cardinality(list[i])

\* The sums exist for every length: a shortest prefix without them could be
\* extended from the one before.
LEMMA SumsExist ==
    ASSUME NEW list \in Seq(Segments)
    PROVE  \E g \in [0 .. Len(list) -> Nat] : SumsTo(g, list, Len(list))
<1> DEFINE None(n) == ~ \E g \in [0 .. n -> Nat] : SumsTo(g, list, n)
           T == {n \in 0 .. Len(list) : None(n)}
<1>1. Len(list) \in Nat
    OBVIOUS
<1>2. SUFFICES ASSUME T # {} PROVE FALSE
    BY <1>1
<1>3. PICK n \in T : \A m \in T : n <= m
  <2>1. T \in SUBSET Nat
    BY <1>1
  <2>. HIDE DEF T
  <2>. QED BY <1>2, <2>1, LeastNat
<1>4. n \in 0 .. Len(list) /\ None(n)
    BY <1>3
<1>5. n # 0
  <2>1. SUFFICES ASSUME n = 0 PROVE FALSE
    OBVIOUS
  <2>2. [i \in 0 .. 0 |-> 0] \in [0 .. 0 -> Nat]
    OBVIOUS
  <2>3. SumsTo([i \in 0 .. 0 |-> 0], list, 0)
    BY DEF SumsTo
  <2>. QED BY <1>4, <2>1, <2>2, <2>3
<1>6. n - 1 \in 0 .. Len(list) /\ n - 1 \notin T
  <2>1. n - 1 \in 0 .. Len(list) /\ ~(n <= n - 1)
    <3>. HIDE DEF None
    <3>. QED BY <1>1, <1>4, <1>5
  <2>. HIDE DEF T
  <2>. QED BY <1>3, <2>1
<1>7. PICK g \in [0 .. n - 1 -> Nat] : SumsTo(g, list, n - 1)
    BY <1>6
<1>8. Cardinality(list[n]) \in Nat
  <2>1. list[n] \in Segments
    BY <1>1, <1>4, <1>5
  <2>. QED BY <2>1, FS_CardinalityType DEF Segments
<1>9. PICK h : h = [i \in 0 .. n |-> IF i = n THEN g[n - 1] + Cardinality(list[n]) ELSE g[i]]
    OBVIOUS
<1>10. g[n - 1] \in Nat
    BY <1>4, <1>5, <1>7, <1>1
<1>11. h \in [0 .. n -> Nat]
    BY <1>1, <1>4, <1>5, <1>7, <1>8, <1>9, <1>10
<1>12. \A i \in 0 .. n - 1 : h[i] = g[i]
    BY <1>1, <1>4, <1>9
<1>13. h[n] = h[n - 1] + Cardinality(list[n])
    BY <1>1, <1>4, <1>5, <1>9
<1>14. SumsTo(h, list, n)
  <2>1. SUFFICES ASSUME NEW i \in 0 .. n
                 PROVE  h[i] = IF i = 0 THEN 0 ELSE h[i - 1] + Cardinality(list[i])
    BY DEF SumsTo
  <2>2. CASE i = n
    BY <1>5, <1>13, <2>2
  <2>3. CASE i # n
    <3>1. i \in 0 .. n - 1 /\ (i # 0 => i - 1 \in 0 .. n - 1)
      BY <1>1, <1>4, <2>3
    <3>2. g[i] = IF i = 0 THEN 0 ELSE g[i - 1] + Cardinality(list[i])
      BY <1>7, <3>1 DEF SumsTo
    <3>. QED BY <1>12, <3>1, <3>2
  <2>. QED BY <2>2, <2>3
<1>. QED
    BY <1>4, <1>11, <1>14

\* Sizes adds up the segments, and every sum is a number.
LEMMA SizesAdd ==
    ASSUME NEW list \in Seq(Segments)
    PROVE  Sizes(list) \in [0 .. Len(list) -> Nat] /\ SumsTo(Sizes(list), list, Len(list))
<1> DEFINE D(g) == [i \in 0 .. Len(list) |-> IF i = 0 THEN 0 ELSE g[i - 1] + Cardinality(list[i])]
<1>1. Len(list) \in Nat
    OBVIOUS
<1>2. Sizes(list) = CHOOSE g : g = D(g)
    BY DEF Sizes
<1>3. \E g : g = D(g)
  <2>1. PICK g \in [0 .. Len(list) -> Nat] : SumsTo(g, list, Len(list))
    BY SumsExist
  <2>2. \A i \in 0 .. Len(list) : g[i] = D(g)[i]
    BY <2>1 DEF SumsTo
  <2>3. g = D(g)
    BY <2>1, <2>2
  <2>. QED BY <2>3
<1>4. Sizes(list) = D(Sizes(list))
  <2>. HIDE DEF D
  <2>. QED BY <1>2, <1>3
<1>5. SumsTo(Sizes(list), list, Len(list)) /\ DOMAIN Sizes(list) = 0 .. Len(list)
    BY <1>4 DEF SumsTo
<1> DEFINE T == {i \in 0 .. Len(list) : Sizes(list)[i] \notin Nat}
<1>6. T = {}
  <2>1. SUFFICES ASSUME T # {} PROVE FALSE
    OBVIOUS
  <2>2. T \in SUBSET Nat
    BY <1>1
  <2>3. PICK n \in T : \A m \in T : n <= m
    <3>. HIDE DEF T
    <3>. QED BY <2>1, <2>2, LeastNat
  <2>4. n \in 0 .. Len(list) /\ Sizes(list)[n] \notin Nat
    BY <2>3
  <2>5. n # 0
    BY <1>1, <1>5, <2>4 DEF SumsTo
  <2>6. n - 1 \in 0 .. Len(list) /\ n - 1 \notin T
    BY <1>1, <2>3, <2>4, <2>5
  <2>7. Sizes(list)[n - 1] \in Nat
    BY <2>6
  <2>8. Cardinality(list[n]) \in Nat
    <3>1. list[n] \in Segments
      BY <1>1, <2>4, <2>5
    <3>. QED BY <3>1, FS_CardinalityType DEF Segments
  <2>9. Sizes(list)[n] = Sizes(list)[n - 1] + Cardinality(list[n])
    BY <1>5, <2>4, <2>5 DEF SumsTo
  <2>. QED BY <2>4, <2>7, <2>8, <2>9
<1>7. \A i \in 0 .. Len(list) : Sizes(list)[i] \in Nat
    BY <1>6
<1>8. Sizes(list) \in [0 .. Len(list) -> Nat]
  <2>1. Sizes(list) = [i \in 0 .. Len(list) |-> Sizes(list)[i]]
    BY <1>4
  <2>. HIDE DEF D
  <2>. QED BY <1>7, <2>1
<1>. QED
    BY <1>5, <1>8

\* A prefix of a list has the list's sums.
LEMMA PrefixSizes ==
    ASSUME NEW list \in Seq(Segments), NEW k \in 1 .. Len(list)
    PROVE  /\ SubSeq(list, 1, k) \in Seq(Segments) /\ Len(SubSeq(list, 1, k)) = k
           /\ SubSeq(list, 1, k)[1] = list[1]
           /\ Sizes(SubSeq(list, 1, k))[k] = Sizes(list)[k]
<1>1. Len(list) \in Nat /\ k \in Nat /\ 1 <= k /\ k <= Len(list)
    OBVIOUS
<1>2. PICK p : p = SubSeq(list, 1, k)
    OBVIOUS
<1>3. p \in Seq(Segments) /\ Len(p) = k /\ \A i \in 1 .. k : p[i] = list[i]
    BY <1>1, <1>2, SubSeqProperties
<1>4. SumsTo(Sizes(p), p, k) /\ SumsTo(Sizes(list), list, Len(list))
    BY <1>3, SizesAdd
<1> DEFINE T == {i \in 0 .. k : Sizes(p)[i] # Sizes(list)[i]}
<1>5. T = {}
  <2>1. SUFFICES ASSUME T # {} PROVE FALSE
    OBVIOUS
  <2>2. T \in SUBSET Nat
    BY <1>1
  <2>3. PICK n \in T : \A m \in T : n <= m
    <3>. HIDE DEF T
    <3>. QED BY <2>1, <2>2, LeastNat
  <2>4. n \in 0 .. k /\ n \in 0 .. Len(list) /\ Sizes(p)[n] # Sizes(list)[n]
    BY <1>1, <2>3
  <2>5. n # 0
    BY <1>1, <1>4, <2>4 DEF SumsTo
  <2>6. n - 1 \in 0 .. k /\ n - 1 \notin T
    BY <1>1, <2>3, <2>4, <2>5
  <2>7. Sizes(p)[n - 1] = Sizes(list)[n - 1]
    BY <2>6
  <2>8. p[n] = list[n]
    BY <1>1, <1>3, <2>4, <2>5
  <2>9. Sizes(p)[n] = Sizes(p)[n - 1] + Cardinality(p[n])
    BY <1>4, <2>4, <2>5 DEF SumsTo
  <2>10. Sizes(list)[n] = Sizes(list)[n - 1] + Cardinality(list[n])
    BY <1>4, <2>4, <2>5 DEF SumsTo
  <2>. QED BY <2>4, <2>7, <2>8, <2>9, <2>10
<1>6. k \in 0 .. k
    BY <1>1
<1>7. Sizes(p)[k] = Sizes(list)[k]
    BY <1>5, <1>6
<1>8. p[1] = list[1]
    BY <1>1, <1>3
<1>. QED
    BY <1>2, <1>3, <1>7, <1>8

\* Eviction keeps a prefix that fits, from the newest segment on (lf_seal).
LEMMA EvictKeeps ==
    ASSUME NEW list \in Seq(Segments), list # <<>>
    PROVE  /\ Evict(list).segs \in Seq(Segments) /\ Evict(list).segs # <<>>
           /\ Evict(list).segs[1] = list[1]
           /\ Evict(list).total \in Nat
           /\ Evict(list).total = Sizes(Evict(list).segs)[Len(Evict(list).segs)]
           /\ Evict(list).total <= Cap \/ Len(Evict(list).segs) <= 1
<1> DEFINE Good(n) == Fits(list, n) /\ \A m \in n + 1 .. Len(list) : ~Fits(list, m)
           T == {Len(list) - n : n \in {m \in 1 .. Len(list) : Fits(list, m)}}
<1>1. Len(list) \in Nat /\ Len(list) >= 1
    BY EmptySeq
<1>2. \E n \in 1 .. Len(list) : Good(n)
  <2>1. T \in SUBSET Nat /\ T # {}
    <3>1. 1 \in 1 .. Len(list) /\ Fits(list, 1)
      BY <1>1 DEF Fits
    <3>. QED BY <1>1, <3>1
  <2>2. PICK d \in T : \A e \in T : d <= e
    <3>. HIDE DEF T
    <3>. QED BY <2>1, LeastNat
  <2>3. PICK n \in 1 .. Len(list) : Fits(list, n) /\ d = Len(list) - n
    BY <2>2
  <2>4. ASSUME NEW m \in n + 1 .. Len(list), Fits(list, m) PROVE FALSE
    <3>1. m \in 1 .. Len(list)
      BY <1>1, <2>3
    <3>2. Len(list) - m \in T
      BY <2>4, <3>1
    <3>3. d <= Len(list) - m
      BY <2>2, <3>2
    <3>. QED BY <1>1, <2>3, <2>4, <3>1, <3>3
  <2>. QED BY <2>3, <2>4
<1>3. PICK k : k = CHOOSE n \in 1 .. Len(list) : Good(n)
    OBVIOUS
<1>4. k \in 1 .. Len(list) /\ Good(k)
  <2>. HIDE DEF Good
  <2>. QED BY <1>2, <1>3
<1>5. Evict(list) = [segs |-> SubSeq(list, 1, k), total |-> Sizes(list)[k]]
    BY <1>3 DEF Evict
<1>6. Sizes(list)[k] \in Nat
    BY <1>1, <1>4, SizesAdd
<1>7. SubSeq(list, 1, k) # <<>>
    BY <1>1, <1>4, PrefixSizes
<1>8. Sizes(list)[k] <= Cap \/ k = 1
    BY <1>4 DEF Fits
<1>9. /\ SubSeq(list, 1, k) \in Seq(Segments) /\ Len(SubSeq(list, 1, k)) = k
      /\ SubSeq(list, 1, k)[1] = list[1]
      /\ Sizes(SubSeq(list, 1, k))[k] = Sizes(list)[k]
    BY <1>4, PrefixSizes
<1>. QED
    BY <1>5, <1>6, <1>7, <1>8, <1>9

-----------------------------------------------------------------------------
(* The caches *)

\* Both caches start empty.
LEMMA HotInit == ASSUME CachesAssumption, HInit PROVE HotInv
<1>1. HotTypes
  <2>1. IsFiniteSet({})
    BY FS_EmptySet
  <2>2. PutterIdle \in PutterStates
    BY DEF PutterIdle, PutterStates
  <2>3. segs \in [CacheShards -> Seq(Segments)]
    BY DEF HInit
  <2>. QED BY <2>1, <2>2, <2>3 DEF HInit, HotTypes
<1>2. SealersHold
    BY DEF HInit, SealersHold, Sealing, PutterIdle
<1>3. EpochsRise
    BY DEF HInit, EpochsRise, PutterIdle
<1>4. TotalsAdd
  <2>1. << >> \in Seq(Segments) /\ Len(<< >>) = 0
    OBVIOUS
  <2>2. Sizes(<< >>)[0] = 0
    <3>1. SumsTo(Sizes(<< >>), << >>, 0)
      BY <2>1, SizesAdd
    <3>. QED BY <3>1 DEF SumsTo
  <2>3. \A s \in CacheShards : segs[s] = << >> /\ total[s] = 0
    BY DEF HInit
  <2>. QED BY <2>1, <2>2, <2>3 DEF TotalsAdd
<1>5. ReadersTold
    BY DEF HInit, ReadersTold
<1>. QED
    BY <1>1, <1>2, <1>3, <1>4, <1>5 DEF HotInv

\* A hash goes into an unlocked shard; a full block locks it (lf_put).
LEMMA PutKeeps ==
    ASSUME CachesAssumption, HotInv, NEW w \in CacheWriters, NEW h \in Hashes, Put(w, h)
    PROVE  HotInv'
<1>1. PICK s \in CacheShards : s = shard_of[h]
    BY DEF CachesAssumption
<1>2. /\ putter[w].at = "idle" /\ lock[s] = NoThread
      /\ UNCHANGED <<segs, total, headBlk, epoch, seen, arena, last, joined, missedSum, gotten>>
    BY <1>1 DEF Put, hotvars
<1>3. /\ TotalsAdd' /\ ReadersTold'
    BY <1>2 DEF HotInv, TotalsAdd, ReadersTold
<1>4. CASE UNCHANGED <<lock, unsealed, putter>>
  <2>1. HotTypes' /\ SealersHold' /\ EpochsRise'
    BY <1>2, <1>4 DEF HotInv, HotTypes, SealersHold, EpochsRise, Sealing
  <2>. QED BY <1>3, <2>1 DEF HotInv
<1>5. CASE ~UNCHANGED <<lock, unsealed, putter>>
  <2>1. unsealed' = [unsealed EXCEPT ![s] = @ \union {h}]
    BY <1>1, <1>5 DEF Put
  <2>2. \/ UNCHANGED <<lock, putter>>
        \/ /\ lock' = [lock EXCEPT ![s] = w]
           /\ putter' = [putter EXCEPT ![w] = [PutterIdle EXCEPT !.at = "seal", !.shard = s]]
    BY <1>1, <1>5 DEF Put
  <2>3. PICK sealing : sealing = [PutterIdle EXCEPT !.at = "seal", !.shard = s]
    OBVIOUS
  <2>4. sealing \in PutterStates /\ sealing.at = "seal" /\ sealing.shard = s
    BY <2>3 DEF PutterIdle, PutterStates
  <2>5. HotTypes'
    <3>1. \A x \in CacheShards : IsFiniteSet(unsealed'[x])
      BY <2>1, FS_AddElement DEF HotInv, HotTypes
    <3>2. unsealed' \in [CacheShards -> SUBSET Hashes]
      BY <2>1 DEF HotInv, HotTypes
    <3>3. lock' \in [CacheShards -> CacheWriters \union {NoThread}] /\ putter' \in [CacheWriters -> PutterStates]
      <4>1. /\ lock \in [CacheShards -> CacheWriters \union {NoThread}]
            /\ putter \in [CacheWriters -> PutterStates]
        BY DEF HotInv, HotTypes
      <4>2. lock' = lock \/ lock' = [lock EXCEPT ![s] = w]
        BY <2>2
      <4>3. putter' = putter \/ putter' = [putter EXCEPT ![w] = sealing]
        BY <2>2, <2>3
      <4>4. lock' \in [CacheShards -> CacheWriters \union {NoThread}]
        BY <4>1, <4>2
      <4>5. putter' \in [CacheWriters -> PutterStates]
        BY <2>4, <4>1, <4>3
      <4>. QED BY <4>4, <4>5
    <3>. QED BY <1>2, <3>1, <3>2, <3>3 DEF HotInv, HotTypes
  <2>6. \A v \in CacheWriters : Sealing(v) => putter[v].shard # s
    BY <1>2 DEF HotInv, SealersHold, CachesAssumption
  <2>7. SealersHold'
    <3>1. \A x \in CacheShards : unsealed[x] \subseteq unsealed'[x]
      BY <2>1 DEF HotInv, HotTypes
    <3>2. h \in unsealed'[s]
      BY <2>1 DEF HotInv, HotTypes
    <3>3. CASE UNCHANGED <<lock, putter>>
      BY <3>1, <3>3 DEF HotInv, SealersHold, Sealing
    <3>4. CASE ~UNCHANGED <<lock, putter>>
      <4>1. /\ lock'[s] = w /\ putter'[w] = sealing
            /\ \A x \in CacheShards : x # s => lock'[x] = lock[x]
            /\ \A v \in CacheWriters : v # w => putter'[v] = putter[v]
        BY <2>2, <2>3, <3>4 DEF HotInv, HotTypes
      <4>. QED BY <2>4, <2>6, <3>1, <3>2, <4>1 DEF HotInv, SealersHold, Sealing
    <3>. QED BY <3>3, <3>4
  <2>8. EpochsRise'
    <3>1. ASSUME NEW v \in CacheWriters PROVE putter'[v] = putter[v] \/ putter'[v].at = "seal"
      <4>1. CASE UNCHANGED <<lock, putter>>
        BY <4>1
      <4>2. CASE putter' = [putter EXCEPT ![w] = sealing]
        BY <2>4, <4>2 DEF HotInv, HotTypes
      <4>. QED BY <2>2, <2>3, <4>1, <4>2
    <3>2. \A v \in CacheWriters : putter'[v].at = "publish" => putter'[v] = putter[v]
      BY <3>1
    <3>. QED BY <1>2, <3>2 DEF HotInv, EpochsRise
  <2>. QED BY <1>3, <2>5, <2>7, <2>8 DEF HotInv
<1>. QED
    BY <1>4, <1>5

\* A step that only moves a writer to "idle" or "flush".
LEMMA StandsBack ==
    ASSUME HotInv, NEW w \in CacheWriters, NEW st \in PutterStates, st.at \in {"idle", "flush"},
           putter' = [putter EXCEPT ![w] = st],
           UNCHANGED <<lock, unsealed, segs, total, headBlk, epoch, seen, hotvars>>
    PROVE  HotInv'
<1>1. /\ UNCHANGED <<lock, unsealed, segs, total, headBlk, epoch, seen, arena, last, joined, missedSum, gotten>>
      /\ putter' \in [CacheWriters -> PutterStates]
      /\ \A v \in CacheWriters : putter'[v].at \in {"seal", "publish"} => putter'[v] = putter[v]
    BY DEF HotInv, HotTypes, hotvars
<1>2. HotTypes'
    BY <1>1 DEF HotInv, HotTypes
<1>3. SealersHold'
    BY <1>1 DEF HotInv, SealersHold, Sealing
<1>4. EpochsRise'
    BY <1>1 DEF HotInv, EpochsRise
<1>5. TotalsAdd' /\ ReadersTold'
    BY <1>1 DEF HotInv, TotalsAdd, ReadersTold
<1>. QED
    BY <1>2, <1>3, <1>4, <1>5 DEF HotInv

\* A flush has every shard before it (lf_flush).
LEMMA FlushStartKeeps ==
    ASSUME HotInv, NEW w \in CacheWriters, FlushStart(w)
    PROVE  HotInv'
<1>1. PICK st : st = [PutterIdle EXCEPT !.at = "flush", !.rest = CacheShards]
    OBVIOUS
<1>2. st \in PutterStates /\ st.at = "flush"
    BY <1>1 DEF PutterIdle, PutterStates
<1>. QED
    BY <1>1, <1>2, StandsBack DEF FlushStart

\* A shard with nothing pending is passed by, another is locked (lf_flush).
LEMMA FlushShardKeeps ==
    ASSUME CachesAssumption, HotInv, NEW w \in CacheWriters, NEW s \in CacheShards, FlushShard(w, s)
    PROVE  HotInv'
<1>1. putter[w] \in PutterStates /\ putter[w].at = "flush" /\ lock[s] = NoThread
    BY DEF FlushShard, HotInv, HotTypes
<1>2. UNCHANGED <<unsealed, segs, total, headBlk, epoch, seen, hotvars>>
    BY DEF FlushShard
<1>3. CASE unsealed[s] = {}
  <2>1. PICK st : st = [putter[w] EXCEPT !.rest = @ \ {s},
                                         !.at = IF putter[w].rest = {s} THEN "idle" ELSE "flush"]
    OBVIOUS
  <2>2. st \in PutterStates /\ st.at \in {"idle", "flush"}
    BY <1>1, <2>1 DEF PutterStates
  <2>3. putter' = [putter EXCEPT ![w] = st] /\ lock' = lock
    BY <1>3, <2>1 DEF FlushShard, HotInv, HotTypes
  <2>. QED BY <1>2, <2>2, <2>3, StandsBack
<1>4. CASE unsealed[s] # {}
  <2>1. PICK st : st = [putter[w] EXCEPT !.rest = @ \ {s}, !.at = "seal", !.shard = s]
    OBVIOUS
  <2>2. st \in PutterStates /\ st.at = "seal" /\ st.shard = s
    BY <1>1, <2>1 DEF PutterStates
  <2>3. putter' = [putter EXCEPT ![w] = st] /\ lock' = [lock EXCEPT ![s] = w]
    BY <1>4, <2>1 DEF FlushShard, HotInv, HotTypes
  <2>4. UNCHANGED <<unsealed, segs, total, headBlk, epoch, seen, arena, last, joined, missedSum, gotten>>
    BY <1>2 DEF hotvars
  <2>5. HotTypes'
    BY <2>2, <2>3, <2>4 DEF HotInv, HotTypes
  <2>6. \A v \in CacheWriters : Sealing(v) => putter[v].shard # s
    BY <1>1 DEF HotInv, SealersHold, CachesAssumption
  <2>7. /\ lock'[s] = w /\ putter'[w] = st
        /\ \A x \in CacheShards : x # s => lock'[x] = lock[x]
        /\ \A v \in CacheWriters : v # w => putter'[v] = putter[v]
    BY <2>3 DEF HotInv, HotTypes
  <2>8. SealersHold'
    BY <1>4, <2>2, <2>4, <2>6, <2>7 DEF HotInv, SealersHold, Sealing
  <2>9. EpochsRise'
    <3>1. \A v \in CacheWriters : putter'[v].at = "publish" => putter'[v] = putter[v]
      BY <2>2, <2>7
    <3>. QED BY <2>4, <3>1 DEF HotInv, EpochsRise
  <2>10. TotalsAdd' /\ ReadersTold'
    BY <2>4 DEF HotInv, TotalsAdd, ReadersTold
  <2>. QED BY <2>5, <2>8, <2>9, <2>10 DEF HotInv
<1>. QED
    BY <1>3, <1>4

\* The epoch drawn is newer than every epoch shown, this shard's included.
LEMMA SealEpochKeeps ==
    ASSUME HotInv, NEW w \in CacheWriters, SealEpoch(w)
    PROVE  HotInv'
<1>1. putter[w] \in PutterStates /\ putter[w].at = "seal" /\ epoch \in Nat /\ epoch' = epoch + 1
    BY DEF SealEpoch, HotInv, HotTypes
<1>2. UNCHANGED <<lock, unsealed, segs, total, headBlk, seen, arena, last, joined, missedSum, gotten>>
    BY DEF SealEpoch, hotvars
<1>3. PICK st : st = [putter[w] EXCEPT !.at = "publish", !.ep = epoch + 1]
    OBVIOUS
<1>4. st \in PutterStates /\ st.at = "publish" /\ st.shard = putter[w].shard /\ st.ep = epoch + 1
  <2>1. epoch + 1 \in Nat
    BY <1>1
  <2>2. st = [at |-> "publish", shard |-> putter[w].shard, ep |-> epoch + 1, rest |-> putter[w].rest]
    BY <1>1, <1>3 DEF PutterStates
  <2>3. putter[w].shard \in CacheShards \union {0} /\ putter[w].rest \in SUBSET CacheShards
    BY <1>1 DEF PutterStates
  <2>. QED BY <2>1, <2>2, <2>3 DEF PutterStates
<1>5. putter' = [putter EXCEPT ![w] = st]
    BY <1>3 DEF SealEpoch, HotInv, HotTypes
<1>6. putter'[w] = st /\ \A v \in CacheWriters : v # w => putter'[v] = putter[v]
    BY <1>5 DEF HotInv, HotTypes
<1>7. HotTypes'
    BY <1>1, <1>2, <1>4, <1>5 DEF HotInv, HotTypes
<1>8. SealersHold'
    BY <1>1, <1>2, <1>4, <1>6 DEF HotInv, SealersHold, Sealing
<1>9. EpochsRise'
  <2>1. \A s \in CacheShards : headBlk[s] \in Nat /\ headBlk[s] <= epoch
    BY DEF HotInv, HotTypes, EpochsRise
  <2>2. putter[w].shard \in CacheShards
    BY <1>1 DEF HotInv, SealersHold, Sealing
  <2>3. \A v \in CacheWriters : putter[v] \in PutterStates
    BY DEF HotInv, HotTypes
  <2>4. ASSUME NEW v \in CacheWriters, putter'[v].at = "publish"
        PROVE  headBlk[putter'[v].shard] < putter'[v].ep /\ putter'[v].ep <= epoch'
    <3>1. CASE v = w
      BY <1>1, <1>4, <1>6, <2>1, <2>2, <3>1
    <3>2. CASE v # w
      <4>1. headBlk[putter[v].shard] < putter[v].ep /\ putter[v].ep <= epoch
        BY <1>6, <2>4, <3>2 DEF HotInv, EpochsRise
      <4>2. putter[v].ep \in Nat
        BY <2>3 DEF PutterStates
      <4>. QED BY <1>1, <1>6, <3>2, <4>1, <4>2
    <3>. QED BY <3>1, <3>2
  <2>5. \A s \in CacheShards : headBlk[s] <= epoch'
    BY <1>1, <2>1
  <2>. QED BY <1>2, <2>4, <2>5 DEF HotInv, EpochsRise
<1>10. TotalsAdd' /\ ReadersTold'
    BY <1>2 DEF HotInv, TotalsAdd, ReadersTold
<1>. QED
    BY <1>7, <1>8, <1>9, <1>10 DEF HotInv

\* The block becomes the newest segment, the oldest go, and the shard shows the
\* epoch that was drawn for it (lf_seal and write_with_epoch).
LEMMA SealPublishKeeps ==
    ASSUME CachesAssumption, HotInv, NEW w \in CacheWriters, SealPublish(w)
    PROVE  HotInv'
<1>1. putter[w] \in PutterStates /\ putter[w].at = "publish"
    BY DEF SealPublish, HotInv, HotTypes
<1>2. PICK s : s = putter[w].shard
    OBVIOUS
<1>3. /\ s \in CacheShards /\ lock[s] = w /\ unsealed[s] \in Segments
      /\ headBlk[s] < putter[w].ep /\ putter[w].ep <= epoch /\ putter[w].ep \in Nat
    BY <1>1, <1>2 DEF HotInv, HotTypes, SealersHold, Sealing, EpochsRise, Segments, PutterStates
<1>4. PICK list : list = <<unsealed[s]>> \o segs[s]
    OBVIOUS
<1>5. list \in Seq(Segments) /\ list # <<>> /\ list[1] = unsealed[s]
  <2>1. segs[s] \in Seq(Segments) /\ <<unsealed[s]>> \in Seq(Segments)
    BY <1>3 DEF HotInv, HotTypes
  <2>2. <<unsealed[s]>>[1] = unsealed[s] /\ Len(<<unsealed[s]>>) = 1
    OBVIOUS
  <2>. QED BY <1>4, <2>1, <2>2, ConcatProperties
<1>6. PICK e : e = Evict(list)
    OBVIOUS
<1>7. /\ e.segs \in Seq(Segments) /\ e.segs # <<>> /\ e.total \in Nat
      /\ e.total = Sizes(e.segs)[Len(e.segs)]
      /\ e.total <= Cap \/ Len(e.segs) <= 1
    BY <1>5, <1>6, EvictKeeps
<1>8. /\ segs' = [segs EXCEPT ![s] = e.segs] /\ total' = [total EXCEPT ![s] = e.total]
      /\ unsealed' = [unsealed EXCEPT ![s] = {}]
      /\ headBlk' = [headBlk EXCEPT ![s] = putter[w].ep]
      /\ lock' = [lock EXCEPT ![s] = NoThread]
      /\ UNCHANGED <<epoch, seen, arena, last, joined, missedSum, gotten>>
    BY <1>2, <1>4, <1>6 DEF SealPublish, hotvars
<1>9. PICK st : st = [PutterIdle EXCEPT !.rest = putter[w].rest,
                        !.at = IF putter[w].rest = {} THEN "idle" ELSE "flush"]
    OBVIOUS
<1>10. st \in PutterStates /\ st.at \in {"idle", "flush"}
    BY <1>1, <1>9 DEF PutterIdle, PutterStates
<1>11. putter' = [putter EXCEPT ![w] = st]
    BY <1>9 DEF SealPublish
<1>12. putter'[w] = st /\ \A v \in CacheWriters : v # w => putter'[v] = putter[v]
    BY <1>11 DEF HotInv, HotTypes
<1>13. \A x \in CacheShards :
        /\ segs'[x] = (IF x = s THEN e.segs ELSE segs[x]) /\ total'[x] = (IF x = s THEN e.total ELSE total[x])
        /\ unsealed'[x] = (IF x = s THEN {} ELSE unsealed[x]) /\ lock'[x] = (IF x = s THEN NoThread ELSE lock[x])
        /\ headBlk'[x] = (IF x = s THEN putter[w].ep ELSE headBlk[x])
    BY <1>8 DEF HotInv, HotTypes
<1>14. HotTypes'
  <2>1. lock' \in [CacheShards -> CacheWriters \union {NoThread}]
    BY <1>8 DEF HotInv, HotTypes
  <2>2. unsealed' \in [CacheShards -> SUBSET Hashes]
    BY <1>8 DEF HotInv, HotTypes
  <2>3. \A x \in CacheShards : IsFiniteSet(unsealed'[x])
    BY <1>13, FS_EmptySet DEF HotInv, HotTypes
  <2>4. segs' \in [CacheShards -> Seq(Segments)] /\ total' \in [CacheShards -> Nat]
    BY <1>7, <1>8 DEF HotInv, HotTypes
  <2>5. headBlk' \in [CacheShards -> Nat]
    BY <1>3, <1>8 DEF HotInv, HotTypes
  <2>6. putter' \in [CacheWriters -> PutterStates]
    BY <1>10, <1>11 DEF HotInv, HotTypes
  <2>. QED BY <1>8, <2>1, <2>2, <2>3, <2>4, <2>5, <2>6 DEF HotInv, HotTypes
<1>15. \A v \in CacheWriters : putter'[v].at \in {"seal", "publish"} =>
          v # w /\ putter'[v] = putter[v] /\ Sealing(v) /\ putter[v].shard \in CacheShards /\ putter[v].shard # s
    BY <1>3, <1>10, <1>12 DEF HotInv, SealersHold, Sealing
<1>16. SealersHold'
    BY <1>13, <1>15 DEF HotInv, SealersHold, Sealing
<1>17. EpochsRise'
  <2>1. \A v \in CacheWriters : putter'[v].at = "publish" => headBlk'[putter'[v].shard] < putter'[v].ep /\ putter'[v].ep <= epoch
    BY <1>13, <1>15 DEF HotInv, EpochsRise
  <2>2. \A x \in CacheShards : headBlk'[x] <= epoch /\ (headBlk'[x] > 0 => segs'[x] # <<>>)
    BY <1>3, <1>7, <1>13 DEF HotInv, EpochsRise
  <2>3. ASSUME NEW r \in CacheReaders, NEW x \in CacheShards PROVE seen[r][x] <= headBlk'[x]
    <3>1. seen[r][x] \in Nat /\ headBlk[x] \in Nat /\ seen[r][x] <= headBlk[x]
      BY DEF HotInv, HotTypes, EpochsRise
    <3>. QED BY <1>3, <1>13, <3>1
  <2>. QED BY <1>8, <2>1, <2>2, <2>3 DEF EpochsRise
<1>18. TotalsAdd'
    BY <1>7, <1>13 DEF HotInv, TotalsAdd
<1>19. ReadersTold'
    BY <1>8 DEF HotInv, ReadersTold
<1>. QED
    BY <1>14, <1>16, <1>17, <1>18, <1>19 DEF HotInv

\* A lookup, a batch of hotmem writes and a hotmem read (lf_lookup,
\* hotmem_write, hotmem_read).
LEMMA ReadersKeep ==
    ASSUME HotInv,
           \/ \E r \in CacheReaders :
               HotmemRead(r, 0) \/ HotmemRead(r, last[r]) \/ \E s \in CacheShards : Lookup(r, s)
           \/ \E w \in CacheWriters : \E n \in 1 .. 2 : HotmemWrite(w, n)
    PROVE  HotInv'
<1>1. ASSUME NEW r \in CacheReaders, NEW s \in CacheShards, Lookup(r, s) PROVE HotInv'
  <2>1. /\ seen' = [seen EXCEPT ![r][s] = headBlk[s]]
        /\ UNCHANGED <<lock, unsealed, segs, total, headBlk, epoch, putter, arena, last, joined, missedSum, gotten>>
    BY <1>1 DEF Lookup, hotvars
  <2>2. headBlk[s] \in Nat
    BY DEF HotInv, HotTypes
  <2>3. HotTypes'
    BY <2>1, <2>2 DEF HotInv, HotTypes
  <2>4. \A q \in CacheReaders, x \in CacheShards : seen'[q][x] <= headBlk[x]
    BY <2>1, <2>2 DEF HotInv, HotTypes, EpochsRise
  <2>5. EpochsRise'
    BY <2>1, <2>4 DEF HotInv, EpochsRise
  <2>6. SealersHold' /\ TotalsAdd' /\ ReadersTold'
    BY <2>1 DEF HotInv, SealersHold, Sealing, TotalsAdd, ReadersTold
  <2>. QED BY <2>3, <2>5, <2>6 DEF HotInv
<1>2. ASSUME UNCHANGED qhmvars, ReadersTold' PROVE HotInv'
  <2>1. UNCHANGED <<lock, unsealed, segs, total, headBlk, epoch, putter, seen>>
    BY <1>2 DEF qhmvars
  <2>2. HotTypes' /\ EpochsRise'
    BY <2>1 DEF HotInv, HotTypes, EpochsRise
  <2>3. SealersHold' /\ TotalsAdd'
    BY <2>1 DEF HotInv, SealersHold, Sealing, TotalsAdd
  <2>. QED BY <1>2, <2>2, <2>3 DEF HotInv
<1>3. ASSUME NEW w \in CacheWriters, NEW n \in 1 .. 2, HotmemWrite(w, n) PROVE HotInv'
  <2>1. UNCHANGED <<qhmvars, last, joined, missedSum, gotten>> /\ (arena' = arena + n \/ arena' = arena)
    BY <1>3 DEF HotmemWrite
  <2>2. arena' \in Nat /\ arena <= arena'
    BY <2>1 DEF HotInv, ReadersTold
  <2>3. ReadersTold'
    BY <2>1, <2>2 DEF HotInv, ReadersTold
  <2>. QED BY <1>2, <2>1, <2>3
<1>4. ASSUME NEW r \in CacheReaders, NEW from \in {0, last[r]}, HotmemRead(r, from) PROVE HotInv'
  <2> DEFINE m == MissedSince(from) + (IF from = 0 THEN 0 ELSE missedSum[r])
             g == IF from = 0 THEN 1 ELSE IF arena = from THEN gotten[r] ELSE gotten[r] + 1
             j == IF from = 0 THEN arena ELSE joined[r]
  <2>1. /\ arena > 0 /\ last' = [last EXCEPT ![r] = arena] /\ joined' = [joined EXCEPT ![r] = j]
        /\ missedSum' = [missedSum EXCEPT ![r] = m] /\ gotten' = [gotten EXCEPT ![r] = g]
        /\ arena' = arena /\ UNCHANGED qhmvars
    BY <1>4 DEF HotmemRead
  <2>2. /\ arena \in Nat /\ last[r] \in Nat /\ missedSum[r] \in Nat /\ gotten[r] \in Nat /\ joined[r] \in Nat
        /\ joined[r] + gotten[r] + missedSum[r] = last[r] + (IF last[r] = 0 THEN 0 ELSE 1)
        /\ joined[r] <= last[r] /\ last[r] <= arena
    BY DEF HotInv, ReadersTold
  <2>7. from = 0 => m = 0 /\ g = 1 /\ j = arena
    BY <2>2 DEF MissedSince
  <2>8. from # 0 => from = last[r] /\ j = joined[r]
    OBVIOUS
  <2>9. from # 0 /\ arena = from => m = missedSum[r] /\ g = gotten[r]
    BY <2>2 DEF MissedSince
  <2>10. from # 0 /\ arena # from => m = arena - (from + 1) + missedSum[r] /\ g = gotten[r] + 1
    BY <2>2 DEF MissedSince
  <2> HIDE DEF m, g, j
  <2>3. m \in Nat /\ g \in Nat /\ j \in Nat /\ j + g + m = arena + 1 /\ j <= arena
    <3>1. CASE from = 0
      BY <3>1, <2>2, <2>7
    <3>2. CASE from # 0 /\ arena = from
      BY <3>2, <2>2, <2>8, <2>9
    <3>3. CASE from # 0 /\ arena # from
      <4>1. arena > from /\ from \in Nat
        BY <3>3, <2>2, <2>8
      <4>. QED BY <3>3, <4>1, <2>2, <2>8, <2>10
    <3>. QED BY <3>1, <3>2, <3>3
  <2>4. /\ last' \in [CacheReaders -> Nat] /\ missedSum' \in [CacheReaders -> Nat]
        /\ gotten' \in [CacheReaders -> Nat] /\ joined' \in [CacheReaders -> Nat]
    BY <2>1, <2>2, <2>3 DEF HotInv, ReadersTold
  <2>5. ASSUME NEW q \in CacheReaders
        PROVE  /\ joined'[q] + gotten'[q] + missedSum'[q] = last'[q] + (IF last'[q] = 0 THEN 0 ELSE 1)
               /\ joined'[q] <= last'[q] /\ last'[q] <= arena'
    <3>1. CASE q = r
      <4>1. last'[q] = arena /\ missedSum'[q] = m /\ gotten'[q] = g /\ joined'[q] = j
        BY <2>1, <3>1 DEF HotInv, ReadersTold
      <4>2. arena' = arena /\ arena # 0
        BY <2>1, <2>2
      <4>. QED BY <2>2, <2>3, <4>1, <4>2
    <3>2. CASE q # r
      <4>1. last'[q] = last[q] /\ missedSum'[q] = missedSum[q] /\ gotten'[q] = gotten[q] /\ joined'[q] = joined[q]
        BY <2>1, <3>2 DEF HotInv, ReadersTold
      <4>. QED BY <2>1, <4>1 DEF HotInv, ReadersTold
    <3>. QED BY <3>1, <3>2
  <2>6. ReadersTold'
    BY <2>1, <2>2, <2>4, <2>5 DEF ReadersTold
  <2>. QED BY <1>2, <2>1, <2>6
<1>. QED
    BY <1>1, <1>3, <1>4

\* Every step keeps the invariant of the caches.
LEMMA HotStep == ASSUME CachesAssumption PROVE HotInv /\ [HNext]_hcvars => HotInv'
<1>. SUFFICES ASSUME HotInv, [HNext]_hcvars PROVE HotInv'
    OBVIOUS
<1>1. CASE UNCHANGED hcvars
  <2>1. UNCHANGED <<lock, unsealed, segs, total, headBlk, epoch, putter, seen, arena, last, joined, missedSum, gotten>>
    BY <1>1 DEF hcvars, qhmvars, hotvars
  <2>2. HotTypes' /\ EpochsRise'
    BY <2>1 DEF HotInv, HotTypes, EpochsRise
  <2>3. SealersHold' /\ TotalsAdd' /\ ReadersTold'
    BY <2>1 DEF HotInv, SealersHold, Sealing, TotalsAdd, ReadersTold
  <2>. QED BY <2>2, <2>3 DEF HotInv
<1>2. CASE HNext
    BY <1>2, PutKeeps, FlushStartKeeps, FlushShardKeeps, SealEpochKeeps, SealPublishKeeps, ReadersKeep DEF HNext
<1>. QED
    BY <1>1, <1>2

\* For any writers, readers, shards, hashes, cap and block size: epochs never
\* go back on a shard, its total is the size of its segments and keeps to the
\* cap, and a hotmem reader is told of every write since its first read.
THEOREM CachesHold == HSpec => []CachesAccount
<1>1. HSpec => []HotInv
    BY HotInit, HotStep, CachesAssumption, PTL DEF HSpec
<1>2. HotInv => CachesAccount
  <2>. SUFFICES ASSUME HotInv PROVE CachesAccount
    OBVIOUS
  <2>1. ASSUME NEW s \in CacheShards, headBlk[s] > 0
        PROVE  segs[s] # <<>> /\ segs[s][1] # {} /\ \A h \in segs[s][1] : Hit(s, h)
    <3>1. segs[s] \in Seq(Segments) /\ segs[s] # <<>>
      BY <2>1 DEF HotInv, HotTypes, EpochsRise
    <3>2. Len(segs[s]) \in Nat /\ Len(segs[s]) # 0
      BY <3>1, EmptySeq
    <3>3. 1 \in 1 .. Len(segs[s]) /\ segs[s][1] \in Segments
      BY <3>1, <3>2
    <3>. QED BY <3>1, <3>3 DEF Segments, Hit
  <2>. QED BY <2>1 DEF HotInv, TotalsAdd, EpochsRise, ReadersTold, CachesAccount
<1>. QED
    BY <1>1, <1>2, PTL
=============================================================================
