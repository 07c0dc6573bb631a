---------------------------- MODULE SingleWriter ----------------------------
(***************************************************************************)
(* The other structures of runtime/non_blocking_memory.rs that one thread  *)
(* writes: SeqCell and AdaptiveCell, and SpscQueue, DoubleBuffer and Ring. *)
(***************************************************************************)
EXTENDS Naturals, Sequences

-----------------------------------------------------------------------------
(***************************************************************************)
(* The two sequence-locked cells of runtime/non_blocking_memory.rs:        *)
(* SeqCell, and AdaptiveCell, which adds heap blocks that readers may pin  *)
(* while some reader asks for them.                                        *)
(*                                                                         *)
(* The k-th write stores the value <<k, k>>, one word at a time; a copy is *)
(* torn when its words differ.  ctrl is a record instead of packed bits:   *)
(* cnt (odd while a write is under way) and hot.  SeqCell.seq is cnt.      *)
(* BridgedCell shows that a pinned block is not freed; here read_ref and   *)
(* reclaim are one step each.                                              *)
(***************************************************************************)

CONSTANTS
    CellReaders,    \* reader threads, each with a handle
    CoolDown,   \* COOL_DOWN
    SweepPeriod,\* SWEEP_PERIOD
    MaxWrites,  \* bound: writes
    MaxReads    \* bound: reads of each reader

VARIABLES
    kind,           \* "seq" or "adaptive": which of the two cells this is
    ctrl, payload,  \* the sequence word and the two words of the inline payload
    writerAt, goHot,    \* the writer's position and the mode it has chosen
    current, superseded,    \* epochs of the published block (0: none), of the superseded ones
    cool, hotWrites,    \* cool_streak, hot_writes
    demand,         \* reader -> its DEMAND payload
    pc, mode, c0, copy, reads,  \* reader -> position, call, first load, words, reads made
    pins, started, result       \* reader -> block pinned, epoch at the call, answer

writerVars == <<ctrl, payload, writerAt, goHot, current, superseded, cool, hotWrites>>
readerVars == <<pc, mode, c0, copy, reads, pins, started, result>>
cvars == <<kind, writerVars, demand, readerVars>>

NoResult == [kind |-> "none"]

CInit ==
    /\ kind \in {"seq", "adaptive"}
    /\ ctrl = [cnt |-> 0, hot |-> FALSE] /\ payload = <<0, 0>>
    /\ writerAt = "idle" /\ goHot = FALSE /\ current = 0 /\ superseded = {} /\ cool = 0 /\ hotWrites = 0
    /\ demand = [r \in CellReaders |-> FALSE]
    /\ pc = [r \in CellReaders |-> "idle"] /\ mode = [r \in CellReaders |-> "owned"]
    /\ c0 = [r \in CellReaders |-> ctrl] /\ copy = [r \in CellReaders |-> <<0, 0>>]
    /\ reads = [r \in CellReaders |-> 0]
    /\ pins = [r \in CellReaders |-> 0] /\ started = [r \in CellReaders |-> 0]
    /\ result = [r \in CellReaders |-> NoResult]

\* The number of completed writes.
Epoch == ctrl.cnt \div 2

-----------------------------------------------------------------------------
(* The writer *)

\* SeqCell::write: the odd mark.
SeqWrite ==
    /\ kind = "seq" /\ writerAt = "idle" /\ Epoch < MaxWrites
    /\ ctrl' = [ctrl EXCEPT !.cnt = @ + 1]
    /\ writerAt' = "word1"
    /\ UNCHANGED <<kind, payload, goHot, current, superseded, cool, hotWrites, demand, readerVars>>

\* AdaptiveCell::write: live demand makes the write hot; without it a hot cell
\* stays hot for CoolDown writes.
AdaptiveWrite ==
    /\ kind = "adaptive" /\ writerAt = "idle" /\ Epoch < MaxWrites
    /\ LET asked == \E r \in CellReaders : demand[r]
           streak == IF asked THEN 0 ELSE IF ctrl.hot THEN cool + 1 ELSE cool
           hot == asked \/ (ctrl.hot /\ streak < CoolDown)
       IN  /\ cool' = IF ctrl.hot /\ ~hot THEN 0 ELSE streak
           /\ goHot' = hot
    /\ writerAt' = "mark"
    /\ UNCHANGED <<kind, ctrl, payload, current, superseded, hotWrites, demand, readerVars>>

\* The odd mark carries the mode chosen; demand may have come up since.
WriteMark ==
    /\ writerAt = "mark"
    /\ ctrl' = [cnt |-> ctrl.cnt + 1, hot |-> goHot]
    /\ writerAt' = IF ctrl.hot /\ ~goHot THEN "word1sweep" ELSE "word1"
    /\ UNCHANGED <<kind, payload, goHot, current, superseded, cool, hotWrites, demand, readerVars>>

\* write_volatile of the payload, a word at a time, in either cell and mode.
WriteWord1 ==
    /\ writerAt \in {"word1", "word1sweep"} /\ payload' = [payload EXCEPT ![1] = Epoch + 1]
    /\ writerAt' = IF writerAt = "word1" THEN "word2" ELSE "word2sweep"
    /\ UNCHANGED <<kind, ctrl, goHot, current, superseded, cool, hotWrites, demand, readerVars>>

WriteWord2 ==
    /\ writerAt \in {"word2", "word2sweep"} /\ payload' = [payload EXCEPT ![2] = Epoch + 1]
    /\ writerAt' = IF writerAt = "word2sweep" THEN "commitsweep" ELSE IF goHot THEN "block" ELSE "commit"
    /\ UNCHANGED <<kind, ctrl, goHot, current, superseded, cool, hotWrites, demand, readerVars>>

\* Writer::write_with_epoch: the new block is the current, the old one superseded.
WriteBlock ==
    /\ writerAt = "block"
    /\ current' = Epoch + 1
    /\ superseded' = IF current = 0 THEN superseded ELSE superseded \union {current}
    /\ hotWrites' = hotWrites + 1
    /\ writerAt' = IF hotWrites' % SweepPeriod = 0 THEN "commitsweep" ELSE "commit"
    /\ UNCHANGED <<kind, ctrl, payload, goHot, cool, demand, readerVars>>

WriteCommit ==
    /\ writerAt \in {"commit", "commitsweep"}
    /\ ctrl' = [ctrl EXCEPT !.cnt = @ + 1]
    /\ writerAt' = IF writerAt = "commit" THEN "idle" ELSE "sweep"
    /\ UNCHANGED <<kind, payload, goHot, current, superseded, cool, hotWrites, demand, readerVars>>

\* The reclaim of a periodic sweep or of a de-escalation: superseded blocks below
\* every pinned epoch are freed.
WriteSweep ==
    /\ writerAt = "sweep"
    /\ superseded' = {e \in superseded : \E r \in CellReaders : pins[r] # 0 /\ pins[r] <= e}
    /\ writerAt' = "idle"
    /\ UNCHANGED <<kind, ctrl, payload, goHot, current, cool, hotWrites, demand, readerVars>>

-----------------------------------------------------------------------------
(* CellReaders *)

Call(r, m) ==
    /\ pc[r] = "idle" /\ reads[r] < MaxReads
    /\ reads' = [reads EXCEPT ![r] = @ + 1]
    /\ pc' = [pc EXCEPT ![r] = "load"] /\ mode' = [mode EXCEPT ![r] = m]
    /\ started' = [started EXCEPT ![r] = Epoch]
    /\ pins' = [pins EXCEPT ![r] = 0]
    /\ UNCHANGED <<kind, writerVars, c0, copy, result>>

\* SeqCell::read and AdaptiveCell::read.
Read(r) == Call(r, "owned") /\ UNCHANGED demand

\* read_pinned asks for blocks before anything else.  A reader drops the
\* reference of its earlier call first.
ReadPinned(r) ==
    /\ kind = "adaptive"
    /\ Call(r, "pinned")
    /\ demand' = [demand EXCEPT ![r] = TRUE]

\* release_demand, also on the handle's drop; references stay valid.
ReleaseDemand(r) ==
    /\ kind = "adaptive" /\ pc[r] = "idle" /\ demand[r]
    /\ demand' = [demand EXCEPT ![r] = FALSE]
    /\ UNCHANGED <<kind, writerVars, readerVars>>

\* The first load: 0 answers Empty, a write under way makes the reader spin.
\* The pinned path is taken when the mode is hot.
ReadLoad(r) ==
    /\ pc[r] = "load"
    /\ \/ /\ ctrl.cnt = 0
          /\ result' = [result EXCEPT ![r] = [kind |-> "empty"]]
          /\ pc' = [pc EXCEPT ![r] = "idle"] /\ UNCHANGED c0
       \/ /\ ctrl.cnt > 0 /\ ctrl.cnt % 2 = 0
          /\ c0' = [c0 EXCEPT ![r] = ctrl]
          /\ pc' = [pc EXCEPT ![r] =
                      IF mode[r] = "pinned" /\ ctrl.hot THEN "pin" ELSE "copy1"]
          /\ UNCHANGED result
    /\ UNCHANGED <<kind, writerVars, demand, mode, copy, reads, pins, started>>

ReadWord(r, i, from, to) ==
    /\ pc[r] = from
    /\ copy' = [copy EXCEPT ![r][i] = payload[i]]
    /\ pc' = [pc EXCEPT ![r] = to]
    /\ UNCHANGED <<kind, writerVars, demand, mode, c0, reads, pins, started, result>>

ReadCopy(r) == ReadWord(r, 1, "copy1", "copy2") \/ ReadWord(r, 2, "copy2", "check")

\* Slip: a second load that only looks at the in-progress bit.
ReadCheckOddOnly(r) ==
    /\ pc[r] = "check"
    /\ IF ctrl.cnt % 2 = 0
         THEN /\ result' = [result EXCEPT ![r] =
                              [kind |-> "value", words |-> copy[r], epoch |-> c0[r].cnt \div 2]]
              /\ pc' = [pc EXCEPT ![r] = "idle"]
         ELSE /\ pc' = [pc EXCEPT ![r] = "load"] /\ UNCHANGED result
    /\ UNCHANGED <<kind, writerVars, demand, mode, c0, copy, reads, pins, started>>

\* The second load must be the first one exactly.
ReadCheck(r) ==
    /\ pc[r] = "check"
    /\ IF ctrl = c0[r]
         THEN /\ result' = [result EXCEPT ![r] =
                              [kind |-> "value", words |-> copy[r], epoch |-> c0[r].cnt \div 2]]
              /\ pc' = [pc EXCEPT ![r] = "idle"]
         ELSE /\ pc' = [pc EXCEPT ![r] = "load"] /\ UNCHANGED result
    /\ UNCHANGED <<kind, writerVars, demand, mode, c0, copy, reads, pins, started>>

\* BridgedCell::read_ref on the hot current, which exists once a hot write ended.
ReadPin(r) ==
    /\ pc[r] = "pin" /\ current # 0
    /\ pins' = [pins EXCEPT ![r] = current]
    /\ pc' = [pc EXCEPT ![r] = "pincheck"]
    /\ UNCHANGED <<kind, writerVars, demand, mode, c0, copy, reads, started, result>>

\* A de-escalation in between drops the reference and starts again.
ReadPinCheck(r) ==
    /\ pc[r] = "pincheck"
    /\ IF ctrl.hot
         THEN /\ result' = [result EXCEPT ![r] =
                              [kind |-> "value", words |-> <<pins[r], pins[r]>>, epoch |-> pins[r]]]
              /\ pc' = [pc EXCEPT ![r] = "idle"] /\ UNCHANGED pins
         ELSE /\ pc' = [pc EXCEPT ![r] = "load"] /\ pins' = [pins EXCEPT ![r] = 0]
              /\ UNCHANGED result
    /\ UNCHANGED <<kind, writerVars, demand, mode, c0, copy, reads, started>>

CellWrite == SeqWrite \/ AdaptiveWrite \/ WriteMark \/ WriteWord1 \/ WriteWord2 \/ WriteBlock
            \/ WriteCommit \/ WriteSweep

CNext ==
    \/ CellWrite
    \/ \E r \in CellReaders : \/ Read(r) \/ ReadPinned(r) \/ ReleaseDemand(r) \/ ReadLoad(r)
                          \/ ReadCopy(r) \/ ReadCheck(r) \/ ReadPin(r) \/ ReadPinCheck(r)

CSpec == CInit /\ [][CNext]_cvars

-----------------------------------------------------------------------------
\* Every answer of read and read_pinned is whole, carries the epoch of its
\* value, and is no older than the last write completed before the call: also
\* while the cell changes its mode, and while a stale block is still the current.
ReadsAreFresh ==
    \A r \in CellReaders : pc[r] = "idle" /\ result[r] # NoResult =>
        IF result[r].kind = "empty" THEN started[r] = 0
        ELSE /\ result[r].words = <<result[r].epoch, result[r].epoch>>
             /\ started[r] <= result[r].epoch /\ result[r].epoch <= (ctrl.cnt + 1) \div 2

\* A pinned block is neither freed nor overwritten: it is the current or superseded.
PinnedBlocksKept == \A r \in CellReaders : pins[r] # 0 => pins[r] = current \/ pins[r] \in superseded

\* What a reader of either cell relies on: answers that are whole and no older
\* than the last completed write, and blocks that stay while they are pinned.
CellsReadFresh == ReadsAreFresh /\ PinnedBlocksKept

-----------------------------------------------------------------------------
(***************************************************************************)
(* The small single-writer buffers of runtime/non_blocking_memory.rs:      *)
(* SpscQueue (a Lamport ring), DoubleBuffer, and Ring with the inline      *)
(* epochs of Cell.  One structure is exercised in a behaviour, the one     *)
(* `buffer' names.  Values are the numbers 1, 2, ... of the writes.        *)
(***************************************************************************)

CONSTANTS
    N,          \* capacity of the queue, cells of the ring
    Words,      \* head and tail count modulo this (usize)
    EpochRange,     \* inline epochs count modulo this (2^31)
    MaxFills,  \* bound: writes, at least Words so that the counters wrap
    Empty       \* an uninitialised slot, and the answer None

VARIABLES
    buffer,
    ring, headAt, tail,         \* SpscQueue: head is the producer's end
    ppc, seenTail, pushed,      \* producer: position, tail it loaded, values pushed
    cpc, seenHead, answer,      \* consumer: position, head it loaded, last answer
    slots, front, bpcw, held,   \* DoubleBuffer: slots, front index, writer, reader's slot
    cells, writePos, writes     \* Ring: cell -> value and epoch; writes made

qvars == <<ring, headAt, tail, ppc, seenTail, pushed, cpc, seenHead, answer>>
dvars == <<slots, front, bpcw, held>>
gvars == <<cells, writePos, writes>>
bvars == <<buffer, qvars, dvars, gvars>>

NotHeld == 2

\* What the proofs ask of the constants: a ring of N cells is not empty (new
\* asserts it), its length can be told from 0, None is no value, and either N
\* divides the range of the counters or they do not get so far.
BufferConstants ==
    /\ N \in Nat \ {0} /\ Words \in Nat /\ N < Words
    /\ Words % N = 0 \/ MaxFills < Words
    /\ EpochRange \in Nat \ {0} /\ MaxFills \in Nat /\ Empty \notin 1 .. MaxFills

ASSUME BuffersFit == BufferConstants

BInit ==
    /\ buffer \in {"spsc", "double", "ring"}
    /\ ring = [i \in 0 .. N - 1 |-> Empty] /\ headAt = 0 /\ tail = 0
    /\ ppc = "idle" /\ seenTail = 0 /\ pushed = 0
    /\ cpc = "idle" /\ seenHead = 0 /\ answer = Empty
    /\ slots = [i \in 0 .. 1 |-> 0] /\ front = 0 /\ bpcw = "idle" /\ held = NotHeld
    /\ cells = [i \in 0 .. N - 1 |-> [value |-> 0, epoch |-> 0]] /\ writePos = 0 /\ writes = 0

-----------------------------------------------------------------------------
(* SpscQueue: head is stored by the producer only, tail by the consumer.   *)

\* head.wrapping_sub(tail)
Length(h, t) == (h + Words - t) % Words

PushLoad ==
    /\ buffer = "spsc" /\ ppc = "idle" /\ pushed < MaxFills
    /\ seenTail' = tail /\ ppc' = "check"
    /\ UNCHANGED <<buffer, ring, headAt, tail, pushed, cpc, seenHead, answer, dvars, gvars>>

\* Err(value) when full
PushFull ==
    /\ ppc = "check" /\ Length(headAt, seenTail) >= N
    /\ ppc' = "idle"
    /\ UNCHANGED <<buffer, ring, headAt, tail, seenTail, pushed, cpc, seenHead, answer, dvars, gvars>>

\* Slip: one value too many is let in.
PushWriteOver ==
    /\ ppc = "check" /\ Length(headAt, seenTail) <= N
    /\ ring' = [ring EXCEPT ![headAt % N] = pushed + 1] /\ ppc' = "publish"
    /\ UNCHANGED <<buffer, headAt, tail, seenTail, pushed, cpc, seenHead, answer, dvars, gvars>>

PushWrite ==
    /\ ppc = "check" /\ Length(headAt, seenTail) < N
    /\ ring' = [ring EXCEPT ![headAt % N] = pushed + 1] /\ ppc' = "publish"
    /\ UNCHANGED <<buffer, headAt, tail, seenTail, pushed, cpc, seenHead, answer, dvars, gvars>>

PushPublish ==
    /\ ppc = "publish"
    /\ headAt' = (headAt + 1) % Words /\ pushed' = pushed + 1 /\ ppc' = "idle"
    /\ UNCHANGED <<buffer, ring, tail, seenTail, cpc, seenHead, answer, dvars, gvars>>

\* None when head and tail are equal
PopLoad ==
    /\ buffer = "spsc" /\ cpc = "idle"
    /\ seenHead' = headAt
    /\ IF headAt = tail THEN answer' = Empty /\ UNCHANGED cpc
                      ELSE cpc' = "take" /\ UNCHANGED answer
    /\ UNCHANGED <<buffer, ring, headAt, tail, ppc, seenTail, pushed, dvars, gvars>>

\* The value is moved out, then the slot is given back.
PopTake ==
    /\ cpc = "take"
    /\ answer' = ring[tail % N] /\ tail' = (tail + 1) % Words /\ cpc' = "idle"
    /\ ring' = [ring EXCEPT ![tail % N] = Empty]
    /\ UNCHANGED <<buffer, headAt, ppc, seenTail, pushed, seenHead, dvars, gvars>>

\* Drop: the values still queued, from tail up to head.
Unread == [i \in 1 .. Length(headAt, tail) |-> ring[((tail + i - 1) % Words) % N]]

-----------------------------------------------------------------------------
(* DoubleBuffer.  Frame synchronisation is the caller's: no reference is   *)
(* held across a publish.                                                  *)

DoubleRead ==
    /\ buffer = "double" /\ held = NotHeld
    /\ held' = front
    /\ UNCHANGED <<buffer, qvars, slots, front, bpcw, gvars>>

DoubleDrop ==
    /\ held # NotHeld /\ held' = NotHeld
    /\ UNCHANGED <<buffer, qvars, slots, front, bpcw, gvars>>

\* Slip: the front slot is filled.
BackMutFront ==
    /\ buffer = "double" /\ bpcw = "idle" /\ writes < MaxFills
    /\ slots' = [slots EXCEPT ![front] = writes + 1] /\ writes' = writes + 1
    /\ bpcw' = "filled"
    /\ UNCHANGED <<buffer, qvars, front, held, cells, writePos>>

BackMut ==
    /\ buffer = "double" /\ bpcw = "idle" /\ writes < MaxFills
    /\ slots' = [slots EXCEPT ![1 - front] = writes + 1] /\ writes' = writes + 1
    /\ bpcw' = "filled"
    /\ UNCHANGED <<buffer, qvars, front, held, cells, writePos>>

DoublePublish ==
    /\ bpcw = "filled" /\ held = NotHeld
    /\ front' = 1 - front /\ bpcw' = "idle"
    /\ UNCHANGED <<buffer, qvars, slots, held, gvars>>

-----------------------------------------------------------------------------
(* Ring: write and append differ only in the block's back pointer. *)

RingWrite ==
    /\ buffer = "ring" /\ writes < MaxFills
    /\ writes' = writes + 1
    /\ cells' = [cells EXCEPT ![writePos] = [value |-> writes + 1, epoch |-> (writes + 1) % EpochRange]]
    /\ writePos' = (writePos + 1) % N
    /\ UNCHANGED <<buffer, qvars, dvars>>

\* The cell before write_pos.
RingRead == cells[IF writePos = 0 THEN N - 1 ELSE writePos - 1].value

\* The highest epoch that is at most target; 0 for Empty.
ReadAtEpoch(target) ==
    LET ok == {i \in 0 .. N - 1 : cells[i].epoch > 0 /\ cells[i].epoch <= target}
    IN  IF ok = {} THEN 0
        ELSE cells[CHOOSE i \in ok : \A j \in ok : cells[j].epoch <= cells[i].epoch].value

\* ReadResult.missed: writes between the caller's last epoch and this one.
Missed(last, epoch) == IF last = 0 \/ epoch <= last THEN 0 ELSE epoch - last - 1

BNext ==
    \/ PushLoad \/ PushFull \/ PushWrite \/ PushPublish \/ PopLoad \/ PopTake
    \/ DoubleRead \/ DoubleDrop \/ BackMut \/ DoublePublish
    \/ RingWrite

BSpec == BInit /\ [][BNext]_bvars

-----------------------------------------------------------------------------
Fifo == INSTANCE FifoQueue WITH queue <- Unread, answer <- answer,
                                Values <- 1 .. MaxFills, Empty <- Empty

\* The Lamport ring is a FIFO queue, also when its counters wrap.
SpscIsFifo == Fifo!Spec

\* The buffers hand out what their contracts say: the drop of a queue meets
\* only initialised slots; a reader's slot is not the one being filled, and
\* shows the last publish; a ring answers every retained epoch with its own
\* value, the newest with read, and counts missed writes exactly.
BuffersKeepContract ==
    /\ \A i \in DOMAIN Unread : Unread[i] # Empty
    /\ held # NotHeld => slots[held] = IF bpcw = "filled" THEN writes - 1 ELSE writes
    /\ buffer = "ring" /\ writes < EpochRange =>
         /\ RingRead = writes
         /\ \A t \in 1 .. writes : ReadAtEpoch(t) = IF t + N > writes THEN t ELSE 0
         /\ \A l \in 1 .. writes : Missed(l, cells[(writePos + N - 1) % N].epoch)
                                     = IF l = writes THEN 0 ELSE writes - l - 1
=============================================================================
