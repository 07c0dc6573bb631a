--------------------------- MODULE HotBlockProofs ---------------------------
(***************************************************************************)
(* Proofs about HotBlock for any arena, pool depth, block capacity and any *)
(* number of bytes, generations and crashes: the log is what the writer    *)
(* wrote, and no block is reused while its bytes are still to be committed.*)
(***************************************************************************)
EXTENDS HotBlock, SequenceTheorems, TLAPS

-----------------------------------------------------------------------------
(* Jobs, rows and what the timer may hold *)

\* A sealed block, with the bytes it had when it was sealed.
LogJobs == [kind : {"log"}, ptr : Blocks, gen : 1 .. MaxGen, bytes : Seq(0 .. MaxBytes)]

\* A checkpoint of the timer: a block and how far it was written.
CheckpointJobs == [kind : {"checkpoint"}, gen : 0 .. MaxGen, ptr : Blocks \union {NoBlock},
                   to : 0 .. Capacity]

\* A block of objects.
ObjJobs == [kind : {"obj"}, block : 1 .. MaxObjs]

\* What travels through the flush channel.
Jobs == LogJobs \union CheckpointJobs \union ObjJobs

\* A committed row: a piece of the log, or a block of objects.
Commits == [obj : 0 .. MaxObjs, bytes : Seq(0 .. MaxBytes)]

\* The channel, the worker's hand and the commits, which TypeOK leaves out.
JobTypes ==
    /\ chan \in Seq(Jobs) /\ job \in Jobs \union {NoJob} /\ data \in Seq(0 .. MaxBytes)
    /\ commits \in Seq(Commits) /\ anchor \in Seq(Commits)

\* Place k of the channel holds a sealed block.
IsLog(k) == chan[k].kind = "log"

-----------------------------------------------------------------------------
(* Generations *)

\* The writer has a block that it writes to.
Writing == wpc \in {"ready", "wrote"}

\* The last generation that has been sealed.
Sealed == IF wpc = "take" \/ (wpc = "mint" /\ "ptr" \in todo) THEN reg.gen ELSE reg.gen - 1

\* The generation after it, to which the writer's next byte belongs.
Open == IF wpc = "take" \/ (wpc = "mint" /\ "ptr" \in todo) THEN reg.gen + 1 ELSE reg.gen

\* Bytes of the active block: those the cursor shows, and all of them.
Shown == IF Writing THEN reg.cursor ELSE 0

\* One byte more while its cursor is not published.
Filled == IF wpc = "wrote" THEN reg.cursor + 1 ELSE Shown

\* Where generation g ends, as far as the registers have told, when base[g] is
\* the place in the log where it begins.
Limit(base, g) == IF g <= Sealed THEN base[g + 1] ELSE base[g] + Shown

\* The block of a generation that the worker has still to seal off.
Holds(g, p) == \/ \E k \in 1 .. Len(chan) : IsLog(k) /\ chan[k].gen = g /\ chan[k].ptr = p
               \/ g = Open /\ Writing /\ p = reg.ptr

\* What the timer may know of a generation: a length it has had, and, while
\* the worker is not through with it, its block.
Known(base, last, g, p, to) ==
    /\ g <= Open
    /\ to > 0 => /\ g >= 1 /\ base[g] + to <= Limit(base, g)
                 /\ g > last => Holds(g, p)

-----------------------------------------------------------------------------
(* The inductive invariant, given where each generation begins and the last *)
(* generation whose sealed block the worker has taken from the channel.     *)

\* The registers agree with the writer's position.
WriterPhases ==
    /\ wpc = "mint" <=> todo # {}
    /\ wpc = "mint" => fresh \in Blocks /\ ("ptr" \in todo => reg.gen < MaxGen)
    /\ wpc = "mint" /\ "ptr" \notin todo => reg.ptr = fresh /\ reg.gen >= 1
    /\ wpc = "mint" /\ "cursor" \notin todo => reg.cursor = 0
    /\ Writing => reg.ptr \in Blocks /\ reg.gen >= 1
    /\ wpc = "wrote" => reg.cursor < Capacity
    /\ active.gen <= reg.gen
    /\ ~pooled => snap = << >> /\ pool = << >>
                  /\ \A k \in 1 .. Len(chan) : chan[k].kind # "checkpoint"

\* The generations the worker has not taken are in the channel, in order.
LogsQueued(last) ==
    /\ last <= Sealed
    /\ \A k \in 1 .. Len(chan) : IsLog(k) => last < chan[k].gen /\ chan[k].gen <= Sealed
    /\ \A k, m \in 1 .. Len(chan) : k < m /\ IsLog(k) /\ IsLog(m) => chan[k].gen < chan[m].gen
    /\ \A g \in 1 .. MaxGen : last < g /\ g <= Sealed =>
            \E k \in 1 .. Len(chan) : IsLog(k) /\ chan[k].gen = g

\* A sealed block carries the bytes of its generation, and the active block
\* holds the ones written since.
BytesPlaced(base) ==
    /\ \A k \in 1 .. Len(chan) : IsLog(k) =>
            /\ Len(chan[k].bytes) > 0 /\ Len(chan[k].bytes) <= Capacity
            /\ base[chan[k].gen + 1] = base[chan[k].gen] + Len(chan[k].bytes)
            /\ \A o \in 1 .. Len(chan[k].bytes) : chan[k].bytes[o] = base[chan[k].gen] + o
    /\ written = base[Open] + Filled
    /\ Writing => \A o \in 1 .. Filled : mem[reg.ptr][o] = base[Open] + o

\* In pooled mode a block still holds its bytes while its seal is in the channel.
BlocksKept(base) ==
    pooled => \A k \in 1 .. Len(chan) : IsLog(k) =>
        \A o \in 1 .. Len(chan[k].bytes) : mem[chan[k].ptr][o] = base[chan[k].gen] + o

\* Whatever the timer has read, holds or has sent is known, and no sealed block
\* of an earlier generation is behind a checkpoint in the channel.
CheckpointsKnown(base, last) ==
    /\ Known(base, last, active.gen, active.ptr, active.cursor)
    /\ snap # << >> => Known(base, last, snap[1].gen, snap[1].ptr, snap[1].cursor)
    /\ \A k \in 1 .. Len(chan) : chan[k].kind = "checkpoint" =>
            /\ Known(base, last, chan[k].gen, chan[k].ptr, chan[k].to)
            /\ \A m \in 1 .. Len(chan) : k < m /\ IsLog(m) => chan[k].gen <= chan[m].gen

\* The watermark is that of the last generation taken, complete, or of the one
\* that follows it.
WatermarkPlaced(base, last) ==
    pooled => /\ watermark.gen = last \/ watermark.gen = last + 1
              /\ watermark.gen = 0 => watermark.bytes = 0
              /\ watermark.gen = last /\ last > 0 => base[last] + watermark.bytes = base[last + 1]
              /\ watermark.gen = last + 1 =>
                    base[last + 1] + watermark.bytes <= Limit(base, last + 1)

\* Bytes the worker has taken for the log and not appended yet.
InFlight == CASE fpc = "read"   -> job.to - data[1]
              [] fpc = "append" -> Len(data)
              [] OTHER          -> 0

\* The log and what is in flight end where the watermark says.
LedgerPlaced(base, last) ==
    Len(ledger) + InFlight =
        base[last + 1] + (IF pooled /\ watermark.gen = last + 1 THEN watermark.bytes ELSE 0)

\* What the worker's position says of its job and its bytes.
WorkerPhases(base, last) ==
    /\ fpc = "idle" => job = NoJob
    /\ fpc = "read" => /\ pooled /\ job \in CheckpointJobs
                       /\ job.gen = last + 1 /\ watermark = [gen |-> job.gen, bytes |-> job.to]
                       /\ Len(data) = 1 /\ data[1] < job.to
                       /\ base[last + 1] + data[1] = Len(ledger)
                       /\ Holds(job.gen, job.ptr)
    /\ fpc = "append" => /\ job \in LogJobs \union CheckpointJobs
                         /\ \A i \in 1 .. Len(data) : data[i] = Len(ledger) + i
    /\ fpc = "objput" => job \in ObjJobs
    /\ fpc = "anchor" => job # NoJob
    /\ fpc = "return" => pooled /\ job \in LogJobs

\* The parts that speak of the two, together.
LedgerBody(base, last) ==
    /\ LogsQueued(last) /\ BytesPlaced(base) /\ BlocksKept(base)
    /\ CheckpointsKnown(base, last) /\ WatermarkPlaced(base, last)
    /\ LedgerPlaced(base, last) /\ WorkerPhases(base, last)

\* Where generations may begin.
Bases == [1 .. (MaxGen + 1) -> 0 .. MaxBytes]

\* There is a division of the log into generations that fits the whole state.
LedgerInv == \E base \in Bases, last \in 0 .. MaxGen : LedgerBody(base, last)

\* The block the writer has taken out of the pool.
Taken == IF wpc = "mint" THEN {fresh} ELSE IF Writing THEN {reg.ptr} ELSE {}

\* In pooled mode every block has one place: the pool, the writer, the channel
\* or the worker's hand.
BlocksOwned ==
    pooled =>
        /\ Taken \subseteq minted
        /\ \A i \in 1 .. Len(pool) : pool[i] \in minted
        /\ \A k \in 1 .. Len(chan) : IsLog(k) =>
            /\ chan[k].ptr \in minted /\ chan[k].ptr \notin Taken
            /\ \A m \in 1 .. Len(chan) : IsLog(m) /\ chan[m].ptr = chan[k].ptr => m = k
        /\ job.kind = "log" =>
            /\ job.ptr \in minted /\ job.ptr \notin Taken
            /\ \A i \in 1 .. Len(pool) : pool[i] # job.ptr
            /\ \A k \in 1 .. Len(chan) : IsLog(k) => chan[k].ptr # job.ptr

\* The anchor's chain leaves room for the commit in progress, which it is about
\* to record.
AnchorBehind ==
    /\ \E at \in [1 .. Len(anchor) -> 1 .. Len(commits)] :
        /\ \A i \in 1 .. Len(anchor) : anchor[i] = commits[at[i]]
        /\ \A i, k \in 1 .. Len(anchor) : i < k => at[i] < at[k]
        /\ fpc = "anchor" => \A i \in 1 .. Len(anchor) : at[i] < Len(commits)
    /\ fpc = "anchor" =>
        /\ Len(commits) > 0
        /\ commits[Len(commits)] = IF job.kind = "obj" THEN ObjBlock(job.block) ELSE Row(data)
    /\ Len(commits) <= Len(anchor) + crashes + (IF fpc = "anchor" THEN 1 ELSE 0)

\* The inductive invariant.
HotInv == /\ TypeOK /\ JobTypes /\ WriterPhases
          /\ LedgerInv /\ LedgerExact
          /\ BlocksOwned /\ FreeBlocksAreIdle
          /\ AnchorBehind

-----------------------------------------------------------------------------
(* Sequences *)

\* What Append does, element by element.
LEMMA AppendSeq ==
    ASSUME NEW S, NEW s \in Seq(S), NEW e \in S
    PROVE  /\ Append(s, e) \in Seq(S) /\ Len(Append(s, e)) = Len(s) + 1 /\ Len(s) \in Nat
           /\ \A k \in 1 .. Len(s) : Append(s, e)[k] = s[k] /\ s[k] \in S
           /\ \A k \in 1 .. (Len(s) + 1) : k \in 1 .. Len(s) \/ k = Len(s) + 1
           /\ \A k \in 1 .. Len(s) : k \in 1 .. (Len(s) + 1) /\ k < Len(s) + 1
           /\ Append(s, e)[Len(s) + 1] = e /\ Len(s) + 1 \in 1 .. (Len(s) + 1)
  <1>1. /\ Append(s, e) \in Seq(S) /\ Len(Append(s, e)) = Len(s) + 1 /\ Len(s) \in Nat
        /\ \A k \in 1 .. Len(s) : Append(s, e)[k] = s[k]
        /\ Append(s, e)[Len(s) + 1] = e
    BY AppendProperties, LenProperties
  <1>2. \A k \in 1 .. Len(s) : s[k] \in S
    BY ElementOfSeq
  <1>. QED BY <1>1, <1>2

\* What Tail does, element by element.
LEMMA TailSeq ==
    ASSUME NEW S, NEW s \in Seq(S), s # << >>
    PROVE  /\ Tail(s) \in Seq(S) /\ Len(Tail(s)) = Len(s) - 1 /\ Len(s) \in Nat
           /\ 1 \in 1 .. Len(s) /\ Head(s) = s[1] /\ Head(s) \in S
           /\ \A k \in 1 .. Len(Tail(s)) : Tail(s)[k] = s[k + 1] /\ k + 1 \in 1 .. Len(s)
           /\ \A k \in 1 .. Len(s) : k # 1 =>
                k - 1 \in 1 .. Len(Tail(s)) /\ Tail(s)[k - 1] = s[k] /\ 1 < k
  <1>1. /\ Tail(s) \in Seq(S) /\ Len(Tail(s)) = Len(s) - 1 /\ Len(s) \in Nat \ {0}
        /\ Head(s) = s[1] /\ Head(s) \in S
        /\ \A k \in 1 .. Len(Tail(s)) : Tail(s)[k] = s[k + 1]
    BY HeadTailProperties, LenProperties, EmptySeq
  <1>2. \A k \in 1 .. Len(Tail(s)) : k + 1 \in 1 .. Len(s)
    BY <1>1
  <1>3. 1 \in 1 .. Len(s)
    BY <1>1
  <1>4. ASSUME NEW k \in 1 .. Len(s), k # 1
        PROVE  k - 1 \in 1 .. Len(Tail(s)) /\ Tail(s)[k - 1] = s[k] /\ 1 < k
    BY <1>1, <1>4
  <1>. QED BY <1>1, <1>2, <1>3, <1>4

\* A piece of a block, or of the bytes of a job.
LEMMA PieceOfSeq ==
    ASSUME NEW S, NEW s \in Seq(S), NEW from \in Nat, NEW to \in Nat, from <= to, to <= Len(s),
           NEW lo, lo = from + 1
    PROVE  /\ SubSeq(s, lo, to) \in Seq(S)
           /\ Len(SubSeq(s, lo, to)) = to - from
           /\ \A i \in 1 .. (to - from) : SubSeq(s, lo, to)[i] = s[from + i]
  <1>1. Len(s) \in Nat
    BY LenProperties
  <1>2. \A i \in lo .. to : s[i] \in S
    BY <1>1, ElementOfSeq
  <1>3. /\ SubSeq(s, lo, to) \in Seq(S)
        /\ Len(SubSeq(s, lo, to)) = IF lo <= to THEN to - lo + 1 ELSE 0
        /\ \A i \in 1 .. (to - lo + 1) : SubSeq(s, lo, to)[i] = s[lo + i - 1]
    BY <1>2, SubSeqProperties
  <1>4. to - lo + 1 = to - from /\ (lo <= to \/ to - from = 0)
    BY <1>1
  <1>5. \A i \in 1 .. (to - from) : lo + i - 1 = from + i
    BY <1>1
  <1>. QED BY <1>3, <1>4, <1>5

\* What is left of bytes that are consecutive is consecutive.
LEMMA RestOfBytes ==
    ASSUME NEW S, NEW s \in Seq(S), NEW b \in Nat, \A o \in 1 .. Len(s) : s[o] = b + o,
           NEW from \in Nat, from <= Len(s), NEW lo, lo = from + 1
    PROVE  /\ SubSeq(s, lo, Len(s)) \in Seq(S) /\ Len(SubSeq(s, lo, Len(s))) = Len(s) - from
           /\ \A i \in 1 .. Len(SubSeq(s, lo, Len(s))) : SubSeq(s, lo, Len(s))[i] = b + from + i
  <1>0. Len(s) \in Nat
    BY LenProperties
  <1>1. /\ SubSeq(s, lo, Len(s)) \in Seq(S) /\ Len(SubSeq(s, lo, Len(s))) = Len(s) - from
        /\ \A i \in 1 .. (Len(s) - from) : SubSeq(s, lo, Len(s))[i] = s[from + i]
    <2>1. PICK to \in Nat : to = Len(s)
      BY <1>0
    <2>2. /\ SubSeq(s, lo, to) \in Seq(S) /\ Len(SubSeq(s, lo, to)) = to - from
          /\ \A i \in 1 .. (to - from) : SubSeq(s, lo, to)[i] = s[from + i]
      <3>1. from <= to /\ to <= Len(s)
        BY <2>1
      <3>. QED BY <3>1, PieceOfSeq, SMTT(30)
    <2>. QED BY <2>1, <2>2
  <1>2. \A i \in 1 .. (Len(s) - from) : from + i \in 1 .. Len(s) /\ b + (from + i) = b + from + i
    BY <1>0
  <1>3. \A i \in 1 .. Len(SubSeq(s, lo, Len(s))) : SubSeq(s, lo, Len(s))[i] = b + from + i
    BY <1>1, <1>2
  <1>. QED BY <1>1, <1>3

\* A piece of bytes that are consecutive is consecutive.
LEMMA PieceOfBytes ==
    ASSUME NEW S, NEW s \in Seq(S), NEW from \in Nat, NEW to \in Nat, from <= to, to <= Len(s),
           NEW lo, lo = from + 1, NEW b \in Nat, \A o \in 1 .. to : s[o] = b + o
    PROVE  /\ SubSeq(s, lo, to) \in Seq(S) /\ Len(SubSeq(s, lo, to)) = to - from
           /\ \A i \in 1 .. (to - from) : SubSeq(s, lo, to)[i] = b + from + i
  <1>1. /\ SubSeq(s, lo, to) \in Seq(S) /\ Len(SubSeq(s, lo, to)) = to - from
        /\ \A i \in 1 .. (to - from) : SubSeq(s, lo, to)[i] = s[from + i]
    BY PieceOfSeq
  <1>2. \A i \in 1 .. (to - from) : from + i \in 1 .. to /\ b + (from + i) = b + from + i
    OBVIOUS
  <1>. QED BY <1>1, <1>2

\* The memory of a block, as a sequence.
LEMMA MemIsSeq ==
    ASSUME TypeOK, NEW b \in Blocks
    PROVE  mem[b] \in Seq(0 .. MaxBytes) /\ Len(mem[b]) = Capacity
           /\ \A o \in 1 .. Capacity : mem[b][o] \in 0 .. MaxBytes
  <1>1. mem[b] \in [1 .. Capacity -> 0 .. MaxBytes] /\ Capacity \in Nat
    BY HotBlockAssumption DEF TypeOK
  <1>2. mem[b] \in Seq(0 .. MaxBytes)
    BY <1>1, SeqDef
  <1>3. DOMAIN mem[b] = 1 .. Len(mem[b]) /\ Len(mem[b]) \in Nat
    BY <1>2, LenProperties
  <1>4. Len(mem[b]) = Capacity
    BY <1>1, <1>3
  <1>. QED BY <1>1, <1>2, <1>4

-----------------------------------------------------------------------------
(* What the invariant says, in the form the steps use it *)

\* The parts of the registers, of the watermark and of the constants.
LEMMA Scalars ==
    ASSUME HotInv
    PROVE  /\ Capacity \in Nat /\ MaxBytes \in Nat /\ MaxGen \in Nat /\ MaxObjs \in Nat
           /\ MaxCrashes \in Nat /\ Capacity >= 1
           /\ reg.ptr \in Blocks \union {NoBlock} /\ reg.cursor \in 0 .. Capacity
           /\ reg.gen \in 0 .. MaxGen
           /\ active.ptr \in Blocks \union {NoBlock} /\ active.cursor \in 0 .. Capacity
           /\ active.gen \in 0 .. MaxGen
           /\ watermark.gen \in 0 .. MaxGen /\ watermark.bytes \in 0 .. Capacity
           /\ written \in 0 .. MaxBytes /\ Len(ledger) \in Nat
  <1>1. TypeOK
    BY DEF HotInv
  <1>2. Capacity \in Nat /\ MaxBytes \in Nat /\ MaxGen \in Nat /\ MaxObjs \in Nat
        /\ MaxCrashes \in Nat /\ Capacity >= 1
    BY HotBlockAssumption
  <1>3. reg \in Triples /\ active \in Triples
    BY <1>1 DEF TypeOK
  <1>4. /\ reg.ptr \in Blocks \union {NoBlock} /\ reg.cursor \in 0 .. Capacity
        /\ reg.gen \in 0 .. MaxGen
    BY <1>3 DEF Triples
  <1>5. /\ active.ptr \in Blocks \union {NoBlock} /\ active.cursor \in 0 .. Capacity
        /\ active.gen \in 0 .. MaxGen
    BY <1>3 DEF Triples
  <1>6. watermark.gen \in 0 .. MaxGen /\ watermark.bytes \in 0 .. Capacity
    BY <1>1 DEF TypeOK
  <1>7. written \in 0 .. MaxBytes /\ Len(ledger) \in Nat
    BY <1>1, LenProperties DEF TypeOK
  <1>. QED BY <1>2, <1>4, <1>5, <1>6, <1>7

\* The same parts as numbers with their bounds.
LEMMA Numbers ==
    ASSUME HotInv
    PROVE  /\ Capacity \in Nat /\ MaxBytes \in Nat /\ MaxGen \in Nat /\ MaxObjs \in Nat
           /\ reg.cursor \in Nat /\ reg.cursor <= Capacity /\ reg.gen \in Nat /\ reg.gen <= MaxGen
           /\ active.gen \in Nat /\ watermark.gen \in Nat
           /\ watermark.bytes \in Nat /\ watermark.bytes <= Capacity
           /\ written \in Nat /\ written <= MaxBytes /\ Len(ledger) \in Nat
  BY Scalars, SMTT(30)

\* A job of the channel, by its kind.
LEMMA JobKinds ==
    ASSUME NEW j \in Jobs
    PROVE  /\ j.kind = "log" \/ j.kind = "checkpoint" \/ j.kind = "obj"
           /\ j.kind = "log" => /\ j \in LogJobs /\ j.ptr \in Blocks /\ j.gen \in 1 .. MaxGen
                                /\ j.bytes \in Seq(0 .. MaxBytes) /\ Len(j.bytes) \in Nat
           /\ j.kind = "checkpoint" =>
                /\ j \in CheckpointJobs /\ j.gen \in 0 .. MaxGen /\ j.to \in 0 .. Capacity
                /\ j.ptr \in Blocks \union {NoBlock}
           /\ j.kind = "obj" => j \in ObjJobs /\ j.block \in 1 .. MaxObjs
           /\ j # NoJob
  <1>1. CASE j \in LogJobs
    <2>1. j.kind = "log" /\ j.ptr \in Blocks /\ j.gen \in 1 .. MaxGen
          /\ j.bytes \in Seq(0 .. MaxBytes)
      BY <1>1 DEF LogJobs
    <2>2. j # NoJob
      BY <2>1 DEF NoJob
    <2>. QED BY <1>1, <2>1, <2>2, LenProperties
  <1>2. CASE j \in CheckpointJobs
    <2>1. j.kind = "checkpoint" /\ j.gen \in 0 .. MaxGen /\ j.to \in 0 .. Capacity
          /\ j.ptr \in Blocks \union {NoBlock}
      BY <1>2 DEF CheckpointJobs
    <2>2. j # NoJob
      BY <2>1 DEF NoJob
    <2>. QED BY <1>2, <2>1, <2>2
  <1>3. CASE j \in ObjJobs
    <2>1. j.kind = "obj" /\ j.block \in 1 .. MaxObjs
      BY <1>3 DEF ObjJobs
    <2>2. j # NoJob
      BY <2>1 DEF NoJob
    <2>. QED BY <1>3, <2>1, <2>2
  <1>. QED BY <1>1, <1>2, <1>3 DEF Jobs

\* Every element of the channel is a job.
LEMMA ChanJobs ==
    ASSUME HotInv
    PROVE  chan \in Seq(Jobs) /\ Len(chan) \in Nat /\ \A k \in 1 .. Len(chan) : chan[k] \in Jobs
  BY LenProperties, ElementOfSeq DEF HotInv, JobTypes

\* Generations and the bytes of the active block stay within their bounds.
LEMMA WriterFacts ==
    ASSUME HotInv
    PROVE  /\ Sealed \in 0 .. MaxGen /\ Shown \in 0 .. Capacity /\ Filled \in 0 .. Capacity
           /\ Shown <= Filled /\ Filled <= Shown + 1
           /\ active.gen <= Sealed + 1 /\ reg.gen <= Sealed + 1 /\ Sealed <= reg.gen
           /\ Open = Sealed + 1 /\ Open \in 1 .. (MaxGen + 1)
  <1>0. WriterPhases /\ wpc \in {"take", "mint", "ready", "wrote"}
    BY DEF HotInv, TypeOK
  <1>a. reg.gen \in 0 .. MaxGen /\ MaxGen \in Nat
    BY Scalars
  <1>b. wpc = "take" \/ (wpc = "mint" /\ "ptr" \in todo) \/ reg.gen >= 1
    BY <1>0 DEF WriterPhases, Writing
  <1>1. Sealed \in 0 .. MaxGen /\ reg.gen <= Sealed + 1 /\ Sealed <= reg.gen
    BY <1>a, <1>b DEF Sealed
  <1>3. Open = Sealed + 1 /\ Open \in 1 .. (MaxGen + 1)
    BY <1>a, <1>b DEF Sealed, Open
  <1>2. Shown \in 0 .. Capacity /\ Filled \in 0 .. Capacity /\ Shown <= Filled /\ Filled <= Shown + 1
    <2>1. reg.cursor \in Nat /\ reg.cursor <= Capacity /\ Capacity \in Nat
      BY Numbers
    <2>2. wpc = "wrote" => reg.cursor < Capacity
      BY <1>0 DEF WriterPhases
    <2>. QED BY ONLY <2>1, <2>2 DEF Shown, Filled, Writing
  <1>4. active.gen <= Sealed + 1
    <2>1. active.gen <= reg.gen /\ active.gen \in Nat
      BY <1>0, Numbers DEF WriterPhases
    <2>. QED BY ONLY <1>a, <1>1, <2>1
  <1>. QED BY <1>1, <1>2, <1>3, <1>4

\* The writer's block, when it has one, is that of the generation after the
\* last one sealed.
LEMMA ActiveFacts ==
    ASSUME HotInv, wpc \in {"ready", "wrote"}
    PROVE  reg.ptr \in Blocks /\ reg.gen = Sealed + 1 /\ Sealed + 1 <= MaxGen
           /\ Shown = reg.cursor
  BY Scalars DEF HotInv, WriterPhases, Sealed, Writing, Shown

\* Places in the log stay within the bytes written.
LEMMA PlaceFacts ==
    ASSUME HotInv, NEW base \in Bases, NEW last \in 0 .. MaxGen, LedgerBody(base, last)
    PROVE  /\ \A g \in 1 .. (MaxGen + 1) : base[g] \in 0 .. MaxBytes
           /\ last <= Sealed /\ last + 1 \in 1 .. (MaxGen + 1) /\ Sealed + 1 \in 1 .. (MaxGen + 1)
           /\ \A g \in 1 .. (Sealed + 1) : Limit(base, g) \in 0 .. MaxBytes
           /\ pooled => watermark.bytes \in 0 .. MaxBytes
           /\ base[Sealed + 1] + Filled <= MaxBytes
  <1>1. /\ \A g \in 1 .. (MaxGen + 1) : base[g] \in 0 .. MaxBytes
    BY DEF Bases
  <1>a. last <= Sealed
    BY DEF LedgerBody, LogsQueued
  <1>b. MaxGen \in Nat /\ Sealed \in 0 .. MaxGen
    BY Scalars, WriterFacts
  <1>2. last <= Sealed /\ last + 1 \in 1 .. (MaxGen + 1) /\ Sealed + 1 \in 1 .. (MaxGen + 1)
    BY <1>a, <1>b
  <1>3. base[Sealed + 1] + Filled <= MaxBytes
    <2>1. written = base[Open] + Filled
      BY DEF LedgerBody, BytesPlaced
    <2>2. Open = Sealed + 1
      BY WriterFacts
    <2>3. written <= MaxBytes
      BY Numbers
    <2>. QED BY ONLY <2>1, <2>2, <2>3
  <1>4. ASSUME NEW g \in 1 .. (Sealed + 1) PROVE Limit(base, g) \in 0 .. MaxBytes
    <2>1. CASE g <= Sealed
      <3>1. g + 1 \in 1 .. (MaxGen + 1)
        BY ONLY <1>4, <1>b, <2>1
      <3>. QED BY <1>1, <2>1, <3>1 DEF Limit
    <2>2. CASE ~(g <= Sealed)
      <3>1. g = Sealed + 1
        BY <1>b, <2>2
      <3>2. base[g] \in 0 .. MaxBytes /\ base[g] + Filled <= MaxBytes
        BY <1>1, <1>2, <1>3, <3>1
      <3>3. Limit(base, g) = base[g] + Shown
        BY <2>2 DEF Limit
      <3>4. Shown \in Nat /\ Filled \in Nat /\ Shown <= Filled /\ MaxBytes \in Nat
        BY WriterFacts, Scalars
      <3>. QED BY <3>2, <3>3, <3>4
    <2>. QED BY <2>1, <2>2
  <1>5. ASSUME pooled PROVE watermark.bytes \in 0 .. MaxBytes
    <2>1. CASE watermark.gen = last /\ last > 0
      <3>1. base[last] \in 0 .. MaxBytes /\ base[last + 1] \in 0 .. MaxBytes
        BY <1>1, <1>2, <2>1, Scalars
      <3>2. base[last] + watermark.bytes = base[last + 1]
        BY <1>5, <2>1 DEF LedgerBody, WatermarkPlaced
      <3>3. watermark.bytes \in Nat /\ MaxBytes \in Nat
        BY Numbers
      <3>. QED BY ONLY <3>1, <3>2, <3>3
    <2>2. CASE watermark.gen = last + 1
      <3>1. base[last + 1] + watermark.bytes <= Limit(base, last + 1)
        BY <1>5, <2>2 DEF LedgerBody, WatermarkPlaced
      <3>2. last + 1 \in 1 .. (Sealed + 1)
        BY <1>2, Scalars, WriterFacts
      <3>3. base[last + 1] \in 0 .. MaxBytes /\ Limit(base, last + 1) \in 0 .. MaxBytes
        BY <1>1, <1>2, <1>4, <3>2
      <3>4. watermark.bytes \in Nat /\ MaxBytes \in Nat
        BY Numbers
      <3>. QED BY ONLY <3>1, <3>3, <3>4
    <2>3. CASE watermark.gen = 0
      BY <1>5, <2>3, Scalars DEF LedgerBody, WatermarkPlaced
    <2>. QED BY <1>5, <2>1, <2>2, <2>3, Scalars DEF LedgerBody, WatermarkPlaced
  <1>. QED BY <1>1, <1>2, <1>3, <1>4, <1>5

\* The active generation has a place in the log.
LEMMA OpenPlace ==
    ASSUME HotInv, NEW base \in Bases, NEW last \in 0 .. MaxGen, LedgerBody(base, last)
    PROVE  /\ base[Open] \in 0 .. MaxBytes /\ base[Open] \in Nat
           /\ base[last + 1] \in 0 .. MaxBytes /\ base[last + 1] \in Nat
           /\ last \in Nat /\ last <= Sealed /\ last + 1 \in 1 .. Open
           /\ Sealed \in Nat /\ Open \in Nat /\ MaxGen \in Nat /\ MaxBytes \in Nat
  <1>1. MaxGen \in Nat /\ MaxBytes \in Nat
    BY Scalars
  <1>2. Open \in 1 .. (MaxGen + 1) /\ Open = Sealed + 1 /\ Sealed \in 0 .. MaxGen
    BY WriterFacts
  <1>3. \A g \in 1 .. (MaxGen + 1) : base[g] \in 0 .. MaxBytes
    BY PlaceFacts
  <1>4. last <= Sealed
    BY PlaceFacts
  <1>. QED BY ONLY <1>1, <1>2, <1>3, <1>4, last \in 0 .. MaxGen

\* advance_watermark: where to commit from, or nothing to commit.
LEMMA AdvanceFacts ==
    ASSUME HotInv, NEW base \in Bases, NEW last \in 0 .. MaxGen, LedgerBody(base, last),
           pooled, NEW g \in 0 .. MaxGen, NEW to \in Nat, NEW from,
           from = IF g = watermark.gen THEN watermark.bytes ELSE 0
    PROVE  /\ from \in 0 .. MaxBytes
           /\ AdvanceFrom(g, to) = IF g < watermark.gen \/ to <= from THEN Stale ELSE from
           /\ g < watermark.gen \/ to <= from =>
                AdvanceMark(g, to) = IF g > watermark.gen THEN [gen |-> g, bytes |-> 0]
                                     ELSE watermark
           /\ ~(g < watermark.gen \/ to <= from) =>
                from # Stale /\ AdvanceMark(g, to) = [gen |-> g, bytes |-> to]
  <1>1. from \in 0 .. MaxBytes
    BY PlaceFacts, Scalars
  <1>2. AdvanceFrom(g, to) = IF g < watermark.gen \/ to <= from THEN Stale ELSE from
    BY DEF AdvanceFrom
  <1>3. from # Stale
    <2>1. MaxBytes \in Nat
      BY Numbers
    <2>. QED BY ONLY <1>1, <2>1 DEF Stale
  <1>4. CASE g < watermark.gen \/ to <= from
    BY <1>1, <1>2, <1>4 DEF AdvanceMark
  <1>5. CASE ~(g < watermark.gen \/ to <= from)
    <2>1. AdvanceFrom(g, to) = from
      BY <1>2, <1>5
    <2>2. AdvanceMark(g, to) = [gen |-> g, bytes |-> to]
      BY <1>3, <2>1 DEF AdvanceMark
    <2>. QED BY <1>1, <1>2, <1>3, <1>5, <2>2
  <1>. QED BY <1>4, <1>5

\* The log never has more bytes than were written.
LEMMA LedgerBound ==
    ASSUME HotInv
    PROVE  Len(ledger) <= MaxBytes
  <1>1. PICK base \in Bases, last \in 0 .. MaxGen : LedgerBody(base, last)
    BY DEF HotInv, LedgerInv
  <1>2. InFlight \in Nat
    <2>1. data \in Seq(0 .. MaxBytes) /\ Len(data) \in Nat
      BY LenProperties DEF HotInv, JobTypes
    <2>2. ASSUME fpc = "read" PROVE job.to - data[1] \in Nat
      <3>1. job \in CheckpointJobs /\ Len(data) = 1 /\ data[1] < job.to
        BY <1>1, <2>2 DEF LedgerBody, WorkerPhases
      <3>2. data[1] \in 0 .. MaxBytes /\ job.to \in 0 .. Capacity
        <4>1. 1 \in 1 .. Len(data)
          BY <3>1
        <4>2. data[1] \in 0 .. MaxBytes
          BY <2>1, <4>1, ElementOfSeq
        <4>3. job.to \in 0 .. Capacity
          BY <3>1 DEF CheckpointJobs
        <4>. QED BY <4>2, <4>3
      <3>3. MaxBytes \in Nat /\ Capacity \in Nat
        BY Numbers
      <3>. QED BY ONLY <2>2, <3>1, <3>2, <3>3 DEF InFlight
    <2>. QED BY <2>1, <2>2 DEF InFlight
  <1>3. Len(ledger) <= base[last + 1]
                         + (IF pooled /\ watermark.gen = last + 1 THEN watermark.bytes ELSE 0)
    <2>1. base[last + 1] \in Nat
      <3>1. \A g \in 1 .. (MaxGen + 1) : base[g] \in 0 .. MaxBytes
        BY <1>1, PlaceFacts
      <3>2. last + 1 \in 1 .. (MaxGen + 1)
        BY <1>1, PlaceFacts
      <3>. QED BY <3>1, <3>2
    <2>. QED BY <1>1, <1>2, <2>1, Scalars DEF LedgerBody, LedgerPlaced
  <1>4. last + 1 \in 1 .. (Sealed + 1) /\ base[last + 1] \in 0 .. MaxBytes
        /\ Limit(base, last + 1) \in 0 .. MaxBytes
    <2>1. /\ \A g \in 1 .. (MaxGen + 1) : base[g] \in 0 .. MaxBytes
          /\ last <= Sealed /\ last + 1 \in 1 .. (MaxGen + 1)
          /\ \A g \in 1 .. (Sealed + 1) : Limit(base, g) \in 0 .. MaxBytes
      BY <1>1, PlaceFacts
    <2>2. Sealed \in Nat
      BY WriterFacts, Scalars
    <2>. QED BY <2>1, <2>2
  <1>5. CASE pooled /\ watermark.gen = last + 1
    <2>1. base[last + 1] + watermark.bytes <= Limit(base, last + 1)
      BY <1>1, <1>5 DEF LedgerBody, WatermarkPlaced
    <2>2. watermark.bytes \in Nat /\ MaxBytes \in Nat /\ Len(ledger) \in Nat
      BY Numbers
    <2>. QED BY ONLY <1>3, <1>4, <1>5, <2>1, <2>2
  <1>6. CASE ~(pooled /\ watermark.gen = last + 1)
    <2>1. MaxBytes \in Nat /\ Len(ledger) \in Nat
      BY Numbers
    <2>. QED BY ONLY <1>3, <1>4, <1>6, <2>1
  <1>. QED BY <1>5, <1>6

-----------------------------------------------------------------------------
(* Types *)

\* TypeOK and the types of what is on its way to the log.
Types == TypeOK /\ JobTypes

\* The writer's steps on its registers and the arena.
LEMMA TypesWriter ==
    ASSUME HotInv, Mint \/ PoolTake \/ WriteByte \/ CommitCursor
    PROVE  Types'
  <1>0. Types /\ WriterPhases
    BY DEF HotInv, Types
  <1>1. UNCHANGED <<tvars, chan, fvars, dvars, crashes, minted, pooled>>
    BY DEF Mint, PoolTake, WriteByte, CommitCursor, pvars
  <1>2. reg \in Triples /\ active \in Triples /\ NoBlock \in Blocks \union {NoBlock}
    BY <1>0 DEF Types, TypeOK
  <1>3. /\ mem' \in [Blocks -> [1 .. Capacity -> 0 .. MaxBytes]] /\ written' \in 0 .. MaxBytes
        /\ reg' \in Triples /\ active' \in Triples
        /\ wpc' \in {"take", "mint", "ready", "wrote"} /\ fresh' \in Blocks \union {NoBlock}
        /\ todo' \in SUBSET {"ptr", "cursor"} /\ pool' \in Seq(Blocks)
    <2>1. CASE Mint
      <3>1. reg.gen \in 0 .. MaxGen /\ fresh \in Blocks
        BY <1>0, <2>1, Scalars DEF WriterPhases, Mint
      <3>2. CASE "ptr" \in todo /\ SetPtr(fresh)
        <4>1. reg.gen + 1 \in 0 .. MaxGen
          BY <1>0, <2>1, <3>2, Numbers DEF WriterPhases, Mint
        <4>2. reg' \in Triples
          BY <1>2, <3>1, <3>2, <4>1 DEF SetPtr, Triples
        <4>3. active' \in Triples
          BY <3>1, <3>2, <4>1, Scalars DEF SetPtr, Triples
        <4>. QED BY <1>0, <2>1, <4>2, <4>3 DEF Mint, Types, TypeOK, pvars
      <3>3. CASE "cursor" \in todo /\ SetCursor(0)
        <4>1. reg' \in Triples
          BY <1>2, <3>3, Scalars DEF SetCursor, Triples
        <4>2. active' \in Triples
          BY <1>2, <3>3, Scalars DEF SetCursor, Triples
        <4>. QED BY <1>0, <2>1, <4>1, <4>2 DEF Mint, Types, TypeOK, pvars
      <3>. QED BY <2>1, <3>2, <3>3 DEF Mint
    <2>2. CASE PoolTake
      <3>1. fresh' \in Blocks /\ pool' \in Seq(Blocks)
        <4>1. CASE pool # << >> /\ fresh' = Head(pool) /\ pool' = Tail(pool)
          BY <1>0, <4>1, TailSeq DEF Types, TypeOK
        <4>2. CASE fresh' \in Blocks /\ UNCHANGED pool
          BY <1>0, <4>2 DEF Types, TypeOK
        <4>. QED BY <2>2, <4>1, <4>2 DEF PoolTake
      <3>. QED BY <1>0, <2>2, <3>1 DEF PoolTake, Types, TypeOK
    <2>3. CASE WriteByte
      <3>1. reg.ptr \in Blocks /\ reg.cursor + 1 \in 1 .. Capacity /\ written + 1 \in 0 .. MaxBytes
        <4>1. wpc = "ready" /\ reg.cursor < Capacity /\ written < MaxBytes
          BY <2>3 DEF WriteByte
        <4>2. reg.ptr \in Blocks
          BY <4>1, ActiveFacts
        <4>3. reg.cursor \in Nat /\ Capacity \in Nat /\ written \in Nat /\ MaxBytes \in Nat
          BY Numbers
        <4>. QED BY ONLY <4>1, <4>2, <4>3
      <3>2. mem' \in [Blocks -> [1 .. Capacity -> 0 .. MaxBytes]]
        BY <1>0, <2>3, <3>1 DEF WriteByte, Types, TypeOK
      <3>. QED BY <1>0, <2>3, <3>1, <3>2 DEF WriteByte, Types, TypeOK, pvars
    <2>4. CASE CommitCursor
      <3>1. reg.cursor + 1 \in 0 .. Capacity
        BY <1>0, <2>4, Numbers DEF CommitCursor, WriterPhases
      <3>2. reg' \in Triples
        BY <1>2, <2>4, <3>1 DEF CommitCursor, SetCursor, Triples
      <3>3. active' \in Triples
        BY <1>2, <2>4, <3>1, Scalars DEF CommitCursor, SetCursor, Triples
      <3>. QED BY <1>0, <2>4, <3>2, <3>3 DEF CommitCursor, Types, TypeOK, pvars
    <2>. QED BY <2>1, <2>2, <2>3, <2>4
  <1>4. TypeOK'
    BY <1>0, <1>1, <1>3 DEF Types, TypeOK, tvars, fvars, dvars
  <1>5. JobTypes'
    BY <1>0, <1>1 DEF Types, JobTypes, fvars, dvars
  <1>. QED BY <1>4, <1>5 DEF Types

\* What a seal puts into the channel.
LEMMA SealJob ==
    ASSUME HotInv, Seal
    PROVE  \E j \in LogJobs :
              /\ chan' = Append(chan, j) /\ j.kind = "log"
              /\ j.ptr = reg.ptr /\ j.gen = reg.gen /\ Len(j.bytes) = reg.cursor
              /\ \A o \in 1 .. reg.cursor : j.bytes[o] = mem[reg.ptr][o]
  <1>1. reg.cursor \in Nat /\ reg.cursor > 0 /\ reg.cursor <= Capacity /\ reg.ptr \in Blocks
        /\ reg.gen \in 1 .. MaxGen /\ wpc = "ready"
    BY Scalars DEF Seal, HotInv, WriterPhases, Writing
  <1>2. DEFINE b == SubSeq(mem[reg.ptr], 1, reg.cursor)
  <1>5. b \in Seq(0 .. MaxBytes) /\ Len(b) = reg.cursor
        /\ \A o \in 1 .. reg.cursor : b[o] = mem[reg.ptr][o]
    <2>1. \A o \in 1 .. Capacity : mem[reg.ptr][o] \in 0 .. MaxBytes
      BY <1>1, MemIsSeq DEF HotInv
    <2>2. \A o \in 1 .. reg.cursor : mem[reg.ptr][o] \in 0 .. MaxBytes
      BY <1>1, <2>1, Scalars
    <2>3. /\ b \in Seq(0 .. MaxBytes)
          /\ Len(b) = IF 1 <= reg.cursor THEN reg.cursor - 1 + 1 ELSE 0
          /\ \A i \in 1 .. (reg.cursor - 1 + 1) : b[i] = mem[reg.ptr][1 + i - 1]
      BY <1>1, <2>2, SubSeqProperties
    <2>4. reg.cursor - 1 + 1 = reg.cursor /\ \A i \in 1 .. reg.cursor : 1 + i - 1 = i
      BY <1>1
    <2>. QED BY <1>1, <2>3, <2>4
  <1>. HIDE DEF b
  <1>6. DEFINE j == [kind |-> "log", ptr |-> reg.ptr, gen |-> reg.gen, bytes |-> b]
  <1>7. j \in LogJobs
    BY <1>1, <1>5 DEF LogJobs
  <1>8. chan' = Append(chan, j)
    BY DEF Seal, b
  <1>. QED BY <1>5, <1>7, <1>8

\* Steps that send a job: the seal, the timer and the object producer.
LEMMA TypesSend ==
    ASSUME HotInv, Seal \/ TimerSend \/ ObjSend \/ TimerRead \/ PoolPut
    PROVE  Types'
  <1>0. Types /\ chan \in Seq(Jobs)
    BY ChanJobs DEF HotInv, Types
  <1>1. CASE Seal
    <2>1. chan' \in Seq(Jobs)
      BY <1>0, <1>1, SealJob, AppendSeq DEF Jobs
    <2>. QED BY <1>0, <1>1, <2>1
             DEF Seal, Types, TypeOK, JobTypes, tvars, pvars, fvars, dvars
  <1>2. CASE TimerSend
    <2>1. snap[1] \in Triples
      BY <1>0, <1>2 DEF TimerSend, Types, TypeOK
    <2>2. [kind |-> "checkpoint", gen |-> snap[1].gen, ptr |-> snap[1].ptr,
           to |-> snap[1].cursor] \in Jobs
      BY <2>1 DEF Triples, Jobs, CheckpointJobs
    <2>3. chan' \in Seq(Jobs)
      BY <1>0, <1>2, <2>2, AppendSeq DEF TimerSend
    <2>. QED BY <1>0, <1>2, <2>3
             DEF TimerSend, Types, TypeOK, JobTypes, wvars, pvars, fvars, dvars
  <1>3. CASE ObjSend
    <2>1. objs + 1 \in 0 .. MaxObjs /\ objs + 1 \in 1 .. MaxObjs
      BY <1>0, <1>3, Scalars DEF ObjSend, Types, TypeOK
    <2>2. [kind |-> "obj", block |-> objs + 1] \in Jobs
      BY <2>1 DEF Jobs, ObjJobs
    <2>3. chan' \in Seq(Jobs)
      BY <1>0, <1>3, <2>2, AppendSeq DEF ObjSend
    <2>. QED BY <1>0, <1>3, <2>1, <2>3
             DEF ObjSend, Types, TypeOK, JobTypes, wvars, pvars, fvars, dvars
  <1>4. CASE TimerRead
    <2>1. snap' \in {<< >>} \union {<<t>> : t \in Triples}
      BY <1>0, <1>4 DEF TimerRead, Types, TypeOK
    <2>. QED BY <1>0, <1>4, <2>1
             DEF TimerRead, Types, TypeOK, JobTypes, wvars, pvars, fvars, dvars
  <1>5. CASE PoolPut
    <2>1. PICK b \in Blocks \ minted : pool' = Append(pool, b) /\ minted' = minted \union {b}
      BY <1>5 DEF PoolPut
    <2>2. pool' \in Seq(Blocks) /\ minted' \in SUBSET Blocks
      BY <1>0, <2>1, AppendSeq DEF Types, TypeOK
    <2>. QED BY <1>0, <1>5, <2>2
             DEF PoolPut, Types, TypeOK, JobTypes, wvars, tvars, fvars, dvars
  <1>. QED BY <1>1, <1>2, <1>3, <1>4, <1>5

-----------------------------------------------------------------------------
(* What the flush worker makes of the job at the head of the channel *)

\* commit_job on a sealed block: it is the next generation, and what is left of
\* it begins where the watermark, and so the log, ends.
LEMMA StartLogFacts ==
    ASSUME HotInv, NEW base \in Bases, NEW last \in 0 .. MaxGen, LedgerBody(base, last),
           StartJob, Head(chan).kind = "log", NEW j, j = Head(chan)
    PROVE  /\ j \in LogJobs /\ j.gen = last + 1 /\ last < Sealed
           /\ Len(j.bytes) \in 1 .. Capacity /\ base[last + 2] = base[last + 1] + Len(j.bytes)
           /\ \E from \in 0 .. Len(j.bytes) :
                /\ from = IF pooled /\ watermark.gen = last + 1 THEN watermark.bytes ELSE 0
                /\ data' \in Seq(0 .. MaxBytes) /\ Len(data') = Len(j.bytes) - from
                /\ \A i \in 1 .. Len(data') : data'[i] = base[last + 1] + from + i
                /\ fpc' = IF from < Len(j.bytes) THEN "append" ELSE "return"
                /\ from < Len(j.bytes) \/ pooled
           /\ job' = j
           /\ pooled => watermark' = [gen |-> last + 1, bytes |-> Len(j.bytes)]
           /\ ~pooled => watermark' = watermark
  <1>1. chan # << >> /\ chan \in Seq(Jobs)
    BY ChanJobs DEF StartJob
  <1>2. /\ 1 \in 1 .. Len(chan) /\ Head(chan) = chan[1] /\ j \in Jobs /\ IsLog(1) /\ j = chan[1]
        /\ \A k \in 1 .. Len(chan) : k # 1 => 1 < k
    BY <1>1, TailSeq DEF IsLog
  <1>3. j \in LogJobs /\ j.gen \in 1 .. MaxGen /\ j.bytes \in Seq(0 .. MaxBytes)
        /\ Len(j.bytes) \in Nat /\ j # NoJob
    BY <1>2, JobKinds
  <1>4. j.gen = last + 1 /\ last < Sealed
    <2>1. last < j.gen /\ j.gen <= Sealed
      BY <1>2 DEF LedgerBody, LogsQueued
    <2>a. Sealed \in 0 .. MaxGen /\ MaxGen \in Nat
      BY Scalars, WriterFacts
    <2>2. last + 1 \in 1 .. MaxGen /\ last < last + 1 /\ last + 1 <= Sealed
      BY <1>3, <2>1, <2>a
    <2>3. PICK k \in 1 .. Len(chan) : IsLog(k) /\ chan[k].gen = last + 1
      BY <2>2 DEF LedgerBody, LogsQueued
    <2>4. k = 1 \/ chan[1].gen < chan[k].gen
      BY <1>2, <2>3 DEF LedgerBody, LogsQueued
    <2>5. last < j.gen /\ j.gen <= last + 1 /\ j.gen \in Nat
      BY <1>2, <1>3, <2>1, <2>3, <2>4, <2>a
    <2>. QED BY <2>2, <2>5, <2>a
  <1>5. /\ Len(j.bytes) > 0 /\ Len(j.bytes) <= Capacity
        /\ base[j.gen + 1] = base[j.gen] + Len(j.bytes)
        /\ \A o \in 1 .. Len(j.bytes) : j.bytes[o] = base[j.gen] + o
    BY <1>2 DEF LedgerBody, BytesPlaced
  <1>6. base[last + 2] = base[last + 1] + Len(j.bytes) /\ Len(j.bytes) \in 1 .. Capacity
    <2>1. j.gen + 1 = last + 2
      BY <1>4, Scalars
    <2>2. base[last + 2] = base[last + 1] + Len(j.bytes)
      BY <1>4, <1>5, <2>1
    <2>3. Capacity \in Nat
      BY Numbers
    <2>. QED BY ONLY <1>3, <1>5, <2>2, <2>3
  <1>7. base[last + 1] \in 0 .. MaxBytes /\ Sealed \in Nat
    BY PlaceFacts, WriterFacts, Scalars
  <1>8. ASSUME NEW from \in Nat, from <= Len(j.bytes), NEW lo, lo = from + 1,
               data' = SubSeq(j.bytes, lo, Len(j.bytes))
        PROVE  /\ data' \in Seq(0 .. MaxBytes) /\ Len(data') = Len(j.bytes) - from
               /\ \A i \in 1 .. Len(data') : data'[i] = base[last + 1] + from + i
               /\ data' = << >> <=> from = Len(j.bytes)
    <2>1. \A o \in 1 .. Len(j.bytes) : j.bytes[o] = base[last + 1] + o
      BY <1>4, <1>5
    <2>2. base[last + 1] \in Nat
      BY <1>7
    <2>3. PICK s, b, S : s = j.bytes /\ b = base[last + 1] /\ S = 0 .. MaxBytes
      OBVIOUS
    <2>4. s \in Seq(S) /\ b \in Nat /\ \A o \in 1 .. Len(s) : s[o] = b + o
      BY <1>3, <2>1, <2>2, <2>3
    <2>5. from \in Nat /\ from <= Len(s) /\ lo = from + 1
      BY <1>8, <2>3
    <2>6. /\ SubSeq(s, lo, Len(s)) \in Seq(S) /\ Len(SubSeq(s, lo, Len(s))) = Len(s) - from
          /\ \A i \in 1 .. Len(SubSeq(s, lo, Len(s))) : SubSeq(s, lo, Len(s))[i] = b + from + i
      BY ONLY <2>4, <2>5, RestOfBytes
    <2>7. data' = SubSeq(s, lo, Len(s))
      BY <1>8, <2>3
    <2>8. data' \in Seq(0 .. MaxBytes) /\ Len(data') = Len(j.bytes) - from
      BY <2>3, <2>6, <2>7
    <2>9. data' = << >> <=> Len(data') = 0
      BY <2>8, EmptySeq
    <2>10. data' = << >> <=> from = Len(j.bytes)
      BY ONLY <1>3, <1>8, <2>8, <2>9
    <2>. QED BY <2>3, <2>6, <2>7, <2>8, <2>10
  <1>9. StartLog
    BY JobKinds, <1>2 DEF StartJob, StartCheckpoint, StartObj
  <1>10. CASE ~pooled
    <2>1. /\ watermark' = watermark
          /\ data' = IF 0 = Stale THEN << >> ELSE SubSeq(j.bytes, 1, Len(j.bytes))
          /\ fpc' = IF data' # << >> THEN "append" ELSE "idle"
      <3>1. 0 + 1 = 1
        OBVIOUS
      <3>. QED BY <1>9, <1>10, <3>1 DEF StartLog
    <2>2. data' = SubSeq(j.bytes, 1, Len(j.bytes))
      BY <2>1, Numbers DEF Stale
    <2>3. /\ data' \in Seq(0 .. MaxBytes) /\ Len(data') = Len(j.bytes) - 0
          /\ \A i \in 1 .. Len(data') : data'[i] = base[last + 1] + 0 + i
          /\ data' = << >> <=> 0 = Len(j.bytes)
      <3>1. 0 <= Len(j.bytes) /\ 1 = 0 + 1
        BY <1>3
      <3>. QED BY <1>8, <2>2, <3>1
    <2>4. fpc' = "append" /\ 0 < Len(j.bytes) /\ 0 \in 0 .. Len(j.bytes)
      BY <1>3, <1>5, <2>1, <2>3
    <2>5. job' = j
      BY <2>4 DEF StartJob
    <2>. QED BY <1>3, <1>4, <1>6, <1>10, <2>1, <2>3, <2>4, <2>5
  <1>11. CASE pooled
    <2>1. /\ watermark' = AdvanceMark(j.gen, Len(j.bytes))
          /\ data' = IF AdvanceFrom(j.gen, Len(j.bytes)) = Stale THEN << >>
                     ELSE SubSeq(j.bytes, AdvanceFrom(j.gen, Len(j.bytes)) + 1, Len(j.bytes))
          /\ fpc' = IF data' # << >> THEN "append" ELSE "return"
      BY <1>9, <1>11 DEF StartLog
    <2>2. job' = j
      BY <2>1 DEF StartJob
    <2>3. watermark.gen = last \/ watermark.gen = last + 1
      BY <1>11 DEF LedgerBody, WatermarkPlaced
    <2>4. PICK from : from = IF j.gen = watermark.gen THEN watermark.bytes ELSE 0
      OBVIOUS
    <2>5. from = IF pooled /\ watermark.gen = last + 1 THEN watermark.bytes ELSE 0
      BY <1>4, <1>11, <2>3, <2>4
    <2>6. /\ from \in 0 .. MaxBytes
          /\ AdvanceFrom(j.gen, Len(j.bytes)) =
                IF j.gen < watermark.gen \/ Len(j.bytes) <= from THEN Stale ELSE from
          /\ j.gen < watermark.gen \/ Len(j.bytes) <= from =>
                AdvanceMark(j.gen, Len(j.bytes)) =
                    IF j.gen > watermark.gen THEN [gen |-> j.gen, bytes |-> 0] ELSE watermark
          /\ ~(j.gen < watermark.gen \/ Len(j.bytes) <= from) =>
                from # Stale /\ AdvanceMark(j.gen, Len(j.bytes)) = [gen |-> j.gen, bytes |-> Len(j.bytes)]
      <3>1. j.gen \in 0 .. MaxGen
        <4>1. MaxGen \in Nat
          BY Numbers
        <4>. QED BY ONLY <1>3, <4>1
      <3>. QED BY <1>3, <1>11, <2>4, <3>1, AdvanceFacts
    <2>7. from <= Len(j.bytes)
      <3>1. CASE watermark.gen = last + 1
        <4>1. base[last + 1] + watermark.bytes <= Limit(base, last + 1)
          BY <1>11, <3>1 DEF LedgerBody, WatermarkPlaced
        <4>2. Limit(base, last + 1) = base[last + 1 + 1]
          BY <1>4, <1>7 DEF Limit
        <4>3. last + 1 + 1 = last + 2
          BY Scalars
        <4>4. base[last + 1] + watermark.bytes <= base[last + 1] + Len(j.bytes)
          BY <1>6, <4>1, <4>2, <4>3
        <4>5. from = watermark.bytes
          BY <1>11, <2>5, <3>1
        <4>6. watermark.bytes \in Nat /\ base[last + 1] \in Nat
          BY <1>7, Scalars
        <4>. QED BY ONLY <1>3, <4>4, <4>5, <4>6
      <3>2. CASE watermark.gen # last + 1
        BY <1>3, <2>5, <3>2
      <3>. QED BY <3>1, <3>2
    <2>8. ~(j.gen < watermark.gen)
      BY <1>4, <2>3, Scalars
    <2>9. CASE from < Len(j.bytes)
      <3>1. /\ AdvanceFrom(j.gen, Len(j.bytes)) = from /\ from # Stale
            /\ watermark' = [gen |-> last + 1, bytes |-> Len(j.bytes)]
        BY <1>3, <1>4, <2>1, <2>6, <2>8, <2>9
      <3>2. data' = SubSeq(j.bytes, from + 1, Len(j.bytes))
        BY <2>1, <3>1
      <3>3. /\ data' \in Seq(0 .. MaxBytes) /\ Len(data') = Len(j.bytes) - from
            /\ \A i \in 1 .. Len(data') : data'[i] = base[last + 1] + from + i
            /\ data' = << >> <=> from = Len(j.bytes)
        <4>1. PICK lo : lo = from + 1
          OBVIOUS
        <4>2. data' = SubSeq(j.bytes, lo, Len(j.bytes)) /\ from \in Nat
          BY <2>6, <3>2, <4>1, Scalars
        <4>. QED BY ONLY <1>8, <2>7, <4>1, <4>2
      <3>4. from \in 0 .. Len(j.bytes) /\ fpc' = "append"
        <4>1. data' # << >>
          BY <2>9, <3>3
        <4>2. fpc' = "append"
          BY <2>1, <4>1
        <4>3. from \in 0 .. MaxBytes /\ MaxBytes \in Nat
          BY <2>6, Numbers
        <4>. QED BY ONLY <1>3, <2>7, <4>2, <4>3
      <3>. QED BY <1>3, <1>4, <1>6, <1>11, <2>2, <2>5, <2>9, <3>1, <3>3, <3>4
    <2>10. CASE from = Len(j.bytes)
      <3>1. watermark.gen = last + 1 /\ watermark.bytes = Len(j.bytes)
        BY <1>5, <2>5, <2>10
      <3>2. watermark' = watermark /\ AdvanceFrom(j.gen, Len(j.bytes)) = Stale
        BY <1>3, <1>4, <2>1, <2>6, <2>10, <3>1
      <3>3. watermark = [gen |-> last + 1, bytes |-> Len(j.bytes)]
        BY <3>1 DEF HotInv, TypeOK
      <3>4. data' = << >> /\ fpc' = "return"
        BY <2>1, <3>2
      <3>5. data' \in Seq(0 .. MaxBytes) /\ Len(data') = 0
        BY <3>4, EmptySeq
      <3>6. Len(data') = Len(j.bytes) - from /\ from \in 0 .. Len(j.bytes)
            /\ \A i \in 1 .. Len(data') : data'[i] = base[last + 1] + from + i
        BY <1>3, <2>10, <3>5
      <3>. QED BY <1>3, <1>4, <1>6, <1>11, <2>2, <2>5, <2>10, <3>2, <3>3, <3>4, <3>5, <3>6
    <2>. QED BY <1>3, <2>6, <2>7, <2>9, <2>10
  <1>. QED BY <1>10, <1>11

\* commit_job on a checkpoint: it is dropped, or it is of the generation after
\* the last one taken and begins where the log ends.
LEMMA StartCheckpointFacts ==
    ASSUME HotInv, NEW base \in Bases, NEW last \in 0 .. MaxGen, LedgerBody(base, last),
           StartJob, Head(chan).kind = "checkpoint", NEW j, j = Head(chan)
    PROVE  /\ pooled /\ j \in CheckpointJobs
           /\ \/ /\ fpc' = "idle" /\ data' = << >> /\ job' = NoJob
                 /\ \/ watermark' = watermark
                    \/ watermark.gen = last /\ watermark' = [gen |-> last + 1, bytes |-> 0]
                                            /\ last + 1 \in 0 .. MaxGen
              \/ \E from \in 0 .. MaxBytes :
                 /\ fpc' = "read" /\ data' = <<from>> /\ job' = j
                 /\ from = IF watermark.gen = last + 1 THEN watermark.bytes ELSE 0
                 /\ j.gen = last + 1 /\ from < j.to
                 /\ watermark' = [gen |-> j.gen, bytes |-> j.to]
                 /\ Holds(j.gen, j.ptr) /\ base[last + 1] + j.to <= Limit(base, last + 1)
  <1>1. chan # << >> /\ chan \in Seq(Jobs)
    BY ChanJobs DEF StartJob
  <1>2. /\ 1 \in 1 .. Len(chan) /\ j \in Jobs /\ j = chan[1] /\ j.kind = "checkpoint"
        /\ \A k \in 1 .. Len(chan) : k # 1 => 1 < k
    BY <1>1, TailSeq
  <1>3. j \in CheckpointJobs /\ j.gen \in 0 .. MaxGen /\ j.to \in 0 .. Capacity /\ j.to \in Nat
        /\ j.gen \in Nat
    BY <1>2, JobKinds, Numbers
  <1>4. pooled
    <2>1. chan[1].kind = "checkpoint"
      BY <1>2
    <2>. QED BY <1>2, <2>1 DEF HotInv, WriterPhases
  <1>5. Known(base, last, j.gen, j.ptr, j.to)
    BY <1>2 DEF LedgerBody, CheckpointsKnown
  <1>6. Sealed \in 0 .. MaxGen /\ MaxGen \in Nat /\ last <= Sealed
    BY PlaceFacts, WriterFacts, Scalars
  <1>7. j.gen <= last + 1
    <2>1. CASE last = Sealed
      BY <1>5, <2>1, WriterFacts DEF Known
    <2>2. CASE last < Sealed
      <3>1. last + 1 \in 1 .. MaxGen /\ last < last + 1 /\ last + 1 <= Sealed
        BY <1>6, <2>2
      <3>2. PICK k \in 1 .. Len(chan) : IsLog(k) /\ chan[k].gen = last + 1
        BY <3>1 DEF LedgerBody, LogsQueued
      <3>3. k # 1
        BY <1>2, <3>2 DEF IsLog
      <3>. QED BY <1>2, <3>2, <3>3 DEF LedgerBody, CheckpointsKnown
    <2>. QED BY <1>6, <2>1, <2>2
  <1>8. StartCheckpoint
    BY <1>2 DEF StartJob, StartLog, StartObj
  <1>9. /\ watermark' = AdvanceMark(j.gen, j.to)
        /\ data' = IF AdvanceFrom(j.gen, j.to) = Stale THEN << >> ELSE <<AdvanceFrom(j.gen, j.to)>>
        /\ fpc' = IF AdvanceFrom(j.gen, j.to) = Stale THEN "idle" ELSE "read"
        /\ job' = IF fpc' = "idle" THEN NoJob ELSE j
    BY <1>8 DEF StartCheckpoint, StartJob
  <1>10. /\ watermark.gen = last \/ watermark.gen = last + 1
         /\ watermark.gen \in Nat /\ watermark.bytes \in Nat
    BY <1>4, Scalars DEF LedgerBody, WatermarkPlaced
  <1>11. PICK from : from = IF j.gen = watermark.gen THEN watermark.bytes ELSE 0
    OBVIOUS
  <1>12. /\ from \in 0 .. MaxBytes
         /\ AdvanceFrom(j.gen, j.to) = IF j.gen < watermark.gen \/ j.to <= from THEN Stale ELSE from
         /\ j.gen < watermark.gen \/ j.to <= from =>
                AdvanceMark(j.gen, j.to) = IF j.gen > watermark.gen THEN [gen |-> j.gen, bytes |-> 0]
                                           ELSE watermark
         /\ ~(j.gen < watermark.gen \/ j.to <= from) =>
                from # Stale /\ AdvanceMark(j.gen, j.to) = [gen |-> j.gen, bytes |-> j.to]
    BY <1>3, <1>4, <1>11, AdvanceFacts
  <1>13. CASE j.gen < watermark.gen \/ j.to <= from
    <2>1. AdvanceFrom(j.gen, j.to) = Stale
      BY <1>12, <1>13
    <2>2. fpc' = "idle" /\ data' = << >> /\ job' = NoJob
      BY <1>9, <2>1
    <2>3. CASE j.gen > watermark.gen
      <3>1. watermark.gen = last /\ j.gen = last + 1
        BY <1>3, <1>6, <1>7, <1>10, <2>3
      <3>2. watermark' = [gen |-> last + 1, bytes |-> 0]
        BY <1>9, <1>12, <1>13, <2>3, <3>1
      <3>. QED BY <1>3, <1>4, <2>2, <3>1, <3>2
    <2>4. CASE ~(j.gen > watermark.gen)
      <3>1. watermark' = watermark
        BY <1>9, <1>12, <1>13, <2>4
      <3>. QED BY <1>3, <1>4, <2>2, <3>1
    <2>. QED BY <2>3, <2>4
  <1>14. CASE ~(j.gen < watermark.gen \/ j.to <= from)
    <2>0. from \in Nat /\ from < j.to /\ j.to > 0 /\ ~(j.gen < watermark.gen)
      <3>1. MaxBytes \in Nat /\ watermark.gen \in Nat
        BY Numbers
      <3>2. from \in 0 .. MaxBytes
        BY <1>12
      <3>. QED BY ONLY <1>3, <1>14, <3>1, <3>2
    <2>1. AdvanceFrom(j.gen, j.to) = from /\ from # Stale
          /\ watermark' = [gen |-> j.gen, bytes |-> j.to]
      BY <1>9, <1>12, <1>14
    <2>2. fpc' = "read" /\ data' = <<from>> /\ job' = j
      BY <1>9, <2>1
    <2>3. j.gen >= 1 /\ base[j.gen] + j.to <= Limit(base, j.gen)
          /\ (j.gen > last => Holds(j.gen, j.ptr))
      BY <1>5, <2>0 DEF Known
    <2>4. j.gen = last + 1
      <3>1. ASSUME j.gen <= last PROVE FALSE
        <4>1. j.gen = last /\ watermark.gen = last /\ last > 0
          BY <1>3, <1>6, <1>10, <2>0, <2>3, <3>1
        <4>2. base[last] + watermark.bytes = base[last + 1] /\ from = watermark.bytes
          BY <1>4, <1>11, <4>1 DEF LedgerBody, WatermarkPlaced
        <4>3. Limit(base, last) = base[last + 1]
          BY <1>6 DEF Limit
        <4>4. base[last] + j.to <= base[last] + from
          BY <2>3, <4>1, <4>2, <4>3
        <4>5. base[last] \in 0 .. MaxBytes
          BY <1>6, <4>1, PlaceFacts
        <4>. QED BY ONLY <1>3, <2>0, <4>4, <4>5
      <3>. QED BY <1>3, <1>6, <1>7, <3>1
    <2>5. from = IF watermark.gen = last + 1 THEN watermark.bytes ELSE 0
      BY <1>11, <2>4
    <2>6. Holds(j.gen, j.ptr) /\ base[last + 1] + j.to <= Limit(base, last + 1)
      BY <1>6, <2>3, <2>4
    <2>. QED BY <1>3, <1>4, <1>12, <2>0, <2>1, <2>2, <2>4, <2>5, <2>6
  <1>. QED BY <1>13, <1>14

\* The worker is at an object block.
LEMMA StartObjFacts ==
    ASSUME HotInv, StartJob, Head(chan).kind = "obj"
    PROVE  /\ Head(chan) \in ObjJobs /\ job' = Head(chan) /\ data' = << >> /\ fpc' = "objput"
           /\ watermark' = watermark
  <1>1. chan # << >> /\ chan \in Seq(Jobs)
    BY ChanJobs DEF StartJob
  <1>2. Head(chan) \in ObjJobs
    BY <1>1, TailSeq, JobKinds
  <1>3. StartObj
    BY DEF StartJob, StartLog, StartCheckpoint
  <1>. QED BY <1>2, <1>3 DEF StartObj, StartJob

\* A job is one of the three kinds.
LEMMA HeadKinds ==
    ASSUME HotInv, StartJob
    PROVE  /\ Head(chan) \in Jobs
           /\ Head(chan).kind = "log" \/ Head(chan).kind = "checkpoint" \/ Head(chan).kind = "obj"
  <1>1. chan # << >> /\ chan \in Seq(Jobs)
    BY ChanJobs DEF StartJob
  <1>. QED BY <1>1, TailSeq, JobKinds

\* mem_read_raw of a checkpoint finds the bytes of its generation, wherever the
\* writer is by then: the block has not been given to another one.
LEMMA ReadFacts ==
    ASSUME HotInv, NEW base \in Bases, NEW last \in 0 .. MaxGen, LedgerBody(base, last),
           ReadCheckpoint
    PROVE  /\ data[1] \in Nat /\ job.to \in Nat
           /\ data' \in Seq(0 .. MaxBytes) /\ Len(data') = job.to - data[1]
           /\ \A i \in 1 .. Len(data') : data'[i] = Len(ledger) + i
  <1>0. fpc = "read" /\ data' = SubSeq(mem[job.ptr], data[1] + 1, job.to)
    BY DEF ReadCheckpoint
  <1>1. /\ pooled /\ job \in CheckpointJobs
        /\ job.gen = last + 1 /\ watermark = [gen |-> job.gen, bytes |-> job.to]
        /\ Len(data) = 1 /\ data[1] < job.to
        /\ base[last + 1] + data[1] = Len(ledger)
        /\ Holds(job.gen, job.ptr)
    BY <1>0 DEF LedgerBody, WorkerPhases
  <1>2. data[1] \in Nat /\ job.to \in Nat /\ job.to <= Capacity
    <2>1. 1 \in 1 .. Len(data)
      BY <1>1
    <2>2. data[1] \in 0 .. MaxBytes
      BY <2>1, ElementOfSeq DEF HotInv, JobTypes
    <2>3. job.to \in 0 .. Capacity
      BY <1>1 DEF CheckpointJobs
    <2>4. MaxBytes \in Nat /\ Capacity \in Nat
      BY Numbers
    <2>. QED BY ONLY <2>2, <2>3, <2>4
  <1>3. /\ base[last + 1] \in Nat /\ Sealed \in 0 .. MaxGen /\ MaxGen \in Nat
        /\ Len(ledger) \in Nat /\ last <= Sealed
    <2>1. base[last + 1] \in Nat
      BY PlaceFacts, Numbers
    <2>2. last <= Sealed
      BY PlaceFacts
    <2>. QED BY <2>1, <2>2, WriterFacts, Scalars
  <1>4. base[last + 1] + job.to <= Limit(base, last + 1)
    BY <1>1 DEF LedgerBody, WatermarkPlaced
  <1>5. job.ptr \in Blocks /\ \A o \in 1 .. job.to : mem[job.ptr][o] = base[last + 1] + o
    <2>1. CASE \E k \in 1 .. Len(chan) : IsLog(k) /\ chan[k].gen = job.gen /\ chan[k].ptr = job.ptr
      <3>1. PICK k \in 1 .. Len(chan) : IsLog(k) /\ chan[k].gen = job.gen /\ chan[k].ptr = job.ptr
        BY <2>1
      <3>2. chan[k] \in Jobs /\ chan[k].kind = "log"
        BY <3>1, ChanJobs DEF IsLog
      <3>3. job.ptr \in Blocks /\ Len(chan[k].bytes) \in Nat
        BY <3>1, <3>2, JobKinds
      <3>4. job.gen <= Sealed
        BY <3>1 DEF LedgerBody, LogsQueued
      <3>5. /\ base[job.gen + 1] = base[job.gen] + Len(chan[k].bytes)
            /\ \A o \in 1 .. Len(chan[k].bytes) : mem[job.ptr][o] = base[job.gen] + o
        BY <1>1, <3>1 DEF LedgerBody, BytesPlaced, BlocksKept
      <3>6. Limit(base, last + 1) = base[last + 1] + Len(chan[k].bytes)
        BY <1>1, <3>4, <3>5 DEF Limit
      <3>7. job.to <= Len(chan[k].bytes)
        BY ONLY <1>2, <1>3, <1>4, <3>3, <3>6
      <3>8. \A o \in 1 .. job.to : o \in 1 .. Len(chan[k].bytes)
        BY <1>2, <3>3, <3>7
      <3>. QED BY <1>1, <3>3, <3>5, <3>8
    <2>2. CASE job.gen = Open /\ Writing /\ job.ptr = reg.ptr
      <3>0. job.gen = Sealed + 1 /\ Open = Sealed + 1
        BY <2>2, WriterFacts
      <3>1. reg.ptr \in Blocks
        BY <2>2, ActiveFacts DEF Writing
      <3>2. \A o \in 1 .. Filled : mem[reg.ptr][o] = base[Sealed + 1] + o
        BY <2>2, <3>0 DEF LedgerBody, BytesPlaced
      <3>3. Limit(base, last + 1) = base[last + 1] + Shown
        BY <1>1, <1>3, <3>0 DEF Limit
      <3>4. job.to <= Filled /\ Filled \in Nat
        <4>1. Shown \in Nat /\ Filled \in Nat /\ Shown <= Filled
          BY WriterFacts, Scalars
        <4>. QED BY ONLY <1>2, <1>3, <1>4, <3>3, <4>1
      <3>5. \A o \in 1 .. job.to : o \in 1 .. Filled
        BY <1>2, <3>4
      <3>. QED BY <1>1, <2>2, <3>0, <3>1, <3>2, <3>5
    <2>. QED BY <1>1, <2>1, <2>2 DEF Holds
  <1>6. ASSUME NEW S, NEW s \in Seq(S), NEW from \in Nat, NEW to \in Nat, NEW lo, NEW b \in Nat,
               s = mem[job.ptr], S = 0 .. MaxBytes, from = data[1], to = job.to,
               lo = data[1] + 1, b = base[last + 1]
        PROVE  /\ data' \in Seq(0 .. MaxBytes) /\ Len(data') = job.to - data[1]
               /\ \A i \in 1 .. (job.to - data[1]) : data'[i] = base[last + 1] + data[1] + i
    <2>1. /\ from <= to /\ lo = from + 1
          /\ \A o \in 1 .. to : s[o] = b + o
      <3>1. from <= to /\ lo = from + 1
        BY <1>1, <1>2, <1>6
      <3>2. \A o \in 1 .. to : s[o] = b + o
        BY <1>5, <1>6
      <3>. QED BY ONLY <3>1, <3>2
    <2>2. to <= Len(s)
      BY <1>2, <1>5, <1>6, MemIsSeq DEF HotInv
    <2>3. /\ SubSeq(s, lo, to) \in Seq(S) /\ Len(SubSeq(s, lo, to)) = to - from
          /\ \A i \in 1 .. (to - from) : SubSeq(s, lo, to)[i] = b + from + i
      BY ONLY s \in Seq(S), from \in Nat, to \in Nat, b \in Nat, <2>1, <2>2, PieceOfBytes
    <2>4. data' = SubSeq(s, lo, to)
      BY <1>0, <1>6
    <2>. QED BY <1>6, <2>3, <2>4
  <1>7. mem[job.ptr] \in Seq(0 .. MaxBytes)
    BY <1>5, MemIsSeq DEF HotInv
  <1>8. /\ data' \in Seq(0 .. MaxBytes) /\ Len(data') = job.to - data[1]
        /\ \A i \in 1 .. (job.to - data[1]) : data'[i] = base[last + 1] + data[1] + i
    <2>1. \E s \in Seq(0 .. MaxBytes) : s = mem[job.ptr]
      BY <1>7
    <2>2. \E from \in Nat, to \in Nat, b \in Nat : from = data[1] /\ to = job.to /\ b = base[last + 1]
      BY <1>2, <1>3
    <2>3. \E S, lo : S = 0 .. MaxBytes /\ lo = data[1] + 1
      OBVIOUS
    <2>. QED BY <1>6, <2>1, <2>2, <2>3
  <1>9. \A i \in 1 .. (job.to - data[1]) : data'[i] = Len(ledger) + i
    BY <1>1, <1>8
  <1>. QED BY <1>2, <1>8, <1>9

\* The worker's steps keep the types.
LEMMA TypesFlush ==
    ASSUME HotInv, Flush
    PROVE  Types'
  <1>0. Types /\ chan \in Seq(Jobs)
    BY ChanJobs DEF HotInv, Types
  <1>b. PICK base \in Bases, last \in 0 .. MaxGen : LedgerBody(base, last)
    BY DEF HotInv, LedgerInv
  <1>1. CASE StartJob
    <2>0. chan # << >> /\ chan' = Tail(chan) /\ UNCHANGED <<wvars, tvars, pvars, dvars, crashes>>
      BY <1>1 DEF StartJob
    <2>1. chan' \in Seq(Jobs)
      BY <1>0, <2>0, TailSeq
    <2>2. << >> \in Seq(0 .. MaxBytes)
      BY EmptySeq
    <2>3. /\ watermark' \in [gen : 0 .. MaxGen, bytes : 0 .. Capacity]
          /\ fpc' \in {"idle", "read", "append", "objput", "anchor", "return"}
          /\ job' \in Jobs \union {NoJob} /\ data' \in Seq(0 .. MaxBytes)
      <3>0. PICK j : j = Head(chan)
        OBVIOUS
      <3>1. CASE j.kind = "log"
        <4>1. /\ j \in LogJobs /\ j.gen = last + 1 /\ job' = j /\ data' \in Seq(0 .. MaxBytes)
              /\ fpc' = "append" \/ fpc' = "return"
              /\ Len(j.bytes) \in 1 .. Capacity
              /\ pooled => watermark' = [gen |-> last + 1, bytes |-> Len(j.bytes)]
              /\ ~pooled => watermark' = watermark
          BY <1>1, <1>b, <3>0, <3>1, StartLogFacts
        <4>2. last + 1 \in 0 .. MaxGen /\ Len(j.bytes) \in 0 .. Capacity
          BY <4>1, Scalars DEF LogJobs
        <4>3. watermark' \in [gen : 0 .. MaxGen, bytes : 0 .. Capacity]
          <5>1. watermark \in [gen : 0 .. MaxGen, bytes : 0 .. Capacity]
            BY <1>0 DEF Types, TypeOK
          <5>. QED BY ONLY <4>1, <4>2, <5>1
        <4>. QED BY <4>1, <4>3 DEF Jobs
      <3>2. CASE j.kind = "checkpoint"
        <4>1. /\ j \in CheckpointJobs
              /\ \/ /\ fpc' = "idle" /\ data' = << >> /\ job' = NoJob
                    /\ \/ watermark' = watermark
                       \/ watermark' = [gen |-> last + 1, bytes |-> 0] /\ last + 1 \in 0 .. MaxGen
                 \/ \E from \in 0 .. MaxBytes :
                    /\ fpc' = "read" /\ data' = <<from>> /\ job' = j
                    /\ watermark' = [gen |-> j.gen, bytes |-> j.to]
          BY <1>1, <1>b, <3>0, <3>2, StartCheckpointFacts
        <4>2. j.gen \in 0 .. MaxGen /\ j.to \in 0 .. Capacity /\ 0 \in 0 .. Capacity /\ j \in Jobs
          BY <4>1, Scalars DEF CheckpointJobs, Jobs
        <4>3. \A from \in 0 .. MaxBytes : <<from>> \in Seq(0 .. MaxBytes)
          OBVIOUS
        <4>4. watermark' \in [gen : 0 .. MaxGen, bytes : 0 .. Capacity]
          <5>1. watermark \in [gen : 0 .. MaxGen, bytes : 0 .. Capacity]
            BY <1>0 DEF Types, TypeOK
          <5>. QED BY ONLY <4>1, <4>2, <5>1
        <4>. QED BY <2>2, <4>1, <4>2, <4>3, <4>4
      <3>3. CASE j.kind = "obj"
        BY <1>0, <1>1, <2>2, <3>0, <3>3, StartObjFacts DEF Types, TypeOK, Jobs
      <3>. QED BY <1>1, <3>0, <3>1, <3>2, <3>3, HeadKinds
    <2>. QED BY <1>0, <2>0, <2>1, <2>3
             DEF Types, TypeOK, JobTypes, wvars, tvars, pvars, dvars
  <1>2. CASE ReadCheckpoint
    <2>1. data' \in Seq(0 .. MaxBytes)
      BY <1>2, <1>b, ReadFacts
    <2>. QED BY <1>0, <1>2, <2>1
             DEF ReadCheckpoint, Types, TypeOK, JobTypes, wvars, tvars, pvars, dvars
  <1>3. CASE LogAppend
    <2>1. ledger' \in Seq(0 .. MaxBytes)
      BY <1>0, <1>3, ConcatProperties DEF LogAppend, Types, TypeOK, JobTypes
    <2>2. Row(data) \in Commits
      BY <1>0, Scalars DEF Row, Commits, Types, JobTypes
    <2>3. commits' \in Seq(Commits)
      BY <1>0, <1>3, <2>2, AppendSeq DEF LogAppend, Types, JobTypes
    <2>. QED BY <1>0, <1>3, <2>1, <2>3
             DEF LogAppend, Types, TypeOK, JobTypes, wvars, tvars, pvars
  <1>4. CASE ObjBlockPut
    <2>1. job.block \in 1 .. MaxObjs
      BY <1>4, <1>b DEF ObjBlockPut, LedgerBody, WorkerPhases, ObjJobs
    <2>2. ObjBlock(job.block) \in Commits
      BY <2>1, Scalars, EmptySeq DEF ObjBlock, Commits
    <2>3. commits' \in Seq(Commits)
      BY <1>0, <1>4, <2>2, AppendSeq DEF ObjBlockPut, Types, JobTypes
    <2>. QED BY <1>0, <1>4, <2>3
             DEF ObjBlockPut, Types, TypeOK, JobTypes, wvars, tvars, pvars
  <1>5. CASE AdvanceAnchor
    <2>1. job \in Jobs
      BY <1>0, <1>5, <1>b DEF AdvanceAnchor, LedgerBody, WorkerPhases, Types, JobTypes
    <2>2. (IF job.kind = "obj" THEN ObjBlock(job.block) ELSE Row(data)) \in Commits
      <3>1. CASE job.kind = "obj"
        <4>1. job.block \in 1 .. MaxObjs
          BY <2>1, <3>1, JobKinds
        <4>2. ObjBlock(job.block) \in Commits
          BY <4>1, Scalars, EmptySeq DEF ObjBlock, Commits
        <4>. QED BY <3>1, <4>2
      <3>2. CASE job.kind # "obj"
        <4>1. Row(data) \in Commits
          BY <1>0, Scalars DEF Row, Commits, Types, JobTypes
        <4>. QED BY <3>2, <4>1
      <3>. QED BY <3>1, <3>2
    <2>3. anchor' \in Seq(Commits)
      BY <1>0, <1>5, <2>2, AppendSeq DEF AdvanceAnchor, Types, JobTypes
    <2>4. data' \in Seq(0 .. MaxBytes)
      BY <1>5, EmptySeq DEF AdvanceAnchor
    <2>5. fpc' \in {"return", "idle"} /\ job' \in Jobs \union {NoJob}
      BY <1>5, <2>1 DEF AdvanceAnchor
    <2>. QED BY <1>0, <1>5, <2>3, <2>4, <2>5
             DEF AdvanceAnchor, Types, TypeOK, JobTypes, wvars, tvars, pvars
  <1>6. CASE PoolReturn
    <2>1. job.ptr \in Blocks
      BY <1>6, <1>b DEF PoolReturn, LedgerBody, WorkerPhases, LogJobs
    <2>2. pool' \in Seq(Blocks)
      BY <1>0, <1>6, <2>1, AppendSeq DEF PoolReturn, Types, TypeOK
    <2>3. data' \in Seq(0 .. MaxBytes)
      BY <1>6, EmptySeq DEF PoolReturn
    <2>. QED BY <1>0, <1>6, <2>2, <2>3
             DEF PoolReturn, Types, TypeOK, JobTypes, wvars, tvars, dvars
  <1>. QED BY <1>1, <1>2, <1>3, <1>4, <1>5, <1>6 DEF Flush

\* A process that starts again has what Init gives it, and a log as long as the
\* one that postgres kept.
LEMMA TypesCrash ==
    ASSUME HotInv, Crash
    PROVE  Types'
  <1>0. Types
    BY DEF HotInv, Types
  <1>1. mem' \in [Blocks -> [1 .. Capacity -> 0 .. MaxBytes]]
    BY Scalars DEF Crash, Blank
  <1>2. reg' \in Triples /\ active' \in Triples
    BY Scalars DEF Crash, NoTriple, Triples
  <1>3. written' \in 0 .. MaxBytes /\ crashes' \in 0 .. MaxCrashes
    BY <1>0, Scalars, LedgerBound DEF Crash, Types, TypeOK
  <1>4. watermark' \in [gen : 0 .. MaxGen, bytes : 0 .. Capacity]
    BY Scalars DEF Crash
  <1>5. pool' \in Seq(Blocks) /\ chan' \in Seq(Jobs) /\ data' \in Seq(0 .. MaxBytes)
    BY EmptySeq DEF Crash
  <1>6. TypeOK'
    BY <1>0, <1>1, <1>2, <1>3, <1>4, <1>5 DEF Crash, Types, TypeOK, dvars
  <1>7. JobTypes'
    BY <1>0, <1>5 DEF Crash, Types, JobTypes, dvars
  <1>. QED BY <1>6, <1>7 DEF Types

\* The steps, in the groups the proofs use.
LEMMA NextSplit ==
    ASSUME [Next]_vars
    PROVE  \/ Mint \/ PoolTake \/ WriteByte \/ CommitCursor
           \/ Seal \/ TimerSend \/ ObjSend \/ TimerRead \/ PoolPut
           \/ StartJob \/ ReadCheckpoint \/ LogAppend \/ ObjBlockPut \/ AdvanceAnchor \/ PoolReturn
           \/ Crash
           \/ UNCHANGED vars
  BY DEF Next, Write, Flush

\* Every step keeps the types.
LEMMA TypesStep ==
    ASSUME HotInv, [Next]_vars
    PROVE  Types'
  <1>1. CASE UNCHANGED vars
    <2>1. TypeOK /\ JobTypes
      BY DEF HotInv
    <2>2. TypeOK'
      BY <1>1, <2>1 DEF TypeOK, vars, wvars, tvars, pvars, fvars, dvars
    <2>3. JobTypes'
      BY <1>1, <2>1 DEF JobTypes, vars, wvars, tvars, pvars, fvars, dvars
    <2>. QED BY <2>2, <2>3 DEF Types
  <1>. QED BY <1>1, NextSplit, TypesWriter, TypesSend, TypesFlush, TypesCrash DEF Flush

-----------------------------------------------------------------------------
(* The writer *)

\* The registers follow the writer's position: hotblk_set on the slots of a new
\* block, in either order, then the writes and cursor updates on it.
LEMMA PhasesStep ==
    ASSUME HotInv, [Next]_vars
    PROVE  WriterPhases'
  <1>0. WriterPhases /\ reg \in Triples /\ todo \in SUBSET {"ptr", "cursor"}
        /\ wpc \in {"take", "mint", "ready", "wrote"}
    BY DEF HotInv, TypeOK
  <1>c. chan \in Seq(Jobs)
    BY ChanJobs
  <1>r. \A p, c, g : /\ [reg EXCEPT !.ptr = p, !.gen = g].ptr = p
                     /\ [reg EXCEPT !.ptr = p, !.gen = g].gen = g
                     /\ [reg EXCEPT !.ptr = p, !.gen = g].cursor = reg.cursor
                     /\ [reg EXCEPT !.cursor = c].cursor = c
                     /\ [reg EXCEPT !.cursor = c].ptr = reg.ptr
                     /\ [reg EXCEPT !.cursor = c].gen = reg.gen
    BY <1>0 DEF Triples
  <1>1. CASE UNCHANGED <<reg, active, wpc, fresh, todo, snap, pooled, pool, chan>>
    BY <1>0, <1>1 DEF WriterPhases, Writing
  <1>2. CASE Mint
    <2>0. UNCHANGED <<snap, pooled, pool, chan>> /\ wpc = "mint" /\ fresh \in Blocks
      BY <1>0, <1>2 DEF Mint, tvars, pvars, WriterPhases
    <2>1. CASE "ptr" \in todo /\ SetPtr(fresh) /\ todo' = todo \ {"ptr"}
      <3>1. reg'.ptr = fresh /\ reg'.gen = reg.gen + 1 /\ reg'.cursor = reg.cursor
            /\ active'.gen = reg.gen + 1
        BY <1>r, <2>1 DEF SetPtr
      <3>2. reg.gen + 1 >= 1 /\ active'.gen <= reg'.gen
        <4>1. reg.gen \in Nat
          BY Numbers
        <4>. QED BY ONLY <3>1, <4>1
      <3>3. "ptr" \notin todo'
        BY <2>1
      <3>. QED BY <1>0, <1>2, <2>0, <2>1, <3>1, <3>2, <3>3 DEF Mint, WriterPhases, Writing
    <2>2. CASE "cursor" \in todo /\ SetCursor(0) /\ todo' = todo \ {"cursor"}
      <3>1. reg'.ptr = reg.ptr /\ reg'.gen = reg.gen /\ reg'.cursor = 0 /\ active'.gen = reg.gen
        BY <1>r, <2>2 DEF SetCursor
      <3>2. active'.gen <= reg'.gen
        BY <3>1, Scalars
      <3>3. "ptr" \in todo' <=> "ptr" \in todo
        BY <2>2
      <3>. QED BY <1>0, <1>2, <2>0, <2>2, <3>1, <3>2, <3>3 DEF Mint, WriterPhases, Writing
    <2>. QED BY <1>2, <2>1, <2>2 DEF Mint
  <1>3. CASE PoolTake
    <2>1. UNCHANGED <<reg, active, snap, pooled, chan>> /\ wpc' = "mint" /\ todo' = {"ptr", "cursor"}
          /\ reg.gen < MaxGen
      BY <1>3 DEF PoolTake, tvars
    <2>2. fresh' \in Blocks
      <3>1. pool \in Seq(Blocks)
        BY DEF HotInv, TypeOK
      <3>. QED BY <1>3, <3>1, TailSeq DEF PoolTake
    <2>3. ~pooled => pool' = pool
      BY <1>3 DEF PoolTake
    <2>. QED BY <1>0, <2>1, <2>2, <2>3 DEF WriterPhases, Writing
  <1>4. CASE WriteByte
    BY <1>0, <1>4 DEF WriteByte, WriterPhases, Writing, tvars, pvars
  <1>5. CASE CommitCursor
    <2>1. reg'.ptr = reg.ptr /\ reg'.gen = reg.gen /\ active'.gen = reg.gen
      BY <1>5, <1>r DEF CommitCursor, SetCursor
    <2>2. active'.gen <= reg'.gen
      BY <2>1, Scalars
    <2>. QED BY <1>0, <1>5, <2>1, <2>2 DEF CommitCursor, WriterPhases, Writing, tvars, pvars
  <1>6. ASSUME NEW j \in Jobs, chan' = Append(chan, j), j.kind = "checkpoint" => pooled,
               UNCHANGED <<reg, active, fresh, todo, pooled, pool>>,
               wpc' = wpc \/ (wpc = "ready" /\ wpc' = "take"), snap' = snap \/ snap' = << >>
        PROVE  WriterPhases'
    <2>1. /\ Len(chan') = Len(chan) + 1
          /\ \A k \in 1 .. Len(chan) : chan'[k] = chan[k]
          /\ \A k \in 1 .. (Len(chan) + 1) : k \in 1 .. Len(chan) \/ k = Len(chan) + 1
          /\ chan'[Len(chan) + 1] = j
      BY <1>6, <1>c, AppendSeq
    <2>2. ~pooled => \A k \in 1 .. Len(chan') : chan'[k].kind # "checkpoint"
      BY <1>0, <1>6, <2>1 DEF WriterPhases
    <2>. QED BY <1>0, <1>6, <2>2 DEF WriterPhases, Writing
  <1>7. CASE Seal
    <2>1. PICK j \in LogJobs : chan' = Append(chan, j) /\ j.kind = "log"
      BY <1>7, SealJob
    <2>. QED BY <1>6, <1>7, <2>1 DEF Seal, Jobs, tvars, pvars
  <1>8. CASE TimerSend
    <2>1. snap[1] \in Triples
      BY <1>8 DEF TimerSend, HotInv, TypeOK
    <2>2. [kind |-> "checkpoint", gen |-> snap[1].gen, ptr |-> snap[1].ptr,
           to |-> snap[1].cursor] \in Jobs
      BY <2>1 DEF Triples, Jobs, CheckpointJobs
    <2>3. pooled
      BY <1>0, <1>8 DEF TimerSend, WriterPhases
    <2>. QED BY <1>6, <1>8, <2>2, <2>3 DEF TimerSend, wvars, pvars
  <1>9. CASE ObjSend
    <2>1. objs + 1 \in 1 .. MaxObjs
      BY <1>9, Scalars DEF ObjSend, HotInv, TypeOK
    <2>2. [kind |-> "obj", block |-> objs + 1] \in Jobs
      BY <2>1 DEF Jobs, ObjJobs
    <2>. QED BY <1>6, <1>9, <2>2 DEF ObjSend, wvars, pvars
  <1>10. CASE TimerRead \/ PoolPut \/ PoolReturn
    <2>1. UNCHANGED <<reg, active, wpc, fresh, todo, pooled, chan>>
      BY <1>10 DEF TimerRead, PoolPut, PoolReturn, wvars, pvars
    <2>2. pooled
      <3>1. PICK base \in Bases, last \in 0 .. MaxGen : LedgerBody(base, last)
        BY DEF HotInv, LedgerInv
      <3>. QED BY <1>10, <3>1 DEF TimerRead, PoolPut, PoolReturn, LedgerBody, WorkerPhases
    <2>. QED BY <1>0, <2>1, <2>2 DEF WriterPhases, Writing
  <1>11. CASE StartJob
    <2>1. UNCHANGED <<reg, active, wpc, fresh, todo, snap, pooled, pool>> /\ chan' = Tail(chan)
          /\ chan # << >>
      BY <1>11 DEF StartJob, wvars, tvars, pvars
    <2>2. \A k \in 1 .. Len(Tail(chan)) : Tail(chan)[k] = chan[k + 1] /\ k + 1 \in 1 .. Len(chan)
      BY <1>c, <2>1, TailSeq
    <2>3. ~pooled => \A k \in 1 .. Len(chan') : chan'[k].kind # "checkpoint"
      BY <1>0, <2>1, <2>2 DEF WriterPhases
    <2>. QED BY <1>0, <2>1, <2>3 DEF WriterPhases, Writing
  <1>12. CASE ReadCheckpoint \/ LogAppend \/ ObjBlockPut \/ AdvanceAnchor \/ UNCHANGED vars
    BY <1>1, <1>12 DEF ReadCheckpoint, LogAppend, ObjBlockPut, AdvanceAnchor, vars, wvars, tvars, pvars
  <1>13. CASE Crash
    <2>1. active'.gen <= reg'.gen
      BY <1>13 DEF Crash, NoTriple
    <2>. QED BY <1>13, <2>1, EmptySeq DEF Crash, WriterPhases, Writing
  <1>. QED BY <1>2, <1>3, <1>4, <1>5, <1>7, <1>8, <1>9, <1>10, <1>11, <1>12, <1>13, NextSplit

-----------------------------------------------------------------------------
(* Generations, the channel and the log *)

\* What the timer knows of a generation stays known while the generations keep
\* their places, the active block only grows and no block is let go before the
\* worker has taken its seal.
LEMMA KnownGrow ==
    ASSUME NEW base, NEW last \in Nat, NEW base2, NEW last2 \in Nat, last <= last2,
           Open \in Nat, Open' \in Nat, Open <= Open',
           \A g \in 1 .. Open : /\ base2[g] = base[g] /\ base[g] \in Nat
                                        /\ Limit(base, g) \in Nat /\ Limit(base2, g)' \in Nat
                                        /\ Limit(base, g) <= Limit(base2, g)',
           \A g \in Nat : \A p : last2 < g /\ Holds(g, p) => Holds(g, p)'
    PROVE  \A g \in Nat, to \in Nat : \A p :
              Known(base, last, g, p, to) => Known(base2, last2, g, p, to)'
  <1>1. SUFFICES ASSUME NEW g \in Nat, NEW to \in Nat, NEW p, Known(base, last, g, p, to)
                 PROVE  Known(base2, last2, g, p, to)'
    OBVIOUS
  <1>2. g <= Open /\ g <= Open'
    BY <1>1 DEF Known
  <1>3. ASSUME to > 0
        PROVE  g >= 1 /\ base2[g] + to <= Limit(base2, g)' /\ (g > last2 => Holds(g, p)')
    <2>1. g >= 1 /\ base[g] + to <= Limit(base, g) /\ (g > last => Holds(g, p))
      BY <1>1, <1>3 DEF Known
    <2>2. g \in 1 .. Open
      BY <1>2, <2>1
    <2>3. /\ base2[g] = base[g] /\ base[g] \in Nat
          /\ Limit(base, g) \in Nat /\ Limit(base2, g)' \in Nat
          /\ Limit(base, g) <= Limit(base2, g)'
      BY <2>2
    <2>4. base2[g] + to <= Limit(base2, g)'
      BY ONLY <2>1, <2>3, to \in Nat
    <2>5. g > last2 => Holds(g, p)'
      BY <2>1
    <2>. QED BY <2>1, <2>4, <2>5
  <1>. QED BY <1>2, <1>3 DEF Known

\* So the triples the timer reads, holds and sends stay known.
LEMMA TriplesKnown ==
    ASSUME HotInv, NEW base \in Bases, NEW last \in 0 .. MaxGen, LedgerBody(base, last),
           NEW base2, NEW last2,
           \A g \in Nat, to \in Nat : \A p :
              Known(base, last, g, p, to) => Known(base2, last2, g, p, to)'
    PROVE  /\ active' = active => Known(base2, last2, active.gen, active.ptr, active.cursor)'
           /\ snap # << >> /\ snap' = snap =>
                Known(base2, last2, snap[1].gen, snap[1].ptr, snap[1].cursor)'
           /\ snap' = <<active>> => Known(base2, last2, snap[1].gen, snap[1].ptr, snap[1].cursor)'
           /\ \A k \in 1 .. Len(chan), m \in 1 .. Len(chan') :
                chan[k].kind = "checkpoint" /\ chan'[m] = chan[k] =>
                    Known(base2, last2, chan[m].gen, chan[m].ptr, chan[m].to)'
           /\ \A m \in 1 .. Len(chan') :
                /\ snap # << >> /\ chan'[m].gen = snap[1].gen
                /\ chan'[m].ptr = snap[1].ptr /\ chan'[m].to = snap[1].cursor
                => Known(base2, last2, chan[m].gen, chan[m].ptr, chan[m].to)'
  <1>0. ASSUME NEW g \in Nat, NEW to \in Nat, NEW p, Known(base, last, g, p, to)
        PROVE  Known(base2, last2, g, p, to)'
    BY <1>0
  <1>1. PICK g \in Nat, to \in Nat : g = active.gen /\ to = active.cursor
    BY Scalars
  <1>2. PICK p : p = active.ptr
    OBVIOUS
  <1>3. Known(base2, last2, g, p, to)'
    <2>1. Known(base, last, g, p, to)
      BY <1>1, <1>2 DEF LedgerBody, CheckpointsKnown
    <2>. QED BY <1>0, <2>1
  <1>4. active' = active => Known(base2, last2, active.gen, active.ptr, active.cursor)'
    BY <1>1, <1>2, <1>3 DEF Known
  <1>5. snap' = <<active>> => Known(base2, last2, snap[1].gen, snap[1].ptr, snap[1].cursor)'
    BY <1>1, <1>2, <1>3 DEF Known
  <1>6. ASSUME snap # << >>
        PROVE  /\ snap' = snap => Known(base2, last2, snap[1].gen, snap[1].ptr, snap[1].cursor)'
               /\ \A m \in 1 .. Len(chan') :
                    /\ chan'[m].gen = snap[1].gen
                    /\ chan'[m].ptr = snap[1].ptr /\ chan'[m].to = snap[1].cursor
                    => Known(base2, last2, chan[m].gen, chan[m].ptr, chan[m].to)'
    <2>1. snap[1] \in Triples
      BY <1>6 DEF HotInv, TypeOK
    <2>2. PICK h \in Nat, t \in Nat : h = snap[1].gen /\ t = snap[1].cursor
      <3>1. snap[1].gen \in 0 .. MaxGen /\ snap[1].cursor \in 0 .. Capacity
        BY <2>1 DEF Triples
      <3>2. MaxGen \in Nat /\ Capacity \in Nat
        BY Numbers
      <3>. QED BY ONLY <3>1, <3>2
    <2>3. PICK q : q = snap[1].ptr
      OBVIOUS
    <2>4. Known(base, last, h, q, t)
      BY <1>6, <2>2, <2>3 DEF LedgerBody, CheckpointsKnown
    <2>5. Known(base2, last2, h, q, t)'
      BY <1>0, <2>4
    <2>6. snap' = snap => Known(base2, last2, snap[1].gen, snap[1].ptr, snap[1].cursor)'
      BY <2>2, <2>3, <2>5 DEF Known
    <2>7. ASSUME NEW m \in 1 .. Len(chan'),
                 chan'[m].gen = snap[1].gen, chan'[m].ptr = snap[1].ptr, chan'[m].to = snap[1].cursor
          PROVE  Known(base2, last2, chan[m].gen, chan[m].ptr, chan[m].to)'
      BY <2>2, <2>3, <2>5, <2>7 DEF Known
    <2>. QED BY <2>6, <2>7
  <1>7. ASSUME NEW k \in 1 .. Len(chan), NEW m \in 1 .. Len(chan'), chan[k].kind = "checkpoint",
               chan'[m] = chan[k]
        PROVE  Known(base2, last2, chan[m].gen, chan[m].ptr, chan[m].to)'
    <2>1. chan[k] \in Jobs
      BY ChanJobs
    <2>a. chan[k].gen \in 0 .. MaxGen /\ chan[k].to \in 0 .. Capacity
      BY <1>7, <2>1, JobKinds
    <2>b. chan[k].gen \in Nat /\ chan[k].to \in Nat
      <3>1. MaxGen \in Nat /\ Capacity \in Nat
        BY Numbers
      <3>. QED BY ONLY <2>a, <3>1
    <2>2. PICK h \in Nat, t \in Nat : h = chan[k].gen /\ t = chan[k].to
      BY ONLY <2>b
    <2>3. PICK q : q = chan[k].ptr
      OBVIOUS
    <2>4. Known(base, last, h, q, t)
      BY <1>7, <2>2, <2>3 DEF LedgerBody, CheckpointsKnown
    <2>5. Known(base2, last2, h, q, t)'
      BY <1>0, <2>4
    <2>. QED BY <1>7, <2>2, <2>3, <2>5 DEF Known
  <1>. QED BY <1>4, <1>5, <1>6, <1>7

\* The end of a generation only moves on, while the writer stays in its block.
LEMMA LimitGrows ==
    ASSUME HotInv, NEW base \in Bases, NEW last \in 0 .. MaxGen, LedgerBody(base, last),
           Sealed' = Sealed, Shown' \in Nat, Shown <= Shown', NEW g \in 1 .. Open
    PROVE  /\ base[g] \in Nat /\ Limit(base, g) \in Nat /\ Limit(base, g)' \in Nat
           /\ Limit(base, g) <= Limit(base, g)'
  <1>1. base[g] \in Nat /\ Limit(base, g) \in Nat
    <2>1. g \in 1 .. (MaxGen + 1) /\ g \in 1 .. (Sealed + 1)
      <3>1. Open = Sealed + 1 /\ Open \in 1 .. (MaxGen + 1)
        BY WriterFacts
      <3>2. MaxGen \in Nat
        BY Numbers
      <3>. QED BY <3>1, <3>2
    <2>2. base[g] \in 0 .. MaxBytes /\ Limit(base, g) \in 0 .. MaxBytes
      BY <2>1, PlaceFacts
    <2>3. MaxBytes \in Nat
      BY Scalars
    <2>. QED BY ONLY <2>2, <2>3
  <1>2. Shown \in Nat
    BY WriterFacts, Scalars
  <1>3. CASE g <= Sealed
    <2>1. Limit(base, g)' = Limit(base, g)
      BY <1>3 DEF Limit
    <2>. QED BY <1>1, <2>1
  <1>4. CASE ~(g <= Sealed)
    <2>1. Limit(base, g) = base[g] + Shown /\ Limit(base, g)' = base[g] + Shown'
      BY <1>4 DEF Limit
    <2>. QED BY ONLY <1>1, <1>2, <2>1, Shown' \in Nat, Shown <= Shown'
  <1>. QED BY <1>3, <1>4

\* The steps of the writer that leave the channel alone.
LEMMA LedgerWriter ==
    ASSUME HotInv, NEW base \in Bases, NEW last \in 0 .. MaxGen, LedgerBody(base, last),
           UNCHANGED <<chan, snap, pooled, watermark, ledger, fpc, job, data>>,
           Sealed' = Sealed, Open' = Open, Shown' \in Nat, Shown <= Shown',
           Writing => Writing' /\ reg'.ptr = reg.ptr,
           \/ UNCHANGED active
           \/ active'.gen <= Open /\ active'.cursor = 0
           \/ /\ active'.gen = Open /\ active'.ptr = reg'.ptr /\ active'.cursor = Shown'
              /\ Writing',
           written' = base[Open] + Filled',
           Writing' => \A o \in 1 .. Filled' : mem'[reg'.ptr][o] = base[Open] + o,
           BlocksKept(base)'
    PROVE  LedgerBody(base, last)'
  <1>0. Open \in Nat /\ last \in Nat /\ last <= Sealed /\ Sealed \in Nat /\ Open = Sealed + 1
        /\ MaxGen \in Nat
    <2>1. last <= Sealed
      BY PlaceFacts
    <2>. QED BY <2>1, WriterFacts, Scalars
  <1>a. \A g \in 1 .. Open : /\ base[g] \in Nat /\ Limit(base, g) \in Nat /\ Limit(base, g)' \in Nat
                             /\ Limit(base, g) <= Limit(base, g)'
    BY LimitGrows
  <1>b. \A g : \A p : Holds(g, p) => Holds(g, p)'
    BY DEF Holds, IsLog
  <1>1. \A g \in Nat, to \in Nat : \A p : Known(base, last, g, p, to) => Known(base, last, g, p, to)'
    <2>1. Open' \in Nat /\ Open <= Open'
      BY <1>0
    <2>. QED BY <1>0, <1>a, <1>b, <2>1, KnownGrow
  <1>2. LogsQueued(last)'
    BY DEF LedgerBody, LogsQueued, IsLog
  <1>3. BytesPlaced(base)'
    BY DEF LedgerBody, BytesPlaced, IsLog
  <1>4. CheckpointsKnown(base, last)'
    <2>0. /\ active' = active => Known(base, last, active.gen, active.ptr, active.cursor)'
          /\ snap # << >> /\ snap' = snap =>
                Known(base, last, snap[1].gen, snap[1].ptr, snap[1].cursor)'
          /\ \A k \in 1 .. Len(chan), m \in 1 .. Len(chan') :
                chan[k].kind = "checkpoint" /\ chan'[m] = chan[k] =>
                    Known(base, last, chan[m].gen, chan[m].ptr, chan[m].to)'
      BY <1>1, TriplesKnown
    <2>1. Known(base, last, active.gen, active.ptr, active.cursor)'
      <3>1. CASE UNCHANGED active
        BY <2>0, <3>1
      <3>2. CASE active'.gen <= Open /\ active'.cursor = 0
        BY <3>2 DEF Known
      <3>3. CASE /\ active'.gen = Open /\ active'.ptr = reg'.ptr /\ active'.cursor = Shown'
                 /\ Writing'
        <4>1. Limit(base, active.gen)' = base[active'.gen] + Shown'
          BY <1>0, <3>3 DEF Limit
        <4>2. base[active'.gen] + active'.cursor <= Limit(base, active.gen)'
          <5>1. base[Open] \in Nat
            BY <1>0, <1>a
          <5>2. PICK x \in Nat : x = base[Open] + Shown'
            BY <5>1
          <5>. QED BY <3>3, <4>1, <5>2
        <4>3. Holds(active.gen, active.ptr)'
          BY <3>3 DEF Holds
        <4>4. active'.gen >= 1 /\ active'.gen <= Open'
          BY <1>0, <3>3
        <4>. QED BY <4>2, <4>3, <4>4 DEF Known
      <3>. QED BY <3>1, <3>2, <3>3
    <2>2. (snap # << >> => Known(base, last, snap[1].gen, snap[1].ptr, snap[1].cursor))'
      BY <2>0
    <2>3. ASSUME NEW k \in 1 .. Len(chan'), chan'[k].kind = "checkpoint"
          PROVE  /\ Known(base, last, chan[k].gen, chan[k].ptr, chan[k].to)'
                 /\ (\A m \in 1 .. Len(chan) : k < m /\ IsLog(m) => chan[k].gen <= chan[m].gen)'
      <3>1. Known(base, last, chan[k].gen, chan[k].ptr, chan[k].to)'
        BY <2>0, <2>3
      <3>2. \A m \in 1 .. Len(chan) : k < m /\ IsLog(m) => chan[k].gen <= chan[m].gen
        BY <2>3 DEF LedgerBody, CheckpointsKnown
      <3>. QED BY <3>1, <3>2 DEF IsLog
    <2>. QED BY <2>1, <2>2, <2>3 DEF CheckpointsKnown
  <1>5. WatermarkPlaced(base, last)'
    <2>1. base[last + 1] + watermark.bytes <= Limit(base, last + 1)
            => base[last + 1] + watermark.bytes <= Limit(base, last + 1)'
      <3>1. PICK g \in 1 .. Open : g = last + 1
        BY <1>0
      <3>2. base[g] \in Nat /\ Limit(base, g) \in Nat /\ Limit(base, g)' \in Nat
            /\ Limit(base, g) <= Limit(base, g)'
        BY <1>a
      <3>3. watermark.bytes \in Nat
        BY Scalars
      <3>4. base[g] + watermark.bytes <= Limit(base, g) => base[g] + watermark.bytes <= Limit(base, g)'
        BY ONLY <3>2, <3>3
      <3>. QED BY <3>1, <3>4
    <2>. QED BY <2>1 DEF LedgerBody, WatermarkPlaced
  <1>6. LedgerPlaced(base, last)'
    BY DEF LedgerBody, LedgerPlaced, InFlight
  <1>7. WorkerPhases(base, last)'
    <2>1. Holds(job.gen, job.ptr) => Holds(job.gen, job.ptr)'
      BY DEF Holds, IsLog
    <2>. QED BY <2>1 DEF LedgerBody, WorkerPhases
  <1>. QED BY <1>2, <1>3, <1>4, <1>5, <1>6, <1>7 DEF LedgerBody

\* hotblk_set changes one slot of the registers.
LEMMA RegSlots ==
    ASSUME HotInv
    PROVE  \A p, c, g : /\ [reg EXCEPT !.ptr = p, !.gen = g].ptr = p
                        /\ [reg EXCEPT !.ptr = p, !.gen = g].gen = g
                        /\ [reg EXCEPT !.ptr = p, !.gen = g].cursor = reg.cursor
                        /\ [reg EXCEPT !.cursor = c].cursor = c
                        /\ [reg EXCEPT !.cursor = c].ptr = reg.ptr
                        /\ [reg EXCEPT !.cursor = c].gen = reg.gen
  <1>1. reg \in Triples
    BY DEF HotInv, TypeOK
  <1>. QED BY <1>1 DEF Triples

\* Taking a block and setting its registers opens a generation with no bytes.
LEMMA LedgerMint ==
    ASSUME HotInv, NEW base \in Bases, NEW last \in 0 .. MaxGen, LedgerBody(base, last),
           Mint \/ PoolTake
    PROVE  LedgerBody(base, last)'
  <1>0. WriterPhases /\ reg.gen \in Nat /\ reg.cursor \in Nat /\ active.gen \in Nat
    BY Scalars DEF HotInv
  <1>u. UNCHANGED <<chan, snap, pooled, watermark, ledger, fpc, job, data, mem, written>>
    BY DEF Mint, PoolTake, tvars, pvars, fvars, dvars
  <1>1. BlocksKept(base)'
    BY <1>u DEF LedgerBody, BlocksKept, IsLog
  <1>2. ~Writing /\ Shown = 0 /\ Filled = 0
    BY DEF Mint, PoolTake, Writing, Shown, Filled
  <1>3. /\ Sealed' = Sealed /\ Open' = Open /\ Shown' = 0 /\ Filled' = 0
        /\ UNCHANGED active \/ (active'.gen <= Open /\ active'.cursor = 0)
    <2>1. CASE Mint /\ "ptr" \in todo /\ SetPtr(fresh) /\ todo' = todo \ {"ptr"}
      <3>1. reg'.gen = reg.gen + 1 /\ reg'.cursor = reg.cursor /\ active'.gen = reg.gen + 1
            /\ active'.cursor = 0
        BY <2>1, RegSlots DEF SetPtr
      <3>2. wpc = "mint" /\ (wpc' = IF todo' = {} THEN "ready" ELSE "mint") /\ "ptr" \notin todo'
        BY <2>1 DEF Mint
      <3>3. wpc' = "ready" => "cursor" \notin todo
        BY <2>1, <3>2
      <3>4. wpc' = "ready" => reg'.cursor = 0
        BY <1>0, <3>1, <3>2, <3>3 DEF WriterPhases
      <3>5. Shown' = 0 /\ Filled' = 0
        BY <3>2, <3>4 DEF Shown, Filled, Writing
      <3>6. Open = reg.gen + 1 /\ Open' = reg.gen + 1
        BY <2>1, <3>1, <3>2 DEF Open
      <3>7. Sealed = reg.gen /\ Sealed' = reg.gen
        BY <1>0, <2>1, <3>1, <3>2 DEF Sealed
      <3>8. active'.gen <= Open
        BY <1>0, <3>1, <3>6
      <3>. QED BY <3>1, <3>5, <3>6, <3>7, <3>8
    <2>2. CASE Mint /\ "cursor" \in todo /\ SetCursor(0) /\ todo' = todo \ {"cursor"}
      <3>1. reg'.gen = reg.gen /\ reg'.cursor = 0 /\ active'.gen = reg.gen /\ active'.cursor = 0
        BY <2>2, RegSlots DEF SetCursor
      <3>2. wpc = "mint" /\ (wpc' = IF todo' = {} THEN "ready" ELSE "mint")
            /\ ("ptr" \in todo' <=> "ptr" \in todo)
        BY <2>2 DEF Mint
      <3>3. wpc' = "ready" => "ptr" \notin todo
        BY <3>2
      <3>5. Shown' = 0 /\ Filled' = 0
        BY <3>1, <3>2 DEF Shown, Filled, Writing
      <3>6. Open' = Open /\ active'.gen <= Open
        BY <1>0, <3>1, <3>2, <3>3 DEF Open
      <3>7. Sealed' = Sealed
        BY <1>0, <3>1, <3>2, <3>3 DEF Sealed
      <3>. QED BY <3>1, <3>5, <3>6, <3>7
    <2>3. CASE PoolTake
      <3>1. wpc = "take" /\ wpc' = "mint" /\ "ptr" \in todo' /\ reg' = reg /\ active' = active
        BY <2>3 DEF PoolTake
      <3>. QED BY <3>1 DEF Sealed, Open, Shown, Filled, Writing
    <2>. QED BY <2>1, <2>2, <2>3 DEF Mint
  <1>4. written' = base[Open] + Filled'
    BY <1>2, <1>3, <1>u DEF LedgerBody, BytesPlaced
  <1>5. \A o \in 1 .. Filled' : mem'[reg'.ptr][o] = base[Open] + o
    BY <1>3
  <1>6. Shown' \in Nat /\ Shown <= Shown'
    BY <1>2, <1>3
  <1>. QED BY <1>u, <1>1, <1>2, <1>3, <1>4, <1>5, <1>6, LedgerWriter

\* A byte goes to the active block, which no sealed block still to be flushed is.
LEMMA LedgerWriteByte ==
    ASSUME HotInv, NEW base \in Bases, NEW last \in 0 .. MaxGen, LedgerBody(base, last),
           WriteByte
    PROVE  LedgerBody(base, last)'
  <1>0. /\ wpc = "ready" /\ wpc' = "wrote" /\ reg.cursor < Capacity /\ written' = written + 1
        /\ mem' = [mem EXCEPT ![reg.ptr][reg.cursor + 1] = written + 1]
        /\ UNCHANGED <<chan, snap, pooled, watermark, ledger, fpc, job, data, reg, active>>
    BY DEF WriteByte, tvars, pvars, fvars, dvars
  <1>1. reg.ptr \in Blocks /\ reg.cursor \in Nat /\ reg.cursor + 1 \in 1 .. Capacity
        /\ written \in Nat
    <2>1. reg.ptr \in Blocks
      BY <1>0, ActiveFacts
    <2>2. reg.cursor \in 0 .. Capacity /\ written \in 0 .. MaxBytes /\ Capacity \in Nat
      BY Scalars
    <2>. QED BY ONLY <1>0, <2>1, <2>2
  <1>2. mem \in [Blocks -> [1 .. Capacity -> 0 .. MaxBytes]]
    BY DEF HotInv, TypeOK
  <1>3. /\ mem'[reg.ptr][reg.cursor + 1] = written + 1
        /\ \A o \in 1 .. Capacity : o # reg.cursor + 1 => mem'[reg.ptr][o] = mem[reg.ptr][o]
        /\ \A b \in Blocks : b # reg.ptr => mem'[b] = mem[b]
    BY <1>0, <1>1, <1>2
  <1>4. /\ Writing /\ Writing' /\ Shown = reg.cursor /\ Shown' = reg.cursor
        /\ Filled = reg.cursor /\ Filled' = reg.cursor + 1
    BY <1>0 DEF Writing, Shown, Filled
  <1>5. Sealed' = Sealed /\ Open' = Open
    BY <1>0 DEF Sealed, Open
  <1>6. BlocksKept(base)'
    <2>1. SUFFICES ASSUME pooled, NEW k \in 1 .. Len(chan), IsLog(k),
                          NEW o \in 1 .. Len(chan[k].bytes)
                   PROVE  mem'[chan[k].ptr][o] = base[chan[k].gen] + o
      BY <1>0 DEF BlocksKept, IsLog
    <2>2. chan[k].ptr # reg.ptr
      BY <1>4, <2>1, <1>0 DEF HotInv, BlocksOwned, Taken
    <2>3. chan[k].ptr \in Blocks
      <3>1. chan[k] \in Jobs /\ chan[k].kind = "log"
        BY <2>1, ChanJobs DEF IsLog
      <3>. QED BY <3>1, JobKinds
    <2>4. mem[chan[k].ptr][o] = base[chan[k].gen] + o
      BY <2>1 DEF LedgerBody, BlocksKept
    <2>. QED BY <1>3, <2>2, <2>3, <2>4
  <1>7. written = base[Open] + Filled /\ \A o \in 1 .. Filled : mem[reg.ptr][o] = base[Open] + o
    BY <1>4 DEF LedgerBody, BytesPlaced
  <1>8. base[Open] \in Nat
    BY OpenPlace
  <1>9. written' = base[Open] + Filled'
    BY <1>0, <1>1, <1>4, <1>7, <1>8
  <1>10. ASSUME NEW o \in 1 .. Filled' PROVE mem'[reg'.ptr][o] = base[Open] + o
    <2>1. CASE o = reg.cursor + 1
      BY <1>0, <1>1, <1>3, <1>4, <1>7, <1>8, <2>1
    <2>2. CASE o # reg.cursor + 1
      <3>1. o \in 1 .. Filled /\ o \in 1 .. Capacity
        <4>1. Capacity \in Nat
          BY Numbers
        <4>. QED BY <1>1, <1>4, <2>2, <4>1
      <3>. QED BY <1>0, <1>3, <1>7, <2>2, <3>1
    <2>. QED BY <2>1, <2>2
  <1>11. Shown' \in Nat /\ Shown <= Shown'
    BY <1>1, <1>4
  <1>. QED BY <1>0, <1>4, <1>5, <1>6, <1>9, <1>10, <1>11, LedgerWriter

\* The cursor shows the byte that was written.
LEMMA LedgerCommitCursor ==
    ASSUME HotInv, NEW base \in Bases, NEW last \in 0 .. MaxGen, LedgerBody(base, last),
           CommitCursor
    PROVE  LedgerBody(base, last)'
  <1>0. /\ wpc = "wrote" /\ wpc' = "ready" /\ SetCursor(reg.cursor + 1)
        /\ UNCHANGED <<chan, snap, pooled, watermark, ledger, fpc, job, data, mem, written, todo>>
    BY DEF CommitCursor, tvars, pvars, fvars, dvars
  <1>1. /\ reg'.cursor = reg.cursor + 1 /\ reg'.ptr = reg.ptr /\ reg'.gen = reg.gen
        /\ active'.ptr = reg.ptr /\ active'.cursor = reg.cursor + 1 /\ active'.gen = reg.gen
    BY <1>0, RegSlots DEF SetCursor
  <1>2. reg.cursor \in Nat
    BY Scalars
  <1>3. /\ Writing /\ Writing' /\ Shown = reg.cursor /\ Shown' = reg.cursor + 1
        /\ Filled = reg.cursor + 1 /\ Filled' = reg.cursor + 1
    BY <1>0, <1>1 DEF Writing, Shown, Filled
  <1>4. Sealed' = Sealed /\ Open' = Open /\ active'.gen = Open
    BY <1>0, <1>1 DEF Sealed, Open
  <1>5. BlocksKept(base)'
    BY <1>0 DEF LedgerBody, BlocksKept, IsLog
  <1>6. written' = base[Open] + Filled'
        /\ \A o \in 1 .. Filled' : mem'[reg'.ptr][o] = base[Open] + o
    BY <1>0, <1>1, <1>3 DEF LedgerBody, BytesPlaced
  <1>7. Shown' \in Nat /\ Shown <= Shown' /\ active'.cursor = Shown' /\ active'.ptr = reg'.ptr
    BY <1>1, <1>2, <1>3
  <1>. QED BY <1>0, <1>1, <1>3, <1>4, <1>5, <1>6, <1>7, LedgerWriter

\* A checkpoint or an object block behind the sealed blocks in the channel, and
\* the timer's read, change nothing for them.
LEMMA LedgerSend ==
    ASSUME HotInv, NEW base \in Bases, NEW last \in 0 .. MaxGen, LedgerBody(base, last),
           UNCHANGED <<wvars, fvars, dvars, pooled>>,
           \/ snap' = <<active>> /\ chan' = chan
           \/ /\ snap' = snap \/ snap' = << >>
              /\ \E j \in Jobs : /\ chan' = Append(chan, j)
                                 /\ \/ j.kind = "obj"
                                    \/ /\ j.kind = "checkpoint" /\ snap # << >>
                                       /\ j.gen = snap[1].gen /\ j.ptr = snap[1].ptr
                                       /\ j.to = snap[1].cursor
    PROVE  LedgerBody(base, last)'
  <1>0. UNCHANGED <<mem, reg, active, wpc, fresh, todo, written, watermark, fpc, job, data, ledger>>
    BY DEF wvars, fvars, dvars
  <1>1. UNCHANGED <<Sealed, Open, Shown, Filled, Writing>>
    BY <1>0 DEF Sealed, Open, Shown, Filled, Writing
  <1>2. chan \in Seq(Jobs)
    BY ChanJobs
  <1>3. /\ \A k \in 1 .. Len(chan) : k \in 1 .. Len(chan') /\ chan'[k] = chan[k]
        /\ \A k \in 1 .. Len(chan') : \/ k \in 1 .. Len(chan)
                                      \/ /\ chan'[k].kind # "log"
                                         /\ \A m \in 1 .. Len(chan') : ~(k < m)
                                         /\ chan'[k].kind = "checkpoint" =>
                                                /\ snap # << >> /\ chan'[k].gen = snap[1].gen
                                                /\ chan'[k].ptr = snap[1].ptr
                                                /\ chan'[k].to = snap[1].cursor
    <2>1. CASE chan' = chan
      BY <2>1
    <2>2. ASSUME NEW j \in Jobs, chan' = Append(chan, j),
                 \/ j.kind = "obj"
                 \/ /\ j.kind = "checkpoint" /\ snap # << >>
                    /\ j.gen = snap[1].gen /\ j.ptr = snap[1].ptr
                    /\ j.to = snap[1].cursor
          PROVE  <1>3!2
      <3>1. /\ Len(chan') = Len(chan) + 1 /\ Len(chan) \in Nat
            /\ \A k \in 1 .. (Len(chan) + 1) : k \in 1 .. Len(chan) \/ k = Len(chan) + 1
            /\ chan'[Len(chan) + 1] = j
        BY <1>2, <2>2, AppendSeq
      <3>2. \A m \in 1 .. Len(chan') : ~(Len(chan) + 1 < m)
        BY <3>1
      <3>3. j.kind # "log"
        BY <2>2
      <3>4. SUFFICES ASSUME NEW k \in 1 .. Len(chan'), k \notin 1 .. Len(chan)
                     PROVE  /\ chan'[k].kind # "log"
                            /\ \A m \in 1 .. Len(chan') : ~(k < m)
                            /\ chan'[k].kind = "checkpoint" =>
                                /\ snap # << >> /\ chan'[k].gen = snap[1].gen
                                /\ chan'[k].ptr = snap[1].ptr
                                /\ chan'[k].to = snap[1].cursor
        OBVIOUS
      <3>5. k = Len(chan) + 1 /\ chan'[k] = j
        BY <3>1, <3>4
      <3>. QED BY <2>2, <3>2, <3>3, <3>5
    <2>3. ASSUME NEW j \in Jobs, chan' = Append(chan, j)
          PROVE  <1>3!1
      BY <1>2, <2>3, AppendSeq
    <2>. QED BY <2>1, <2>2, <2>3
  <1>4. /\ \A k \in 1 .. Len(chan) : IsLog(k)' <=> IsLog(k)
        /\ \A k \in 1 .. Len(chan') : IsLog(k)' => k \in 1 .. Len(chan)
    BY <1>3 DEF IsLog
  <1>5. \A g : \A p : Holds(g, p) => Holds(g, p)'
    BY <1>0, <1>1, <1>3, <1>4 DEF Holds
  <1>6. \A g : Limit(base, g)' = Limit(base, g)
    BY <1>1 DEF Limit
  <1>7. \A g \in Nat, to \in Nat : \A p : Known(base, last, g, p, to) => Known(base, last, g, p, to)'
    BY <1>1, <1>5, <1>6 DEF Known
  <1>8. LogsQueued(last)'
    <2>1. LogsQueued(last)
      BY DEF LedgerBody
    <2>2. last <= Sealed'
      BY <1>1, <2>1 DEF LogsQueued
    <2>3. \A k \in 1 .. Len(chan') : IsLog(k)' => last < chan'[k].gen /\ chan'[k].gen <= Sealed'
      BY <1>1, <1>3, <1>4, <2>1 DEF LogsQueued
    <2>4. \A k, m \in 1 .. Len(chan') : k < m /\ IsLog(k)' /\ IsLog(m)' => chan'[k].gen < chan'[m].gen
      BY <1>1, <1>3, <1>4, <2>1 DEF LogsQueued
    <2>5. \A g \in 1 .. MaxGen : last < g /\ g <= Sealed' =>
                \E k \in 1 .. Len(chan') : IsLog(k)' /\ chan'[k].gen = g
      BY <1>1, <1>3, <1>4, <2>1 DEF LogsQueued
    <2>. QED BY <2>2, <2>3, <2>4, <2>5 DEF LogsQueued
  <1>9. BytesPlaced(base)'
    <2>1. BytesPlaced(base)
      BY DEF LedgerBody
    <2>2. \A k \in 1 .. Len(chan') : IsLog(k)' => chan'[k] = chan[k] /\ k \in 1 .. Len(chan) /\ IsLog(k)
      BY <1>3, <1>4
    <2>. QED BY <1>0, <1>1, <2>1, <2>2, SMTT(30) DEF BytesPlaced
  <1>10. BlocksKept(base)'
    <2>1. BlocksKept(base)
      BY DEF LedgerBody
    <2>2. \A k \in 1 .. Len(chan') : IsLog(k)' => chan'[k] = chan[k] /\ k \in 1 .. Len(chan) /\ IsLog(k)
      BY <1>3, <1>4
    <2>. QED BY <1>0, <2>1, <2>2 DEF BlocksKept
  <1>11. CheckpointsKnown(base, last)'
    <2>0. /\ active' = active => Known(base, last, active.gen, active.ptr, active.cursor)'
          /\ snap # << >> /\ snap' = snap =>
                Known(base, last, snap[1].gen, snap[1].ptr, snap[1].cursor)'
          /\ snap' = <<active>> => Known(base, last, snap[1].gen, snap[1].ptr, snap[1].cursor)'
          /\ \A k \in 1 .. Len(chan), m \in 1 .. Len(chan') :
                chan[k].kind = "checkpoint" /\ chan'[m] = chan[k] =>
                    Known(base, last, chan[m].gen, chan[m].ptr, chan[m].to)'
          /\ \A m \in 1 .. Len(chan') :
                /\ snap # << >> /\ chan'[m].gen = snap[1].gen
                /\ chan'[m].ptr = snap[1].ptr /\ chan'[m].to = snap[1].cursor
                => Known(base, last, chan[m].gen, chan[m].ptr, chan[m].to)'
      BY <1>7, TriplesKnown
    <2>2. (snap # << >> => Known(base, last, snap[1].gen, snap[1].ptr, snap[1].cursor))'
      BY <2>0
    <2>3. ASSUME NEW k \in 1 .. Len(chan'), chan'[k].kind = "checkpoint"
          PROVE  /\ Known(base, last, chan[k].gen, chan[k].ptr, chan[k].to)'
                 /\ (\A m \in 1 .. Len(chan) : k < m /\ IsLog(m) => chan[k].gen <= chan[m].gen)'
      <3>1. CASE k \in 1 .. Len(chan)
        <4>1. Known(base, last, chan[k].gen, chan[k].ptr, chan[k].to)'
          BY <1>3, <2>0, <2>3, <3>1
        <4>2. \A m \in 1 .. Len(chan) : k < m /\ IsLog(m) => chan[k].gen <= chan[m].gen
          BY <1>3, <2>3, <3>1 DEF LedgerBody, CheckpointsKnown
        <4>3. \A m \in 1 .. Len(chan') : k < m /\ IsLog(m)' => chan'[k].gen <= chan'[m].gen
          BY <1>3, <1>4, <3>1, <4>2
        <4>. QED BY <4>1, <4>3
      <3>2. CASE k \notin 1 .. Len(chan)
        <4>1. /\ \A m \in 1 .. Len(chan') : ~(k < m)
              /\ snap # << >> /\ chan'[k].gen = snap[1].gen
              /\ chan'[k].ptr = snap[1].ptr /\ chan'[k].to = snap[1].cursor
          BY <1>3, <2>3, <3>2
        <4>. QED BY <2>0, <4>1
      <3>. QED BY <3>1, <3>2
    <2>. QED BY <1>0, <2>0, <2>2, <2>3 DEF CheckpointsKnown
  <1>12. WatermarkPlaced(base, last)'
    BY <1>0, <1>6 DEF LedgerBody, WatermarkPlaced
  <1>13. LedgerPlaced(base, last)'
    BY <1>0 DEF LedgerBody, LedgerPlaced, InFlight
  <1>14. WorkerPhases(base, last)'
    <2>1. Holds(job.gen, job.ptr) => Holds(job.gen, job.ptr)'
      BY <1>0, <1>1, <1>3, <1>4 DEF Holds
    <2>. QED BY <1>0, <2>1 DEF LedgerBody, WorkerPhases
  <1>. QED BY <1>8, <1>9, <1>10, <1>11, <1>12, <1>13, <1>14 DEF LedgerBody

\* The seal ends a generation where the last byte was written: the next one
\* begins there, and its block waits in the channel behind the ones before.
LEMMA LedgerSeal ==
    ASSUME HotInv, NEW base \in Bases, NEW last \in 0 .. MaxGen, LedgerBody(base, last), Seal,
           NEW base2, base2 = [base EXCEPT ![reg.gen + 1] = written]
    PROVE  base2 \in Bases /\ LedgerBody(base2, last)'
  <1>0. /\ wpc = "ready" /\ wpc' = "take" /\ reg.cursor > 0
        /\ UNCHANGED <<mem, reg, active, fresh, todo, written, watermark, fpc, job, data, ledger>>
        /\ UNCHANGED <<snap, pooled>>
    BY DEF Seal, tvars, pvars, fvars, dvars
  <1>1. /\ reg.gen \in 1 .. MaxGen /\ MaxGen \in Nat /\ MaxBytes \in Nat /\ reg.cursor \in Nat
        /\ reg.ptr \in Blocks /\ written \in 0 .. MaxBytes /\ reg.cursor <= Capacity
        /\ Capacity \in Nat /\ last \in Nat
    BY <1>0, Scalars DEF HotInv, WriterPhases, Writing
  <1>2. /\ Sealed = reg.gen - 1 /\ Open = reg.gen /\ Shown = reg.cursor /\ Filled = reg.cursor
        /\ Sealed' = reg.gen /\ Open' = reg.gen + 1 /\ Shown' = 0 /\ Filled' = 0
        /\ Writing /\ ~Writing'
    BY <1>0 DEF Sealed, Open, Shown, Filled, Writing
  <1>3. base2 \in Bases
    BY <1>1 DEF Bases
  <1>4. /\ base2[reg.gen + 1] = written
        /\ \A g \in 1 .. reg.gen : base2[g] = base[g] /\ base[g] \in Nat /\ base[g] \in 0 .. MaxBytes
    <2>1. base \in [1 .. (MaxGen + 1) -> 0 .. MaxBytes] /\ reg.gen + 1 \in 1 .. (MaxGen + 1)
      <3>1. base \in [1 .. (MaxGen + 1) -> 0 .. MaxBytes]
        BY DEF Bases
      <3>2. reg.gen + 1 \in 1 .. (MaxGen + 1)
        BY ONLY <1>1
      <3>. QED BY ONLY <3>1, <3>2
    <2>2. \A g \in 1 .. reg.gen : g \in 1 .. (MaxGen + 1) /\ g # reg.gen + 1
      BY <1>1
    <2>. QED BY <1>1, <2>1, <2>2
  <1>5. written = base[reg.gen] + reg.cursor
        /\ \A o \in 1 .. reg.cursor : mem[reg.ptr][o] = base[reg.gen] + o
    BY <1>2 DEF LedgerBody, BytesPlaced
  <1>6. \A g \in 1 .. Open : Limit(base2, g)' = Limit(base, g) /\ Limit(base, g) \in Nat
    <2>1. SUFFICES ASSUME NEW g \in 1 .. reg.gen
                   PROVE  Limit(base2, g)' = Limit(base, g) /\ Limit(base, g) \in Nat
      BY <1>2
    <2>2. Limit(base2, g)' = base2[g + 1]
      <3>1. g <= reg.gen
        BY <1>1
      <3>. QED BY <1>2, <3>1 DEF Limit
    <2>3. CASE g = reg.gen
      <3>1. ~(g <= Sealed)
        BY <1>1, <1>2, <2>3
      <3>2. Limit(base, g) = base[reg.gen] + reg.cursor
        BY <1>2, <2>3, <3>1 DEF Limit
      <3>. QED BY <1>1, <1>4, <1>5, <2>2, <2>3, <3>2
    <2>4. CASE g # reg.gen
      <3>1. g <= Sealed /\ g + 1 \in 1 .. reg.gen
        BY <1>1, <1>2, <2>4
      <3>2. Limit(base, g) = base[g + 1]
        BY <3>1 DEF Limit
      <3>. QED BY <1>4, <2>2, <3>1, <3>2
    <2>. QED BY <2>3, <2>4
  <1>7. last <= Sealed /\ last + 1 \in 1 .. Open /\ last + 1 \in 1 .. reg.gen
    BY <1>2, OpenPlace
  <1>8. PICK j \in LogJobs :
            /\ chan' = Append(chan, j) /\ j.kind = "log"
            /\ j.ptr = reg.ptr /\ j.gen = reg.gen /\ Len(j.bytes) = reg.cursor
            /\ \A o \in 1 .. reg.cursor : j.bytes[o] = mem[reg.ptr][o]
    BY SealJob
  <1>9. PICK n \in Nat : n = Len(chan)
    BY ChanJobs
  <1>10. /\ Len(chan') = n + 1 /\ chan'[n + 1] = j /\ n + 1 \in 1 .. (n + 1)
         /\ \A k \in 1 .. n : chan'[k] = chan[k] /\ k \in 1 .. (n + 1)
         /\ \A k \in 1 .. (n + 1) : k \in 1 .. n \/ k = n + 1
    <2>1. chan \in Seq(Jobs) /\ j \in Jobs
      BY ChanJobs DEF Jobs
    <2>. QED BY <1>8, <1>9, <2>1, AppendSeq
  <1>11. /\ IsLog(n + 1)' /\ \A k \in 1 .. n : IsLog(k)' <=> IsLog(k)
    BY <1>8, <1>10 DEF IsLog
  <1>12. \A k \in 1 .. n : IsLog(k) =>
            /\ chan[k].gen \in 1 .. MaxGen /\ chan[k].gen <= Sealed /\ last < chan[k].gen
            /\ chan[k].gen \in 1 .. reg.gen /\ chan[k].gen + 1 \in 1 .. reg.gen
    <2>1. SUFFICES ASSUME NEW k \in 1 .. n, IsLog(k)
                   PROVE  /\ chan[k].gen \in 1 .. MaxGen /\ chan[k].gen <= Sealed
                          /\ last < chan[k].gen
                          /\ chan[k].gen \in 1 .. reg.gen /\ chan[k].gen + 1 \in 1 .. reg.gen
      OBVIOUS
    <2>2. chan[k] \in Jobs /\ chan[k].kind = "log"
      BY <1>9, <2>1, ChanJobs DEF IsLog
    <2>3. chan[k].gen \in 1 .. MaxGen
      BY <2>2, JobKinds
    <2>4. last < chan[k].gen /\ chan[k].gen <= Sealed
      BY <1>9, <2>1 DEF LedgerBody, LogsQueued
    <2>. QED BY <1>1, <1>2, <2>3, <2>4
  <1>13. \A g \in Nat : \A p : Holds(g, p) => Holds(g, p)'
    <2>1. SUFFICES ASSUME NEW g \in Nat, NEW p, Holds(g, p) PROVE Holds(g, p)'
      OBVIOUS
    <2>2. CASE \E k \in 1 .. Len(chan) : IsLog(k) /\ chan[k].gen = g /\ chan[k].ptr = p
      BY <1>9, <1>10, <1>11, <2>2 DEF Holds
    <2>3. CASE g = Open /\ Writing /\ p = reg.ptr
      BY <1>2, <1>8, <1>10, <1>11, <2>3 DEF Holds
    <2>. QED BY <2>1, <2>2, <2>3 DEF Holds
  <1>14. \A g \in Nat, to \in Nat : \A p :
            Known(base, last, g, p, to) => Known(base2, last, g, p, to)'
    <2>1. Open \in Nat /\ Open' \in Nat /\ Open <= Open'
      BY <1>1, <1>2
    <2>2. ASSUME NEW g \in 1 .. Open
          PROVE  /\ base2[g] = base[g] /\ base[g] \in Nat
                 /\ Limit(base, g) \in Nat /\ Limit(base2, g)' \in Nat
                 /\ Limit(base, g) <= Limit(base2, g)'
      <3>1. Limit(base2, g)' = Limit(base, g) /\ Limit(base, g) \in Nat
        BY <1>6
      <3>2. base2[g] = base[g] /\ base[g] \in Nat
        BY <1>2, <1>4
      <3>3. Limit(base, g) <= Limit(base, g)
        BY ONLY <3>1
      <3>. QED BY ONLY <3>1, <3>2, <3>3
    <2>3. last <= last
      BY <1>1
    <2>4. \A g \in Nat : \A p : last < g /\ Holds(g, p) => Holds(g, p)'
      BY <1>13
    <2>. QED BY ONLY <1>1, <2>1, <2>2, <2>3, <2>4, KnownGrow
  <1>15. LogsQueued(last)'
    <2>1. LogsQueued(last)
      BY DEF LedgerBody
    <2>2. last <= Sealed'
      BY <1>1, <1>2, <1>7
    <2>3. \A k \in 1 .. Len(chan') : IsLog(k)' => last < chan'[k].gen /\ chan'[k].gen <= Sealed'
      <3>1. last < reg.gen /\ reg.gen <= Sealed'
        BY <1>1, <1>2, <1>7
      <3>2. \A k \in 1 .. n : IsLog(k) => last < chan[k].gen /\ chan[k].gen <= reg.gen
        BY <1>1, <1>2, <1>12
      <3>. QED BY <1>2, <1>8, <1>10, <1>11, <3>1, <3>2
    <2>4. \A k, m \in 1 .. Len(chan') : k < m /\ IsLog(k)' /\ IsLog(m)' => chan'[k].gen < chan'[m].gen
      <3>1. SUFFICES ASSUME NEW k \in 1 .. (n + 1), NEW m \in 1 .. (n + 1), k < m, IsLog(k)', IsLog(m)'
                     PROVE  chan'[k].gen < chan'[m].gen
        BY <1>10
      <3>2. k \in 1 .. n
        BY <1>10, <3>1
      <3>3. CASE m \in 1 .. n
        BY <1>9, <1>10, <1>11, <2>1, <3>1, <3>2, <3>3 DEF LogsQueued
      <3>4. CASE m = n + 1
        <4>1. chan'[k] = chan[k] /\ chan'[m] = j /\ j.gen = reg.gen
          BY <1>8, <1>10, <3>2, <3>4
        <4>2. IsLog(k)
          BY <1>11, <3>1, <3>2
        <4>3. chan[k].gen + 1 \in 1 .. reg.gen /\ chan[k].gen \in 1 .. reg.gen
          BY <1>12, <3>2, <4>2
        <4>4. reg.gen \in Nat
          BY <1>1
        <4>. QED BY ONLY <4>1, <4>3, <4>4
      <3>. QED BY <1>10, <3>3, <3>4
    <2>5. \A g \in 1 .. MaxGen : last < g /\ g <= Sealed' =>
                \E k \in 1 .. Len(chan') : IsLog(k)' /\ chan'[k].gen = g
      <3>1. SUFFICES ASSUME NEW g \in 1 .. MaxGen, last < g, g <= reg.gen
                     PROVE  \E k \in 1 .. (n + 1) : IsLog(k)' /\ chan'[k].gen = g
        BY <1>2, <1>10
      <3>2. CASE g = reg.gen
        BY <1>8, <1>10, <1>11, <3>2
      <3>3. CASE g <= Sealed
        <4>1. PICK k \in 1 .. Len(chan) : IsLog(k) /\ chan[k].gen = g
          BY <2>1, <3>1, <3>3 DEF LogsQueued
        <4>. QED BY <1>9, <1>10, <1>11, <4>1
      <3>. QED BY <1>1, <1>2, <3>1, <3>2, <3>3
    <2>. QED BY <2>2, <2>3, <2>4, <2>5 DEF LogsQueued
  <1>16. BytesPlaced(base2)'
    <2>1. BytesPlaced(base)
      BY DEF LedgerBody
    <2>2. ASSUME NEW k \in 1 .. n, IsLog(k)
          PROVE  /\ Len(chan[k].bytes) > 0 /\ Len(chan[k].bytes) <= Capacity
                 /\ base2[chan[k].gen + 1] = base2[chan[k].gen] + Len(chan[k].bytes)
                 /\ \A o \in 1 .. Len(chan[k].bytes) : chan[k].bytes[o] = base2[chan[k].gen] + o
      <3>1. base2[chan[k].gen + 1] = base[chan[k].gen + 1] /\ base2[chan[k].gen] = base[chan[k].gen]
        BY <1>4, <1>12, <2>2
      <3>. QED BY <1>9, <2>1, <2>2, <3>1 DEF BytesPlaced
    <2>3. /\ Len(j.bytes) > 0 /\ Len(j.bytes) <= Capacity
          /\ base2[j.gen + 1] = base2[j.gen] + Len(j.bytes)
          /\ \A o \in 1 .. Len(j.bytes) : j.bytes[o] = base2[j.gen] + o
      <3>1. base2[reg.gen] = base[reg.gen]
        BY <1>1, <1>4
      <3>. QED BY <1>0, <1>1, <1>4, <1>5, <1>8, <3>1
    <2>4. \A k \in 1 .. Len(chan') : IsLog(k)' =>
            /\ Len(chan'[k].bytes) > 0 /\ Len(chan'[k].bytes) <= Capacity
            /\ base2[chan'[k].gen + 1] = base2[chan'[k].gen] + Len(chan'[k].bytes)
            /\ \A o \in 1 .. Len(chan'[k].bytes) : chan'[k].bytes[o] = base2[chan'[k].gen] + o
      <3>1. SUFFICES ASSUME NEW k \in 1 .. (n + 1), IsLog(k)'
                     PROVE  /\ Len(chan'[k].bytes) > 0 /\ Len(chan'[k].bytes) <= Capacity
                            /\ base2[chan'[k].gen + 1] = base2[chan'[k].gen] + Len(chan'[k].bytes)
                            /\ \A o \in 1 .. Len(chan'[k].bytes) :
                                    chan'[k].bytes[o] = base2[chan'[k].gen] + o
        BY <1>10
      <3>2. CASE k \in 1 .. n
        <4>1. chan'[k] = chan[k] /\ IsLog(k)
          BY <1>10, <1>11, <3>1, <3>2
        <4>. QED BY <2>2, <3>2, <4>1
      <3>3. CASE k = n + 1
        <4>1. chan'[k] = j
          BY <1>10, <3>3
        <4>. QED BY <2>3, <4>1
      <3>. QED BY <1>10, <3>2, <3>3
    <2>5. written' = base2[Open'] + Filled'
      BY <1>0, <1>1, <1>2, <1>4
    <2>. QED BY <1>2, <2>4, <2>5 DEF BytesPlaced
  <1>17. BlocksKept(base2)'
    <2>1. SUFFICES ASSUME pooled, NEW k \in 1 .. (n + 1), IsLog(k)', NEW o \in 1 .. Len(chan'[k].bytes)
                   PROVE  mem[chan'[k].ptr][o] = base2[chan'[k].gen] + o
      BY <1>0, <1>10 DEF BlocksKept
    <2>2. CASE k \in 1 .. n
      <3>1. chan'[k] = chan[k] /\ IsLog(k) /\ base2[chan[k].gen] = base[chan[k].gen]
        BY <1>4, <1>10, <1>11, <1>12, <2>1, <2>2
      <3>. QED BY <1>9, <2>1, <2>2, <3>1 DEF LedgerBody, BlocksKept
    <2>3. CASE k = n + 1
      <3>1. chan'[k] = j /\ base2[j.gen] = base[reg.gen]
        BY <1>1, <1>4, <1>8, <1>10, <2>3
      <3>. QED BY <1>5, <1>8, <2>1, <3>1
    <2>. QED BY <1>10, <2>2, <2>3
  <1>18. CheckpointsKnown(base2, last)'
    <2>0. /\ active' = active => Known(base2, last, active.gen, active.ptr, active.cursor)'
          /\ snap # << >> /\ snap' = snap =>
                Known(base2, last, snap[1].gen, snap[1].ptr, snap[1].cursor)'
          /\ \A k \in 1 .. Len(chan), m \in 1 .. Len(chan') :
                chan[k].kind = "checkpoint" /\ chan'[m] = chan[k] =>
                    Known(base2, last, chan[m].gen, chan[m].ptr, chan[m].to)'
      BY <1>14, TriplesKnown
    <2>2. (snap # << >> => Known(base2, last, snap[1].gen, snap[1].ptr, snap[1].cursor))'
      BY <1>0, <2>0
    <2>3. ASSUME NEW k \in 1 .. Len(chan'), chan'[k].kind = "checkpoint"
          PROVE  /\ Known(base2, last, chan[k].gen, chan[k].ptr, chan[k].to)'
                 /\ (\A m \in 1 .. Len(chan) : k < m /\ IsLog(m) => chan[k].gen <= chan[m].gen)'
      <3>1. k \in 1 .. n /\ chan'[k] = chan[k]
        BY <1>8, <1>10, <2>3
      <3>2. Known(base2, last, chan[k].gen, chan[k].ptr, chan[k].to)'
        BY <1>9, <2>0, <2>3, <3>1
      <3>3. /\ \A m \in 1 .. n : k < m /\ IsLog(m) => chan[k].gen <= chan[m].gen
            /\ chan[k].gen <= reg.gen
        BY <1>2, <1>9, <2>3, <3>1 DEF LedgerBody, CheckpointsKnown, Known
      <3>4. \A m \in 1 .. Len(chan') : k < m /\ IsLog(m)' => chan'[k].gen <= chan'[m].gen
        BY <1>8, <1>10, <1>11, <3>1, <3>3
      <3>. QED BY <3>2, <3>4
    <2>. QED BY <1>0, <2>0, <2>2, <2>3 DEF CheckpointsKnown
  <1>19. base2[last + 1] = base[last + 1] /\ (last > 0 => base2[last] = base[last])
         /\ Limit(base2, last + 1)' = Limit(base, last + 1)
    <2>1. last > 0 => last \in 1 .. reg.gen
      BY <1>1, <1>7
    <2>2. PICK g \in 1 .. Open : g = last + 1
      BY <1>7
    <2>. QED BY <1>4, <1>6, <1>7, <2>1, <2>2
  <1>20. WatermarkPlaced(base2, last)'
    BY <1>0, <1>19 DEF LedgerBody, WatermarkPlaced
  <1>21. LedgerPlaced(base2, last)'
    BY <1>0, <1>19 DEF LedgerBody, LedgerPlaced, InFlight
  <1>22. WorkerPhases(base2, last)'
    <2>1. fpc = "read" => job.gen \in Nat
      BY <1>1 DEF LedgerBody, WorkerPhases
    <2>2. ASSUME fpc = "read" PROVE Holds(job.gen, job.ptr)'
      <3>1. PICK g \in Nat : g = job.gen
        BY <2>1, <2>2
      <3>2. PICK p : p = job.ptr
        OBVIOUS
      <3>3. Holds(g, p)
        BY <2>2, <3>1, <3>2 DEF LedgerBody, WorkerPhases
      <3>4. Holds(g, p)'
        BY <1>13, <3>3
      <3>. QED BY <1>0, <3>1, <3>2, <3>4 DEF Holds
    <2>. QED BY <1>0, <1>19, <2>2 DEF LedgerBody, WorkerPhases
  <1>. QED BY <1>3, <1>15, <1>16, <1>17, <1>18, <1>20, <1>21, <1>22 DEF LedgerBody

\* The worker takes the job at the head of the channel: a sealed block is the
\* next generation, and the ones behind it are still in order.
LEMMA LedgerTail ==
    ASSUME HotInv, NEW base \in Bases, NEW last \in 0 .. MaxGen, LedgerBody(base, last), StartJob,
           NEW last2 \in 0 .. MaxGen,
           \/ Head(chan).kind = "log" /\ Head(chan).gen = last + 1 /\ last2 = last + 1 /\ last < Sealed
           \/ Head(chan).kind # "log" /\ last2 = last
    PROVE  /\ LogsQueued(last2)' /\ BytesPlaced(base)' /\ BlocksKept(base)'
           /\ CheckpointsKnown(base, last2)'
           /\ \A g : Limit(base, g)' = Limit(base, g)
           /\ \A g \in Nat : \A p : last2 < g /\ Holds(g, p) => Holds(g, p)'
  <1>0. /\ UNCHANGED <<mem, reg, active, wpc, fresh, todo, written, ledger, snap, pooled>>
        /\ chan' = Tail(chan) /\ chan # << >>
    BY DEF StartJob, wvars, tvars, pvars, dvars
  <1>1. UNCHANGED <<Sealed, Open, Shown, Filled, Writing>>
    BY <1>0 DEF Sealed, Open, Shown, Filled, Writing
  <1>2. /\ last \in Nat /\ last2 \in Nat /\ last <= last2 /\ Open \in Nat /\ Sealed \in Nat
        /\ last <= Sealed /\ last2 <= Sealed
    <2>1. last \in Nat /\ Open \in Nat /\ Sealed \in Nat /\ last <= Sealed
      BY OpenPlace
    <2>. QED BY <2>1
  <1>3. /\ \A k \in 1 .. Len(chan') : k \in Nat /\ chan'[k] = chan[k + 1] /\ k + 1 \in 1 .. Len(chan)
        /\ \A k \in 1 .. Len(chan) : k # 1 =>
                k - 1 \in 1 .. Len(chan') /\ chan'[k - 1] = chan[k] /\ 1 < k
        /\ 1 \in 1 .. Len(chan) /\ Head(chan) = chan[1]
    <2>1. chan \in Seq(Jobs)
      BY ChanJobs
    <2>. QED BY <1>0, <2>1, TailSeq
  <1>4. /\ \A k \in 1 .. Len(chan') : IsLog(k)' <=> IsLog(k + 1)
        /\ \A k \in 1 .. Len(chan) : k # 1 => (IsLog(k - 1)' <=> IsLog(k))
    BY <1>3 DEF IsLog
  <1>5. \A g : Limit(base, g)' = Limit(base, g)
    BY <1>1 DEF Limit
  <1>6. \A k \in 1 .. Len(chan) : IsLog(k) => chan[k].gen \in 1 .. MaxGen
    <2>1. SUFFICES ASSUME NEW k \in 1 .. Len(chan), IsLog(k) PROVE chan[k].gen \in 1 .. MaxGen
      OBVIOUS
    <2>2. chan[k] \in Jobs /\ chan[k].kind = "log"
      BY <2>1, ChanJobs DEF IsLog
    <2>. QED BY <2>2, JobKinds
  <1>7. \A k \in 1 .. Len(chan) : IsLog(k) /\ chan[k].gen > last2 => k # 1
    <2>1. CASE Head(chan).kind = "log" /\ Head(chan).gen = last + 1 /\ last2 = last + 1
      BY <1>2, <1>3, <2>1
    <2>2. CASE Head(chan).kind # "log"
      BY <1>3, <2>2 DEF IsLog
    <2>. QED BY <2>1, <2>2
  <1>8. \A g \in Nat : \A p : last2 < g /\ Holds(g, p) => Holds(g, p)'
    <2>1. SUFFICES ASSUME NEW g \in Nat, NEW p, last2 < g, Holds(g, p) PROVE Holds(g, p)'
      OBVIOUS
    <2>2. CASE \E k \in 1 .. Len(chan) : IsLog(k) /\ chan[k].gen = g /\ chan[k].ptr = p
      <3>1. PICK k \in 1 .. Len(chan) : IsLog(k) /\ chan[k].gen = g /\ chan[k].ptr = p
        BY <2>2
      <3>2. k # 1
        BY <1>7, <2>1, <3>1
      <3>3. k - 1 \in 1 .. Len(chan') /\ chan'[k - 1] = chan[k] /\ IsLog(k - 1)'
        BY <1>3, <1>4, <3>1, <3>2
      <3>. QED BY <3>1, <3>3 DEF Holds
    <2>3. CASE g = Open /\ Writing /\ p = reg.ptr
      BY <1>0, <1>1, <2>3 DEF Holds
    <2>. QED BY <2>1, <2>2, <2>3 DEF Holds
  <1>9. \A g \in Nat, to \in Nat : \A p :
            Known(base, last, g, p, to) => Known(base, last2, g, p, to)'
    <2>1. SUFFICES ASSUME NEW g \in Nat, NEW to \in Nat, NEW p, Known(base, last, g, p, to)
                   PROVE  Known(base, last2, g, p, to)'
      OBVIOUS
    <2>2. last2 < g => last < g
      BY <1>2
    <2>. QED BY <1>1, <1>5, <1>8, <2>1, <2>2 DEF Known
  <1>10. LogsQueued(last2)'
    <2>1. LogsQueued(last)
      BY DEF LedgerBody
    <2>2. last2 <= Sealed'
      BY <1>1, <1>2
    <2>3. ASSUME NEW k \in 1 .. Len(chan'), IsLog(k)'
          PROVE  last2 < chan'[k].gen /\ chan'[k].gen <= Sealed'
      <3>1. k + 1 \in 1 .. Len(chan) /\ IsLog(k + 1) /\ chan'[k] = chan[k + 1]
        BY <1>3, <1>4, <2>3
      <3>2. last < chan[k + 1].gen /\ chan[k + 1].gen <= Sealed
        BY <2>1, <3>1 DEF LogsQueued
      <3>3. last2 < chan[k + 1].gen
        <4>1. CASE Head(chan).kind = "log" /\ Head(chan).gen = last + 1 /\ last2 = last + 1
          <5>1. IsLog(1) /\ chan[1].gen = last + 1 /\ 1 < k + 1
            BY <1>3, <4>1 DEF IsLog
          <5>2. chan[1].gen < chan[k + 1].gen
            BY <1>3, <2>1, <3>1, <5>1 DEF LogsQueued
          <5>. QED BY <4>1, <5>1, <5>2
        <4>2. CASE last2 = last
          BY <3>2, <4>2
        <4>. QED BY <4>1, <4>2
      <3>. QED BY <1>1, <3>1, <3>2, <3>3
    <2>4. ASSUME NEW k \in 1 .. Len(chan'), NEW m \in 1 .. Len(chan'), k < m, IsLog(k)', IsLog(m)'
          PROVE  chan'[k].gen < chan'[m].gen
      <3>1. /\ k + 1 \in 1 .. Len(chan) /\ IsLog(k + 1) /\ chan'[k] = chan[k + 1]
            /\ m + 1 \in 1 .. Len(chan) /\ IsLog(m + 1) /\ chan'[m] = chan[m + 1]
            /\ k + 1 < m + 1
        BY <1>3, <1>4, <2>4
      <3>. QED BY <2>1, <3>1 DEF LogsQueued
    <2>5. ASSUME NEW g \in 1 .. MaxGen, last2 < g, g <= Sealed
          PROVE  \E k \in 1 .. Len(chan') : IsLog(k)' /\ chan'[k].gen = g
      <3>1. last < g
        BY <1>2, <2>5
      <3>2. PICK k \in 1 .. Len(chan) : IsLog(k) /\ chan[k].gen = g
        BY <2>1, <2>5, <3>1 DEF LogsQueued
      <3>3. k # 1
        BY <1>7, <2>5, <3>2
      <3>4. k - 1 \in 1 .. Len(chan') /\ chan'[k - 1] = chan[k] /\ IsLog(k - 1)'
        BY <1>3, <1>4, <3>2, <3>3
      <3>. QED BY <3>2, <3>4
    <2>. QED BY <1>1, <2>2, <2>3, <2>4, <2>5 DEF LogsQueued
  <1>11. BytesPlaced(base)'
    <2>1. BytesPlaced(base)
      BY DEF LedgerBody
    <2>2. \A k \in 1 .. Len(chan') : IsLog(k)' =>
            k + 1 \in 1 .. Len(chan) /\ IsLog(k + 1) /\ chan'[k] = chan[k + 1]
      BY <1>3, <1>4
    <2>. QED BY <1>0, <1>1, <2>1, <2>2, SMTT(30) DEF BytesPlaced
  <1>12. BlocksKept(base)'
    <2>1. BlocksKept(base)
      BY DEF LedgerBody
    <2>2. \A k \in 1 .. Len(chan') : IsLog(k)' =>
            k + 1 \in 1 .. Len(chan) /\ IsLog(k + 1) /\ chan'[k] = chan[k + 1]
      BY <1>3, <1>4
    <2>. QED BY <1>0, <2>1, <2>2 DEF BlocksKept
  <1>13. CheckpointsKnown(base, last2)'
    <2>0. /\ active' = active => Known(base, last2, active.gen, active.ptr, active.cursor)'
          /\ snap # << >> /\ snap' = snap =>
                Known(base, last2, snap[1].gen, snap[1].ptr, snap[1].cursor)'
          /\ \A k \in 1 .. Len(chan), m \in 1 .. Len(chan') :
                chan[k].kind = "checkpoint" /\ chan'[m] = chan[k] =>
                    Known(base, last2, chan[m].gen, chan[m].ptr, chan[m].to)'
      BY <1>9, TriplesKnown
    <2>2. (snap # << >> => Known(base, last2, snap[1].gen, snap[1].ptr, snap[1].cursor))'
      BY <1>0, <2>0
    <2>3. ASSUME NEW k \in 1 .. Len(chan'), chan'[k].kind = "checkpoint"
          PROVE  /\ Known(base, last2, chan[k].gen, chan[k].ptr, chan[k].to)'
                 /\ (\A m \in 1 .. Len(chan) : k < m /\ IsLog(m) => chan[k].gen <= chan[m].gen)'
      <3>1. k + 1 \in 1 .. Len(chan) /\ chan'[k] = chan[k + 1]
        BY <1>3
      <3>2. Known(base, last2, chan[k].gen, chan[k].ptr, chan[k].to)'
        BY <2>0, <2>3, <3>1
      <3>3. \A m \in 1 .. Len(chan) : k + 1 < m /\ IsLog(m) => chan[k + 1].gen <= chan[m].gen
        BY <2>3, <3>1 DEF LedgerBody, CheckpointsKnown
      <3>4. ASSUME NEW m \in 1 .. Len(chan'), k < m, IsLog(m)'
            PROVE  chan'[k].gen <= chan'[m].gen
        <4>1. m + 1 \in 1 .. Len(chan) /\ IsLog(m + 1) /\ chan'[m] = chan[m + 1] /\ k + 1 < m + 1
          BY <1>3, <1>4, <3>4
        <4>. QED BY <3>1, <3>3, <4>1
      <3>. QED BY <3>2, <3>4
    <2>. QED BY <1>0, <2>0, <2>2, <2>3 DEF CheckpointsKnown
  <1>. QED BY <1>5, <1>8, <1>10, <1>11, <1>12, <1>13

\* An idle worker's log ends at the watermark.
LEMMA IdleLedger ==
    ASSUME HotInv, NEW base \in Bases, NEW last \in 0 .. MaxGen, LedgerBody(base, last),
           fpc = "idle", NEW from,
           from = IF pooled /\ watermark.gen = last + 1 THEN watermark.bytes ELSE 0
    PROVE  Len(ledger) = base[last + 1] + from /\ from \in Nat
  <1>1. Len(ledger) + InFlight = base[last + 1] + from
    BY DEF LedgerBody, LedgerPlaced
  <1>2. InFlight = 0
    BY DEF InFlight
  <1>3. Len(ledger) \in Nat /\ from \in Nat
    BY Scalars
  <1>. QED BY ONLY <1>1, <1>2, <1>3

\* commit_job on a sealed block keeps the log in step with the watermark.
LEMMA LedgerStartLog ==
    ASSUME HotInv, NEW base \in Bases, NEW last \in 0 .. MaxGen, LedgerBody(base, last), StartJob,
           Head(chan).kind = "log"
    PROVE  LedgerInv'
  <1>0. fpc = "idle" /\ ledger' = ledger /\ pooled' = pooled
    BY DEF StartJob, dvars, pvars
  <1>1. PICK j : j = Head(chan)
    OBVIOUS
  <1>2. /\ j \in LogJobs /\ j.gen = last + 1 /\ last < Sealed
        /\ Len(j.bytes) \in 1 .. Capacity /\ base[last + 2] = base[last + 1] + Len(j.bytes)
        /\ \E from \in 0 .. Len(j.bytes) :
             /\ from = IF pooled /\ watermark.gen = last + 1 THEN watermark.bytes ELSE 0
             /\ data' \in Seq(0 .. MaxBytes) /\ Len(data') = Len(j.bytes) - from
             /\ \A i \in 1 .. Len(data') : data'[i] = base[last + 1] + from + i
             /\ fpc' = IF from < Len(j.bytes) THEN "append" ELSE "return"
             /\ from < Len(j.bytes) \/ pooled
        /\ job' = j
        /\ pooled => watermark' = [gen |-> last + 1, bytes |-> Len(j.bytes)]
    BY <1>1, StartLogFacts
  <1>3. PICK from \in 0 .. Len(j.bytes) :
             /\ from = IF pooled /\ watermark.gen = last + 1 THEN watermark.bytes ELSE 0
             /\ data' \in Seq(0 .. MaxBytes) /\ Len(data') = Len(j.bytes) - from
             /\ \A i \in 1 .. Len(data') : data'[i] = base[last + 1] + from + i
             /\ fpc' = IF from < Len(j.bytes) THEN "append" ELSE "return"
             /\ from < Len(j.bytes) \/ pooled
    BY <1>2
  <1>4. Len(ledger) = base[last + 1] + from
    BY <1>0, <1>3, IdleLedger
  <1>5. /\ last \in Nat /\ last + 1 \in 0 .. MaxGen /\ base[last + 1] \in Nat /\ Len(ledger) \in Nat
        /\ Len(j.bytes) \in Nat /\ from \in Nat /\ Capacity \in Nat
    <2>1. last \in Nat /\ base[last + 1] \in Nat /\ MaxGen \in Nat
      BY OpenPlace
    <2>2. Sealed \in 0 .. MaxGen /\ last < Sealed
      BY <1>2, WriterFacts
    <2>3. Len(ledger) \in Nat /\ Capacity \in Nat
      BY Scalars
    <2>. QED BY ONLY <1>2, <2>1, <2>2, <2>3, from \in 0 .. Len(j.bytes)
  <1>6. PICK last2 \in 0 .. MaxGen : last2 = last + 1
    BY <1>5
  <1>7. /\ LogsQueued(last2)' /\ BytesPlaced(base)' /\ BlocksKept(base)'
        /\ CheckpointsKnown(base, last2)'
    BY <1>1, <1>2, <1>6, LedgerTail
  <1>8. last2 + 1 = last + 2 /\ last2 > 0 /\ last2 # last2 + 1
    BY <1>5, <1>6
  <1>9. WatermarkPlaced(base, last2)'
    <2>1. ASSUME pooled
          PROVE  watermark'.gen = last2 /\ watermark'.bytes = Len(j.bytes)
      BY <1>2, <1>6, <2>1
    <2>2. watermark'.gen = last2 => watermark'.gen # 0 /\ watermark'.gen # last2 + 1
      BY <1>8
    <2>3. base[last2] + Len(j.bytes) = base[last2 + 1]
      BY <1>2, <1>6, <1>8
    <2>. QED BY <1>0, <2>1, <2>2, <2>3 DEF WatermarkPlaced
  <1>10. LedgerPlaced(base, last2)'
    <2>1. InFlight' = Len(data')
      <3>1. CASE from < Len(j.bytes)
        BY <1>3, <3>1 DEF InFlight
      <3>2. CASE ~(from < Len(j.bytes))
        <4>1. fpc' = "return" /\ Len(data') = 0
          BY <1>3, <1>5, <3>2
        <4>. QED BY <4>1 DEF InFlight
      <3>. QED BY <3>1, <3>2
    <2>2. ~(pooled' /\ watermark'.gen = last2 + 1)
      BY <1>0, <1>2, <1>6, <1>8
    <2>3. Len(ledger) + Len(data') = base[last2 + 1] + 0
      <3>1. Len(data') = Len(j.bytes) - from /\ base[last2 + 1] = base[last + 1] + Len(j.bytes)
        BY <1>2, <1>3, <1>8
      <3>. QED BY ONLY <1>4, <1>5, <3>1
    <2>. QED BY <1>0, <2>1, <2>2, <2>3 DEF LedgerPlaced
  <1>11. WorkerPhases(base, last2)'
    <2>1. \A i \in 1 .. Len(data') : data'[i] = Len(ledger) + i
      BY <1>3, <1>4
    <2>2. fpc' = "append" \/ (fpc' = "return" /\ pooled)
      BY <1>3
    <2>3. job' \in LogJobs
      BY <1>2
    <2>. QED BY <1>0, <2>1, <2>2, <2>3 DEF WorkerPhases
  <1>12. LedgerBody(base, last2)'
    BY <1>7, <1>9, <1>10, <1>11 DEF LedgerBody
  <1>. QED BY <1>12 DEF LedgerInv

\* The next generation does not end before it begins.
LEMMA LimitAbove ==
    ASSUME HotInv, NEW base \in Bases, NEW last \in 0 .. MaxGen, LedgerBody(base, last)
    PROVE  base[last + 1] <= Limit(base, last + 1)
  <1>1. /\ base[last + 1] \in Nat /\ last \in Nat /\ last <= Sealed /\ Sealed \in Nat
        /\ MaxGen \in Nat
    BY OpenPlace
  <1>2. CASE last + 1 <= Sealed
    <2>0. Sealed \in 0 .. MaxGen
      BY WriterFacts
    <2>1. last + 1 \in 1 .. MaxGen /\ last < last + 1
      BY <1>1, <1>2, <2>0
    <2>2. PICK k \in 1 .. Len(chan) : IsLog(k) /\ chan[k].gen = last + 1
      BY <1>2, <2>1 DEF LedgerBody, LogsQueued
    <2>3. Limit(base, last + 1) = base[chan[k].gen + 1]
      BY <1>2, <2>2 DEF Limit
    <2>4. base[chan[k].gen + 1] = base[last + 1] + Len(chan[k].bytes)
      BY <2>2 DEF LedgerBody, BytesPlaced
    <2>5. Len(chan[k].bytes) \in Nat
      <3>1. chan[k] \in Jobs /\ chan[k].kind = "log"
        BY <2>2, ChanJobs DEF IsLog
      <3>. QED BY <3>1, JobKinds
    <2>. QED BY ONLY <1>1, <2>3, <2>4, <2>5
  <1>3. CASE ~(last + 1 <= Sealed)
    <2>1. Limit(base, last + 1) = base[last + 1] + Shown
      BY <1>3 DEF Limit
    <2>2. Shown \in Nat
      BY WriterFacts, Scalars
    <2>. QED BY ONLY <1>1, <2>1, <2>2
  <1>. QED BY <1>2, <1>3

\* commit_job on a checkpoint: dropped, it leaves the log where it is; taken,
\* its bytes are those that follow the log.
LEMMA LedgerStartCheckpoint ==
    ASSUME HotInv, NEW base \in Bases, NEW last \in 0 .. MaxGen, LedgerBody(base, last), StartJob,
           Head(chan).kind = "checkpoint"
    PROVE  LedgerInv'
  <1>0. fpc = "idle" /\ ledger' = ledger /\ pooled' = pooled
    BY DEF StartJob, dvars, pvars
  <1>1. PICK j : j = Head(chan)
    OBVIOUS
  <1>2. /\ LogsQueued(last)' /\ BytesPlaced(base)' /\ BlocksKept(base)'
        /\ CheckpointsKnown(base, last)'
        /\ \A g : Limit(base, g)' = Limit(base, g)
        /\ \A g \in Nat : \A p : last < g /\ Holds(g, p) => Holds(g, p)'
    BY LedgerTail
  <1>3. /\ base[last + 1] \in Nat /\ last \in Nat /\ Len(ledger) \in Nat
    BY OpenPlace, Scalars
  <1>a. Limit(base, last + 1)' = Limit(base, last + 1)
    BY <1>2
  <1>4. /\ pooled /\ j \in CheckpointJobs
        /\ \/ /\ fpc' = "idle" /\ data' = << >> /\ job' = NoJob
              /\ \/ watermark' = watermark
                 \/ watermark.gen = last /\ watermark' = [gen |-> last + 1, bytes |-> 0]
           \/ \E from \in 0 .. MaxBytes :
              /\ fpc' = "read" /\ data' = <<from>> /\ job' = j
              /\ from = IF watermark.gen = last + 1 THEN watermark.bytes ELSE 0
              /\ j.gen = last + 1 /\ from < j.to
              /\ watermark' = [gen |-> j.gen, bytes |-> j.to]
              /\ Holds(j.gen, j.ptr) /\ base[last + 1] + j.to <= Limit(base, last + 1)
    BY <1>1, StartCheckpointFacts
  <1>5. CASE fpc' = "idle" /\ job' = NoJob /\ watermark' = watermark
    <2>1. WatermarkPlaced(base, last)'
      BY <1>0, <1>a, <1>5 DEF LedgerBody, WatermarkPlaced
    <2>2. LedgerPlaced(base, last)'
      BY <1>0, <1>5 DEF LedgerBody, LedgerPlaced, InFlight
    <2>3. WorkerPhases(base, last)'
      BY <1>5 DEF WorkerPhases
    <2>4. LedgerBody(base, last)'
      BY <1>2, <2>1, <2>2, <2>3 DEF LedgerBody
    <2>. QED BY <2>4 DEF LedgerInv
  <1>6. CASE /\ fpc' = "idle" /\ job' = NoJob /\ watermark.gen = last
             /\ watermark' = [gen |-> last + 1, bytes |-> 0]
    <2>0. watermark'.gen = last + 1 /\ watermark'.bytes = 0 /\ last + 1 # last /\ last + 1 # 0
      BY <1>3, <1>6
    <2>1. WatermarkPlaced(base, last)'
      <3>1. base[last + 1] + 0 <= Limit(base, last + 1)'
        BY <1>3, <1>a, LimitAbove
      <3>. QED BY <2>0, <3>1 DEF WatermarkPlaced
    <2>2. LedgerPlaced(base, last)'
      <3>1. Len(ledger) = base[last + 1] + 0
        BY <1>0, <1>6, <2>0, IdleLedger
      <3>2. InFlight' = 0 /\ Len(ledger) + 0 = base[last + 1] + 0
        BY <1>3, <1>6, <3>1 DEF InFlight
      <3>. QED BY <1>0, <1>4, <2>0, <3>2 DEF LedgerPlaced
    <2>3. WorkerPhases(base, last)'
      BY <1>6 DEF WorkerPhases
    <2>4. LedgerBody(base, last)'
      BY <1>2, <2>1, <2>2, <2>3 DEF LedgerBody
    <2>. QED BY <2>4 DEF LedgerInv
  <1>7. ASSUME NEW from \in 0 .. MaxBytes,
               fpc' = "read", data' = <<from>>, job' = j,
               from = IF watermark.gen = last + 1 THEN watermark.bytes ELSE 0,
               j.gen = last + 1, from < j.to,
               watermark' = [gen |-> j.gen, bytes |-> j.to],
               Holds(j.gen, j.ptr), base[last + 1] + j.to <= Limit(base, last + 1)
        PROVE  LedgerInv'
    <2>0. watermark'.gen = last + 1 /\ watermark'.bytes = j.to /\ last + 1 # last /\ last + 1 # 0
          /\ data'[1] = from /\ Len(data') = 1
      BY <1>3, <1>7
    <2>a. j.to \in Nat /\ from \in Nat
      BY <1>4, Scalars DEF CheckpointJobs
    <2>b. Len(ledger) = base[last + 1] + from
      BY <1>0, <1>4, <1>7, IdleLedger
    <2>1. WatermarkPlaced(base, last)'
      BY <1>a, <1>7, <2>0 DEF WatermarkPlaced
    <2>2. LedgerPlaced(base, last)'
      <3>1. InFlight' = j.to - from
        BY <1>7, <2>0 DEF InFlight
      <3>2. Len(ledger) + (j.to - from) = base[last + 1] + j.to
        BY ONLY <1>3, <2>a, <2>b
      <3>. QED BY <1>0, <1>4, <2>0, <3>1, <3>2 DEF LedgerPlaced
    <2>3. WorkerPhases(base, last)'
      <3>1. Holds(job.gen, job.ptr)'
        <4>1. PICK g \in Nat : g = j.gen
          BY <1>3, <1>7
        <4>2. PICK p : p = j.ptr
          OBVIOUS
        <4>3. Holds(g, p)'
          <5>1. Holds(g, p) /\ last < g
            BY <1>3, <1>7, <4>1, <4>2
          <5>. QED BY <1>2, <5>1
        <4>. QED BY <1>7, <4>1, <4>2, <4>3 DEF Holds
      <3>. QED BY <1>0, <1>4, <1>7, <2>0, <2>b, <3>1 DEF WorkerPhases
    <2>4. LedgerBody(base, last)'
      BY <1>2, <2>1, <2>2, <2>3 DEF LedgerBody
    <2>. QED BY <2>4 DEF LedgerInv
  <1>. QED BY <1>4, <1>5, <1>6, <1>7

\* An object block has nothing to do with the log.
LEMMA LedgerStartObj ==
    ASSUME HotInv, NEW base \in Bases, NEW last \in 0 .. MaxGen, LedgerBody(base, last), StartJob,
           Head(chan).kind = "obj"
    PROVE  LedgerInv'
  <1>0. fpc = "idle" /\ ledger' = ledger /\ pooled' = pooled
    BY DEF StartJob, dvars, pvars
  <1>1. /\ LogsQueued(last)' /\ BytesPlaced(base)' /\ BlocksKept(base)'
        /\ CheckpointsKnown(base, last)'
        /\ \A g : Limit(base, g)' = Limit(base, g)
    BY LedgerTail
  <1>2. /\ Head(chan) \in ObjJobs /\ job' = Head(chan) /\ fpc' = "objput"
        /\ watermark' = watermark
    BY StartObjFacts
  <1>3. Limit(base, last + 1)' = Limit(base, last + 1)
    BY <1>1
  <1>4. WatermarkPlaced(base, last)'
    BY <1>0, <1>2, <1>3 DEF LedgerBody, WatermarkPlaced
  <1>5. LedgerPlaced(base, last)'
    BY <1>0, <1>2 DEF LedgerBody, LedgerPlaced, InFlight
  <1>6. WorkerPhases(base, last)'
    BY <1>2 DEF WorkerPhases
  <1>7. LedgerBody(base, last)'
    BY <1>1, <1>4, <1>5, <1>6 DEF LedgerBody
  <1>. QED BY <1>7 DEF LedgerInv

\* The worker's other steps, and the pool's, leave the writer, the channel and
\* the watermark alone.
LEMMA LedgerStay ==
    ASSUME NEW base, NEW last, LedgerBody(base, last),
           UNCHANGED <<wvars, chan, snap, pooled, watermark>>
    PROVE  /\ LogsQueued(last)' /\ BytesPlaced(base)' /\ BlocksKept(base)'
           /\ CheckpointsKnown(base, last)' /\ WatermarkPlaced(base, last)'
           /\ \A g, p : Holds(g, p) => Holds(g, p)'
  <1>0. UNCHANGED <<mem, reg, active, wpc, fresh, todo, written, chan, snap, pooled, watermark>>
    BY DEF wvars
  <1>1. UNCHANGED <<Sealed, Open, Shown, Filled, Writing>>
    BY <1>0 DEF Sealed, Open, Shown, Filled, Writing
  <1>2. LogsQueued(last)'
    BY <1>0, <1>1 DEF LedgerBody, LogsQueued, IsLog
  <1>3. BytesPlaced(base)'
    BY <1>0, <1>1 DEF LedgerBody, BytesPlaced, IsLog
  <1>4. BlocksKept(base)'
    BY <1>0 DEF LedgerBody, BlocksKept, IsLog
  <1>5. CheckpointsKnown(base, last)'
    BY <1>0, <1>1 DEF LedgerBody, CheckpointsKnown, Known, Limit, Holds, IsLog
  <1>6. WatermarkPlaced(base, last)'
    BY <1>0, <1>1 DEF LedgerBody, WatermarkPlaced, Limit
  <1>7. \A g, p : Holds(g, p) => Holds(g, p)'
    BY <1>0, <1>1 DEF Holds, IsLog
  <1>. QED BY <1>2, <1>3, <1>4, <1>5, <1>6, <1>7

\* What is in flight reaches the log, and only that.
LEMMA LedgerFlush ==
    ASSUME HotInv, NEW base \in Bases, NEW last \in 0 .. MaxGen, LedgerBody(base, last),
           \/ ReadCheckpoint \/ LogAppend \/ ObjBlockPut \/ AdvanceAnchor \/ PoolReturn \/ PoolPut
           \/ UNCHANGED vars
    PROVE  LedgerBody(base, last)'
  <1>0. UNCHANGED <<wvars, chan, snap, pooled, watermark>>
    BY DEF ReadCheckpoint, LogAppend, ObjBlockPut, AdvanceAnchor, PoolReturn, PoolPut, vars, tvars,
           pvars, fvars
  <1>1. /\ LogsQueued(last)' /\ BytesPlaced(base)' /\ BlocksKept(base)'
        /\ CheckpointsKnown(base, last)' /\ WatermarkPlaced(base, last)'
        /\ \A g, p : Holds(g, p) => Holds(g, p)'
    BY <1>0, LedgerStay
  <1>2. LedgerPlaced(base, last) /\ WorkerPhases(base, last)
    BY DEF LedgerBody
  <1>3. job \in Jobs \union {NoJob} /\ data \in Seq(0 .. MaxBytes) /\ Len(data) \in Nat
        /\ Len(ledger) \in Nat /\ ledger \in Seq(0 .. MaxBytes)
    BY LenProperties DEF HotInv, JobTypes, TypeOK
  <1>4. SUFFICES Len(ledger') + InFlight' = Len(ledger) + InFlight /\ WorkerPhases(base, last)'
    <2>1. ASSUME Len(ledger') + InFlight' = Len(ledger) + InFlight
          PROVE  LedgerPlaced(base, last)'
      BY <1>0, <1>2, <2>1 DEF LedgerPlaced
    <2>. QED BY <1>1, <2>1 DEF LedgerBody
  <1>5. CASE ReadCheckpoint
    <2>0. fpc = "read" /\ fpc' = "append" /\ job' = job /\ ledger' = ledger
      BY <1>5 DEF ReadCheckpoint, dvars
    <2>1. /\ Len(data') = job.to - data[1]
          /\ \A i \in 1 .. Len(data') : data'[i] = Len(ledger) + i
      BY <1>5, ReadFacts
    <2>2. InFlight' = InFlight
      BY <2>0, <2>1 DEF InFlight
    <2>3. job \in CheckpointJobs
      BY <1>2, <2>0 DEF WorkerPhases
    <2>4. WorkerPhases(base, last)'
      BY <2>0, <2>1, <2>3 DEF WorkerPhases
    <2>. QED BY <2>0, <2>2, <2>4
  <1>6. CASE LogAppend
    <2>0. fpc = "append" /\ fpc' = "anchor" /\ job' = job /\ ledger' = ledger \o data
      BY <1>6 DEF LogAppend
    <2>1. InFlight = Len(data) /\ InFlight' = 0
      BY <2>0 DEF InFlight
    <2>2. Len(ledger') = Len(ledger) + Len(data)
      BY <1>3, <2>0, ConcatProperties
    <2>3. Len(ledger') + InFlight' = Len(ledger) + InFlight
      BY ONLY <1>3, <2>1, <2>2
    <2>4. job # NoJob
      <3>1. job \in LogJobs \union CheckpointJobs
        BY <1>2, <2>0 DEF WorkerPhases
      <3>2. job \in Jobs
        BY <3>1 DEF Jobs
      <3>. QED BY <3>2, JobKinds
    <2>5. WorkerPhases(base, last)'
      BY <2>0, <2>4 DEF WorkerPhases
    <2>. QED BY <2>3, <2>5
  <1>7. CASE ObjBlockPut
    <2>0. fpc = "objput" /\ fpc' = "anchor" /\ job' = job /\ ledger' = ledger
      BY <1>7 DEF ObjBlockPut
    <2>1. InFlight' = InFlight
      BY <2>0 DEF InFlight
    <2>2. job # NoJob
      <3>1. job \in Jobs
        BY <1>2, <2>0 DEF WorkerPhases, Jobs
      <3>. QED BY <3>1, JobKinds
    <2>3. WorkerPhases(base, last)'
      BY <2>0, <2>2 DEF WorkerPhases
    <2>. QED BY <2>0, <2>1, <2>3
  <1>8. CASE AdvanceAnchor
    <2>0. fpc = "anchor" /\ ledger' = ledger
          /\ \/ job.kind = "log" /\ pooled /\ fpc' = "return" /\ job' = job
             \/ fpc' = "idle" /\ job' = NoJob
      BY <1>8 DEF AdvanceAnchor
    <2>1. InFlight' = InFlight
      BY <2>0 DEF InFlight
    <2>2. job \in Jobs
      BY <1>2, <1>3, <2>0 DEF WorkerPhases
    <2>3. job.kind = "log" => job \in LogJobs
      BY <2>2, JobKinds
    <2>4. WorkerPhases(base, last)'
      BY <1>0, <2>0, <2>3 DEF WorkerPhases
    <2>. QED BY <2>0, <2>1, <2>4
  <1>9. CASE PoolReturn
    <2>0. fpc = "return" /\ fpc' = "idle" /\ job' = NoJob /\ ledger' = ledger
      BY <1>9 DEF PoolReturn, dvars
    <2>1. InFlight' = InFlight
      BY <2>0 DEF InFlight
    <2>2. WorkerPhases(base, last)'
      BY <2>0 DEF WorkerPhases
    <2>. QED BY <2>0, <2>1, <2>2
  <1>10. CASE PoolPut \/ UNCHANGED vars
    <2>0. UNCHANGED <<fpc, job, data, ledger>>
      BY <1>10 DEF PoolPut, vars, fvars, dvars
    <2>1. InFlight' = InFlight
      BY <2>0 DEF InFlight
    <2>2. Holds(job.gen, job.ptr) => Holds(job.gen, job.ptr)'
      <3>1. PICK g, p : g = job.gen /\ p = job.ptr
        OBVIOUS
      <3>2. Holds(g, p) => Holds(g, p)'
        BY <1>1
      <3>3. Holds(job.gen, job.ptr) => Holds(g, p)
        BY <3>1
      <3>4. Holds(g, p)' => Holds(job.gen, job.ptr)'
        BY <2>0, <3>1 DEF Holds
      <3>. QED BY <3>2, <3>3, <3>4
    <2>3. WorkerPhases(base, last)'
      BY <1>0, <1>2, <2>0, <2>2 DEF WorkerPhases
    <2>. QED BY <2>0, <2>1, <2>3
  <1>. QED BY <1>5, <1>6, <1>7, <1>8, <1>9, <1>10

\* A process that starts again finds its next byte at the end of the log.
LEMMA LedgerCrash ==
    ASSUME HotInv, Crash
    PROVE  LedgerInv'
  <1>0. /\ reg' = NoTriple /\ active' = NoTriple /\ wpc' = "take" /\ snap' = << >>
        /\ chan' = << >> /\ watermark' = [gen |-> 0, bytes |-> 0]
        /\ fpc' = "idle" /\ job' = NoJob /\ written' = Len(ledger) /\ ledger' = ledger
    BY DEF Crash, dvars
  <1>1. MaxGen \in Nat /\ MaxBytes \in Nat /\ Len(ledger) \in Nat /\ Len(ledger) <= MaxBytes
    BY Scalars, LedgerBound
  <1>2. PICK base : base = [g \in 1 .. (MaxGen + 1) |-> Len(ledger)]
    OBVIOUS
  <1>3. base \in Bases /\ base[1] = Len(ledger)
    BY <1>1, <1>2 DEF Bases
  <1>4. reg'.gen = 0 /\ active'.gen = 0 /\ active'.cursor = 0 /\ watermark'.gen = 0 /\ watermark'.bytes = 0
    BY <1>0 DEF NoTriple
  <1>5. Sealed' = 0 /\ Open' = 1 /\ Shown' = 0 /\ Filled' = 0 /\ ~Writing'
    BY <1>0, <1>4 DEF Sealed, Open, Shown, Filled, Writing
  <1>6. Len(chan') = 0
    BY <1>0
  <1>7. LogsQueued(0)'
    BY <1>5, <1>6 DEF LogsQueued
  <1>8. BytesPlaced(base)'
    BY <1>0, <1>1, <1>3, <1>5, <1>6 DEF BytesPlaced
  <1>9. BlocksKept(base)'
    BY <1>6 DEF BlocksKept
  <1>10. CheckpointsKnown(base, 0)'
    <2>1. Known(base, 0, active.gen, active.ptr, active.cursor)'
      BY <1>4, <1>5 DEF Known
    <2>. QED BY <1>0, <1>6, <2>1 DEF CheckpointsKnown
  <1>11. WatermarkPlaced(base, 0)'
    BY <1>4 DEF WatermarkPlaced
  <1>12. LedgerPlaced(base, 0)'
    <2>1. InFlight' = 0
      BY <1>0 DEF InFlight
    <2>2. Len(ledger) + 0 = base[0 + 1] + 0
      BY <1>1, <1>3
    <2>. QED BY <1>0, <1>4, <2>1, <2>2 DEF LedgerPlaced
  <1>13. WorkerPhases(base, 0)'
    BY <1>0 DEF WorkerPhases
  <1>14. LedgerBody(base, 0)'
    BY <1>7, <1>8, <1>9, <1>10, <1>11, <1>12, <1>13 DEF LedgerBody
  <1>. QED BY <1>1, <1>3, <1>14 DEF LedgerInv

\* Every step keeps the generations, the channel and the log in step.
LEMMA LedgerStep ==
    ASSUME HotInv, [Next]_vars
    PROVE  LedgerInv'
  <1>1. PICK base \in Bases, last \in 0 .. MaxGen : LedgerBody(base, last)
    BY DEF HotInv, LedgerInv
  <1>2. LedgerBody(base, last)' => LedgerInv'
    BY DEF LedgerInv
  <1>3. CASE Mint \/ PoolTake
    BY <1>1, <1>2, <1>3, LedgerMint
  <1>4. CASE WriteByte
    BY <1>1, <1>2, <1>4, LedgerWriteByte
  <1>5. CASE CommitCursor
    BY <1>1, <1>2, <1>5, LedgerCommitCursor
  <1>6. CASE Seal
    <2>1. PICK base2 : base2 = [base EXCEPT ![reg.gen + 1] = written]
      OBVIOUS
    <2>2. base2 \in Bases /\ LedgerBody(base2, last)'
      BY <1>1, <1>6, <2>1, LedgerSeal
    <2>. QED BY <2>2 DEF LedgerInv
  <1>7. CASE TimerRead
    <2>1. UNCHANGED <<wvars, fvars, dvars, pooled>> /\ snap' = <<active>> /\ chan' = chan
      BY <1>7 DEF TimerRead, pvars
    <2>. QED BY <1>1, <1>2, <2>1, LedgerSend
  <1>8. CASE TimerSend
    <2>1. snap[1] \in Triples
      BY <1>8 DEF TimerSend, HotInv, TypeOK
    <2>2. [kind |-> "checkpoint", gen |-> snap[1].gen, ptr |-> snap[1].ptr,
           to |-> snap[1].cursor] \in Jobs
      BY <2>1 DEF Triples, Jobs, CheckpointJobs
    <2>3. \E j \in Jobs : /\ chan' = Append(chan, j)
                          /\ j.kind = "checkpoint" /\ snap # << >>
                          /\ j.gen = snap[1].gen /\ j.ptr = snap[1].ptr /\ j.to = snap[1].cursor
      BY <1>8, <2>2 DEF TimerSend
    <2>4. UNCHANGED <<wvars, fvars, dvars, pooled>> /\ snap' = << >>
      BY <1>8 DEF TimerSend, pvars
    <2>. QED BY <1>1, <1>2, <2>3, <2>4, LedgerSend
  <1>9. CASE ObjSend
    <2>1. objs + 1 \in 1 .. MaxObjs
      BY <1>9, Scalars DEF ObjSend, HotInv, TypeOK
    <2>2. [kind |-> "obj", block |-> objs + 1] \in Jobs
      BY <2>1 DEF Jobs, ObjJobs
    <2>3. \E j \in Jobs : chan' = Append(chan, j) /\ j.kind = "obj"
      BY <1>9, <2>2 DEF ObjSend
    <2>4. UNCHANGED <<wvars, fvars, dvars, pooled>> /\ snap' = snap
      BY <1>9 DEF ObjSend, pvars
    <2>. QED BY <1>1, <1>2, <2>3, <2>4, LedgerSend
  <1>10. CASE StartJob
    BY <1>1, <1>10, HeadKinds, LedgerStartLog, LedgerStartCheckpoint, LedgerStartObj
  <1>11. CASE \/ ReadCheckpoint \/ LogAppend \/ ObjBlockPut \/ AdvanceAnchor \/ PoolReturn \/ PoolPut
              \/ UNCHANGED vars
    BY <1>1, <1>2, <1>11, LedgerFlush
  <1>12. CASE Crash
    BY <1>12, LedgerCrash
  <1>. QED BY <1>3, <1>4, <1>5, <1>6, <1>7, <1>8, <1>9, <1>10, <1>11, <1>12, NextSplit

\* No byte of the log is missing, doubled or out of order.
LEMMA ExactStep ==
    ASSUME HotInv, [Next]_vars
    PROVE  LedgerExact'
  <1>0. LedgerExact
    BY DEF HotInv
  <1>1. CASE LogAppend
    <2>1. PICK base \in Bases, last \in 0 .. MaxGen : LedgerBody(base, last)
      BY DEF HotInv, LedgerInv
    <2>2. \A i \in 1 .. Len(data) : data[i] = Len(ledger) + i
      BY <1>1, <2>1 DEF LogAppend, LedgerBody, WorkerPhases
    <2>3. ledger \in Seq(0 .. MaxBytes) /\ data \in Seq(0 .. MaxBytes) /\ ledger' = ledger \o data
          /\ Len(ledger) \in Nat /\ Len(data) \in Nat
      BY <1>1, LenProperties DEF LogAppend, HotInv, TypeOK, JobTypes
    <2>4. /\ Len(ledger') = Len(ledger) + Len(data)
          /\ \A i \in 1 .. (Len(ledger) + Len(data)) :
                ledger'[i] = IF i <= Len(ledger) THEN ledger[i] ELSE data[i - Len(ledger)]
      BY <2>3, ConcatProperties
    <2>5. ASSUME NEW i \in 1 .. (Len(ledger) + Len(data)) PROVE ledger'[i] = i
      <3>1. CASE i <= Len(ledger)
        <4>1. i \in 1 .. Len(ledger)
          BY <2>3, <3>1
        <4>. QED BY <1>0, <2>4, <3>1, <4>1 DEF LedgerExact
      <3>2. CASE ~(i <= Len(ledger))
        <4>1. i - Len(ledger) \in 1 .. Len(data) /\ Len(ledger) + (i - Len(ledger)) = i
          BY <2>3, <3>2
        <4>. QED BY <2>2, <2>4, <3>2, <4>1
      <3>. QED BY <3>1, <3>2
    <2>. QED BY <2>4, <2>5 DEF LedgerExact
  <1>2. CASE ~LogAppend
    <2>1. ledger' = ledger
      BY <1>2, NextSplit
         DEF Mint, PoolTake, WriteByte, CommitCursor, Seal, TimerSend, ObjSend, TimerRead, PoolPut,
             StartJob, ReadCheckpoint, ObjBlockPut, AdvanceAnchor, PoolReturn, Crash, dvars, vars
    <2>. QED BY <1>0, <2>1 DEF LedgerExact
  <1>. QED BY <1>1, <1>2

-----------------------------------------------------------------------------
(* Blocks *)

\* The blocks of the pool, of the writer, of the channel and of the worker's
\* hand are all different: what BlocksOwned and FreeBlocksAreIdle say together
\* of a process with a pool.
Apart ==
    /\ Taken \subseteq minted
    /\ \A i \in 1 .. Len(pool) : /\ pool[i] \in minted /\ pool[i] \notin Taken
                                 /\ \A k \in 1 .. Len(pool) : pool[k] = pool[i] => k = i
    /\ \A k \in 1 .. Len(chan) : IsLog(k) =>
            /\ chan[k].ptr \in minted /\ chan[k].ptr \notin Taken
            /\ \A i \in 1 .. Len(pool) : pool[i] # chan[k].ptr
            /\ \A m \in 1 .. Len(chan) : IsLog(m) /\ chan[m].ptr = chan[k].ptr => m = k
    /\ job.kind = "log" =>
            /\ job.ptr \in minted /\ job.ptr \notin Taken
            /\ \A i \in 1 .. Len(pool) : pool[i] # job.ptr
            /\ \A k \in 1 .. Len(chan) : IsLog(k) => chan[k].ptr # job.ptr

\* The two forms agree.
LEMMA ApartIs ==
    ASSUME pooled
    PROVE  BlocksOwned /\ FreeBlocksAreIdle <=> Apart
  <1>1. \A b : b \notin Taken <=> (wpc \in {"ready", "wrote"} => reg.ptr # b) /\ (wpc = "mint" => fresh # b)
    BY DEF Taken, Writing
  <1>2. BlocksOwned /\ FreeBlocksAreIdle => Apart
    BY <1>1 DEF BlocksOwned, FreeBlocksAreIdle, Apart, IsLog
  <1>3. Apart => BlocksOwned
    BY DEF BlocksOwned, Apart
  <1>4. Apart => FreeBlocksAreIdle
    BY <1>1 DEF FreeBlocksAreIdle, Apart, IsLog
  <1>. QED BY <1>2, <1>3, <1>4

\* The free-marker protocol: a block goes from the pool to the writer, with its
\* seal into the channel, to the worker, and back, and is in one place at a time.
LEMMA ApartStep ==
    ASSUME HotInv, [Next]_vars, pooled
    PROVE  Apart'
  <1>0. Apart
    BY ApartIs DEF HotInv
  <1>c. chan \in Seq(Jobs) /\ Len(chan) \in Nat
    BY ChanJobs
  <1>p. pool \in Seq(Blocks) /\ Len(pool) \in Nat
    BY LenProperties DEF HotInv, TypeOK
  <1>w. PICK base \in Bases, last \in 0 .. MaxGen : LedgerBody(base, last)
    BY DEF HotInv, LedgerInv
  <1>1. CASE UNCHANGED <<Taken, minted, pool, chan, job>>
    BY <1>0, <1>1 DEF Apart, IsLog
  <1>2. CASE Mint
    <2>1. UNCHANGED <<minted, pool, chan, job>> /\ wpc = "mint"
      BY <1>2 DEF Mint, pvars, fvars
    <2>2. Taken = {fresh}
      BY <2>1 DEF Taken
    <2>3. wpc' = "ready" => reg'.ptr = fresh
      <3>1. CASE "ptr" \in todo /\ SetPtr(fresh)
        BY <3>1, RegSlots DEF SetPtr
      <3>2. CASE "cursor" \in todo /\ SetCursor(0) /\ todo' = todo \ {"cursor"}
        <4>1. reg'.ptr = reg.ptr
          BY <3>2, RegSlots DEF SetCursor
        <4>2. wpc' = "ready" => "ptr" \notin todo
          BY <1>2, <3>2 DEF Mint
        <4>3. wpc' = "ready" => reg.ptr = fresh
          BY <2>1, <4>2 DEF HotInv, WriterPhases
        <4>. QED BY <4>1, <4>3
      <3>. QED BY <1>2, <3>1, <3>2 DEF Mint
    <2>4. wpc' = "ready" \/ (wpc' = "mint" /\ fresh' = fresh)
      BY <1>2 DEF Mint
    <2>5. Taken' = Taken
      BY <2>2, <2>3, <2>4 DEF Taken, Writing
    <2>. QED BY <1>1, <2>1, <2>5
  <1>3. CASE PoolTake
    <2>1. /\ UNCHANGED <<minted, chan, job>> /\ wpc = "take" /\ wpc' = "mint"
          /\ pool # << >> /\ fresh' = Head(pool) /\ pool' = Tail(pool)
      BY <1>3 DEF PoolTake, fvars
    <2>2. /\ 1 \in 1 .. Len(pool) /\ Head(pool) = pool[1]
          /\ \A i \in 1 .. Len(pool') : pool'[i] = pool[i + 1] /\ i + 1 \in 1 .. Len(pool)
      BY <1>p, <2>1, TailSeq
    <2>3. \A i \in 1 .. Len(pool') : i + 1 # 1
      BY <2>2
    <2>4. Taken = {} /\ Taken' = {pool[1]}
      BY <2>1, <2>2 DEF Taken, Writing
    <2>5. \A i, k \in 1 .. Len(pool') : i + 1 = k + 1 => i = k
      OBVIOUS
    <2>. QED BY <1>0, <2>1, <2>2, <2>3, <2>4, <2>5 DEF Apart, IsLog
  <1>4. CASE WriteByte \/ CommitCursor
    <2>1. UNCHANGED <<minted, pool, chan, job, fresh>> /\ wpc \in {"ready", "wrote"}
          /\ wpc' \in {"ready", "wrote"}
      BY <1>4 DEF WriteByte, CommitCursor, pvars, fvars
    <2>2. reg'.ptr = reg.ptr
      <3>1. CASE WriteByte
        BY <3>1 DEF WriteByte
      <3>2. CASE CommitCursor
        <4>1. reg' = [reg EXCEPT !.cursor = reg.cursor + 1]
          BY <3>2 DEF CommitCursor, SetCursor
        <4>. QED BY <4>1, RegSlots
      <3>. QED BY <1>4, <3>1, <3>2
    <2>3. Taken' = Taken
      BY <2>1, <2>2 DEF Taken, Writing
    <2>. QED BY <1>1, <2>1, <2>3
  <1>5. ASSUME NEW j \in Jobs, chan' = Append(chan, j), UNCHANGED <<minted, pool, job>>,
               \/ j.kind # "log" /\ Taken' = Taken
               \/ j.kind = "log" /\ Taken = {j.ptr} /\ Taken' = {}
        PROVE  Apart'
    <2>0. PICK n \in Nat : n = Len(chan)
      BY <1>c
    <2>1. /\ Len(chan') = n + 1 /\ chan'[n + 1] = j
          /\ \A k \in 1 .. n : chan'[k] = chan[k]
          /\ \A k \in 1 .. (n + 1) : k \in 1 .. n \/ k = n + 1
      BY <1>5, <1>c, <2>0, AppendSeq
    <2>2. /\ \A k \in 1 .. n : IsLog(k)' <=> IsLog(k)
          /\ IsLog(n + 1)' <=> j.kind = "log"
      BY <2>1 DEF IsLog
    <2>3. CASE j.kind # "log" /\ Taken' = Taken
      <3>1. \A k \in 1 .. Len(chan') : IsLog(k)' => k \in 1 .. n /\ IsLog(k) /\ chan'[k] = chan[k]
        BY <2>1, <2>2, <2>3
      <3>. QED BY <1>0, <2>0, <1>5, <2>3, <3>1 DEF Apart
    <2>4. CASE j.kind = "log" /\ Taken = {j.ptr} /\ Taken' = {}
      <3>0. j.ptr \in minted
        BY <1>0, <2>0, <2>4 DEF Apart
      <3>1. \A i \in 1 .. Len(pool') : /\ pool'[i] \in minted' /\ pool'[i] \notin Taken'
                                       /\ pool'[i] # j.ptr
                                       /\ \A k \in 1 .. Len(pool') : pool'[k] = pool'[i] => k = i
        BY <1>0, <2>0, <1>5, <2>4 DEF Apart
      <3>2. \A k \in 1 .. n : IsLog(k) => chan[k].ptr # j.ptr
        BY <1>0, <2>0, <2>4 DEF Apart
      <3>3. ASSUME NEW k \in 1 .. Len(chan'), IsLog(k)'
            PROVE  /\ chan'[k].ptr \in minted'
                   /\ \A i \in 1 .. Len(pool') : pool'[i] # chan'[k].ptr
                   /\ \A m \in 1 .. Len(chan') : IsLog(m)' /\ chan'[m].ptr = chan'[k].ptr => m = k
        <4>1. CASE k \in 1 .. n
          <5>1. IsLog(k) /\ chan'[k] = chan[k]
            BY <2>1, <2>2, <3>3, <4>1
          <5>2. ASSUME NEW m \in 1 .. Len(chan'), IsLog(m)', chan'[m].ptr = chan'[k].ptr
                PROVE  m = k
            <6>1. m # n + 1
              BY <2>1, <3>2, <4>1, <5>1, <5>2
            <6>2. m \in 1 .. n /\ IsLog(m) /\ chan'[m] = chan[m]
              BY <2>1, <2>2, <5>2, <6>1
            <6>. QED BY <1>0, <2>0, <4>1, <5>1, <5>2, <6>2 DEF Apart
          <5>. QED BY <1>0, <2>0, <1>5, <4>1, <5>1, <5>2 DEF Apart
        <4>2. CASE k = n + 1
          <5>1. chan'[k] = j
            BY <2>1, <4>2
          <5>2. ASSUME NEW m \in 1 .. Len(chan'), IsLog(m)', chan'[m].ptr = chan'[k].ptr
                PROVE  m = k
            <6>1. m \notin 1 .. n
              BY <2>1, <2>2, <3>2, <5>1, <5>2
            <6>. QED BY <2>1, <4>2, <6>1
          <5>. QED BY <1>5, <3>0, <3>1, <5>1, <5>2
        <4>. QED BY <2>1, <4>1, <4>2
      <3>4. job'.kind = "log" =>
                /\ job'.ptr \in minted' /\ \A i \in 1 .. Len(pool') : pool'[i] # job'.ptr
                /\ \A k \in 1 .. Len(chan') : IsLog(k)' => chan'[k].ptr # job'.ptr
        <4>1. SUFFICES ASSUME job.kind = "log"
                       PROVE  /\ job.ptr \in minted /\ \A i \in 1 .. Len(pool) : pool[i] # job.ptr
                              /\ \A k \in 1 .. Len(chan') : IsLog(k)' => chan'[k].ptr # job.ptr
          BY <1>5
        <4>2. job.ptr # j.ptr
          BY <1>0, <2>0, <2>4, <4>1 DEF Apart
        <4>3. \A k \in 1 .. Len(chan') : IsLog(k)' => chan'[k].ptr # job.ptr
          BY <1>0, <2>0, <2>1, <2>2, <4>1, <4>2 DEF Apart
        <4>. QED BY <1>0, <2>0, <4>1, <4>3 DEF Apart
      <3>. QED BY <2>4, <3>1, <3>3, <3>4 DEF Apart
    <2>. QED BY <1>5, <2>3, <2>4
  <1>6. CASE Seal
    <2>1. PICK j \in LogJobs : chan' = Append(chan, j) /\ j.kind = "log" /\ j.ptr = reg.ptr
      BY <1>6, SealJob
    <2>2. wpc = "ready" /\ wpc' = "take" /\ UNCHANGED <<minted, pool, job>>
      BY <1>6 DEF Seal, pvars, fvars
    <2>3. Taken = {j.ptr} /\ Taken' = {}
      BY <2>1, <2>2 DEF Taken, Writing
    <2>. QED BY <1>5, <2>1, <2>2, <2>3 DEF Jobs
  <1>7. CASE TimerSend
    <2>1. snap[1] \in Triples
      BY <1>7 DEF TimerSend, HotInv, TypeOK
    <2>2. [kind |-> "checkpoint", gen |-> snap[1].gen, ptr |-> snap[1].ptr,
           to |-> snap[1].cursor] \in Jobs
      BY <2>1 DEF Triples, Jobs, CheckpointJobs
    <2>3. \E j \in Jobs : chan' = Append(chan, j) /\ j.kind = "checkpoint"
      BY <1>7, <2>2 DEF TimerSend
    <2>4. UNCHANGED <<minted, pool, job, Taken>>
      BY <1>7 DEF TimerSend, pvars, fvars, wvars, Taken, Writing
    <2>. QED BY <1>5, <2>3, <2>4
  <1>8. CASE ObjSend
    <2>1. objs + 1 \in 1 .. MaxObjs
      BY <1>8, Scalars DEF ObjSend, HotInv, TypeOK
    <2>2. [kind |-> "obj", block |-> objs + 1] \in Jobs
      BY <2>1 DEF Jobs, ObjJobs
    <2>3. \E j \in Jobs : chan' = Append(chan, j) /\ j.kind = "obj"
      BY <1>8, <2>2 DEF ObjSend
    <2>4. UNCHANGED <<minted, pool, job, Taken>>
      BY <1>8 DEF ObjSend, pvars, fvars, wvars, Taken, Writing
    <2>. QED BY <1>5, <2>3, <2>4
  <1>9. ASSUME NEW b \in Blocks, pool' = Append(pool, b), UNCHANGED <<chan, Taken>>,
               minted' = minted \union {b}, b \notin Taken,
               \A i \in 1 .. Len(pool) : pool[i] # b,
               \A k \in 1 .. Len(chan) : IsLog(k) => chan[k].ptr # b,
               \/ job' = job /\ (job.kind = "log" => job.ptr # b)
               \/ job'.kind # "log"
        PROVE  Apart'
    <2>1. /\ Len(pool') = Len(pool) + 1 /\ pool'[Len(pool) + 1] = b
          /\ \A k \in 1 .. Len(pool) : pool'[k] = pool[k]
          /\ \A k \in 1 .. (Len(pool) + 1) : k \in 1 .. Len(pool) \/ k = Len(pool) + 1
      BY <1>9, <1>p, AppendSeq
    <2>2. \A i \in 1 .. Len(pool') : /\ pool'[i] \in minted' /\ pool'[i] \notin Taken'
                                     /\ \A k \in 1 .. Len(pool') : pool'[k] = pool'[i] => k = i
      BY <1>0, <1>9, <2>1 DEF Apart
    <2>3. \A k \in 1 .. Len(chan) : IsLog(k) =>
            /\ chan[k].ptr \in minted' /\ chan[k].ptr \notin Taken
            /\ \A i \in 1 .. Len(pool') : pool'[i] # chan[k].ptr
            /\ \A m \in 1 .. Len(chan) : IsLog(m) /\ chan[m].ptr = chan[k].ptr => m = k
      BY <1>0, <1>9, <2>1 DEF Apart
    <2>4. job'.kind = "log" =>
            /\ job'.ptr \in minted' /\ job'.ptr \notin Taken
            /\ \A i \in 1 .. Len(pool') : pool'[i] # job'.ptr
            /\ \A k \in 1 .. Len(chan) : IsLog(k) => chan[k].ptr # job'.ptr
      BY <1>0, <1>9, <2>1 DEF Apart
    <2>5. Taken' \subseteq minted'
      BY <1>0, <1>9 DEF Apart
    <2>. QED BY <1>9, <2>2, <2>3, <2>4, <2>5 DEF Apart, IsLog
  <1>10. CASE PoolPut
    <2>1. PICK b \in Blocks \ minted : pool' = Append(pool, b) /\ minted' = minted \union {b}
      BY <1>10 DEF PoolPut
    <2>2. UNCHANGED <<chan, job, Taken>>
      BY <1>10 DEF PoolPut, wvars, fvars, Taken, Writing
    <2>3. /\ b \notin Taken /\ \A i \in 1 .. Len(pool) : pool[i] # b
          /\ \A k \in 1 .. Len(chan) : IsLog(k) => chan[k].ptr # b
          /\ job.kind = "log" => job.ptr # b
      BY <1>0, <2>1 DEF Apart
    <2>. QED BY <1>9, <2>1, <2>2, <2>3
  <1>11. CASE PoolReturn
    <2>1. job \in LogJobs
      BY <1>11, <1>w DEF PoolReturn, LedgerBody, WorkerPhases
    <2>2. job.ptr \in Blocks /\ job.kind = "log" /\ job'.kind # "log"
      BY <1>11, <2>1 DEF LogJobs, PoolReturn, NoJob
    <2>3. UNCHANGED <<chan, Taken, minted>> /\ pool' = Append(pool, job.ptr)
      BY <1>11 DEF PoolReturn, wvars, Taken, Writing
    <2>4. /\ job.ptr \notin Taken /\ \A i \in 1 .. Len(pool) : pool[i] # job.ptr
          /\ \A k \in 1 .. Len(chan) : IsLog(k) => chan[k].ptr # job.ptr
          /\ job.ptr \in minted
      BY <1>0, <2>2 DEF Apart
    <2>5. minted' = minted \union {job.ptr}
      BY <2>3, <2>4
    <2>. QED BY <1>9, <2>2, <2>3, <2>4, <2>5
  <1>12. CASE StartJob
    <2>1. UNCHANGED <<Taken, minted, pool>> /\ chan' = Tail(chan) /\ chan # << >>
          /\ (job' = NoJob \/ job' = Head(chan))
      BY <1>12 DEF StartJob, wvars, pvars, Taken, Writing
    <2>2. /\ \A k \in 1 .. Len(chan') : chan'[k] = chan[k + 1] /\ k + 1 \in 1 .. Len(chan)
          /\ 1 \in 1 .. Len(chan) /\ Head(chan) = chan[1]
      BY <1>c, <2>1, TailSeq
    <2>3. \A k \in 1 .. Len(chan') : k + 1 # 1 /\ (IsLog(k)' <=> IsLog(k + 1))
      BY <2>2 DEF IsLog
    <2>4. \A k, m \in 1 .. Len(chan') : k + 1 = m + 1 => k = m
      OBVIOUS
    <2>5. \A k \in 1 .. Len(chan') : IsLog(k)' =>
            /\ chan'[k].ptr \in minted /\ chan'[k].ptr \notin Taken
            /\ \A i \in 1 .. Len(pool) : pool[i] # chan'[k].ptr
            /\ \A m \in 1 .. Len(chan') : IsLog(m)' /\ chan'[m].ptr = chan'[k].ptr => m = k
      BY <1>0, <2>2, <2>3, <2>4 DEF Apart
    <2>6. ASSUME job'.kind = "log"
          PROVE  /\ job'.ptr \in minted /\ job'.ptr \notin Taken
                 /\ \A i \in 1 .. Len(pool) : pool[i] # job'.ptr
                 /\ \A k \in 1 .. Len(chan') : IsLog(k)' => chan'[k].ptr # job'.ptr
      <3>1. NoJob.kind = "none"
        BY DEF NoJob
      <3>2. job' = chan[1] /\ IsLog(1)
        BY <2>1, <2>2, <2>6, <3>1 DEF IsLog
      <3>. QED BY <1>0, <2>2, <2>3, <3>2 DEF Apart
    <2>. QED BY <1>0, <2>1, <2>5, <2>6 DEF Apart
  <1>13. CASE AdvanceAnchor
    <2>1. UNCHANGED <<Taken, minted, pool, chan>> /\ (job' = job \/ job' = NoJob)
      BY <1>13 DEF AdvanceAnchor, wvars, pvars, Taken, Writing
    <2>2. NoJob.kind = "none"
      BY DEF NoJob
    <2>. QED BY <1>0, <2>1, <2>2 DEF Apart, IsLog
  <1>14. CASE TimerRead \/ ReadCheckpoint \/ LogAppend \/ ObjBlockPut \/ UNCHANGED vars
    <2>1. UNCHANGED <<Taken, minted, pool, chan, job>>
      BY <1>14 DEF TimerRead, ReadCheckpoint, LogAppend, ObjBlockPut, vars, wvars, pvars, fvars,
                   Taken, Writing
    <2>. QED BY <1>1, <2>1
  <1>15. CASE Crash
    <2>1. Taken' = {} /\ minted' = {} /\ Len(pool') = 0 /\ Len(chan') = 0 /\ job' = NoJob
      BY <1>15 DEF Crash, Taken, Writing
    <2>2. NoJob.kind = "none"
      BY DEF NoJob
    <2>. QED BY <2>1, <2>2 DEF Apart
  <1>. QED BY <1>2, <1>3, <1>4, <1>6, <1>7, <1>8, <1>10, <1>11, <1>12, <1>13, <1>14, <1>15, NextSplit

-----------------------------------------------------------------------------
(* The anchor *)

\* advance_anchor follows each commit, unless a crash comes between the two.
LEMMA AnchorStep ==
    ASSUME HotInv, [Next]_vars
    PROVE  AnchorBehind'
  <1>0. AnchorBehind
    BY DEF HotInv
  <1>t. /\ commits \in Seq(Commits) /\ anchor \in Seq(Commits) /\ crashes \in Nat
        /\ Len(commits) \in Nat /\ Len(anchor) \in Nat
    <2>1. commits \in Seq(Commits) /\ anchor \in Seq(Commits)
      BY DEF HotInv, JobTypes
    <2>2. crashes \in 0 .. MaxCrashes
      BY DEF HotInv, TypeOK
    <2>. QED BY <2>1, <2>2, LenProperties, Scalars
  <1>n. PICK n \in Nat, m \in Nat : n = Len(anchor) /\ m = Len(commits)
    BY <1>t
  <1>a. PICK at \in [1 .. n -> 1 .. m] :
            /\ \A i \in 1 .. n : anchor[i] = commits[at[i]]
            /\ \A i, k \in 1 .. n : i < k => at[i] < at[k]
            /\ fpc = "anchor" => \A i \in 1 .. n : at[i] < m
    BY <1>0, <1>n DEF AnchorBehind
  <1>b. m <= n + crashes + (IF fpc = "anchor" THEN 1 ELSE 0)
    BY <1>0, <1>n DEF AnchorBehind
  <1>w. PICK base \in Bases, last \in 0 .. MaxGen : LedgerBody(base, last)
    BY DEF HotInv, LedgerInv
  <1>1. ASSUME UNCHANGED <<anchor, commits>>, fpc' # "anchor",
               \/ fpc # "anchor" /\ crashes' = crashes
               \/ crashes' = crashes + 1
        PROVE  AnchorBehind'
    <2>1. m <= n + crashes' + 0
      BY <1>1, <1>b, <1>t
    <2>2. m <= n + crashes' + (IF fpc' = "anchor" THEN 1 ELSE 0)
      BY <1>1, <2>1
    <2>3. \E f \in [1 .. n -> 1 .. m] : /\ \A i \in 1 .. n : anchor[i] = commits[f[i]]
                                        /\ \A i, k \in 1 .. n : i < k => f[i] < f[k]
      BY <1>a
    <2>. QED BY <1>1, <1>n, <2>2, <2>3 DEF AnchorBehind
  <1>2. CASE UNCHANGED <<anchor, commits, crashes, fpc, job, data>>
    BY <1>0, <1>2 DEF AnchorBehind
  <1>3. CASE Mint \/ PoolTake \/ WriteByte \/ CommitCursor \/ Seal \/ TimerSend \/ ObjSend
             \/ TimerRead \/ PoolPut \/ UNCHANGED vars
    BY <1>2, <1>3
       DEF Mint, PoolTake, WriteByte, CommitCursor, Seal, TimerSend, ObjSend, TimerRead, PoolPut,
           vars, fvars, dvars
  <1>4. CASE StartJob
    <2>1. fpc = "idle" /\ UNCHANGED <<anchor, commits, crashes>>
      BY <1>4 DEF StartJob, dvars
    <2>2. fpc' # "anchor"
      BY <1>4 DEF StartJob, StartLog, StartCheckpoint, StartObj
    <2>. QED BY <1>1, <2>1, <2>2
  <1>5. CASE ReadCheckpoint \/ PoolReturn
    BY <1>1, <1>5 DEF ReadCheckpoint, PoolReturn, dvars
  <1>6. CASE Crash
    BY <1>1, <1>6 DEF Crash, dvars
  <1>7. ASSUME NEW c, c \in Commits, commits' = Append(commits, c), fpc # "anchor", fpc' = "anchor",
               UNCHANGED <<anchor, crashes>>,
               c = IF job'.kind = "obj" THEN ObjBlock(job'.block) ELSE Row(data')
        PROVE  AnchorBehind'
    <2>1. /\ Len(commits') = m + 1 /\ commits'[m + 1] = c
          /\ \A k \in 1 .. m : commits'[k] = commits[k]
      BY <1>7, <1>n, <1>t, AppendProperties
    <2>2. at \in [1 .. n -> 1 .. (m + 1)] /\ \A i \in 1 .. n : at[i] \in 1 .. m /\ at[i] < m + 1
      BY <1>a, <1>n
    <2>3. \A i \in 1 .. n : anchor[i] = commits'[at[i]]
      BY <1>a, <2>1, <2>2
    <2>4. \E f \in [1 .. Len(anchor') -> 1 .. Len(commits')] :
            /\ \A i \in 1 .. Len(anchor') : anchor'[i] = commits'[f[i]]
            /\ \A i, k \in 1 .. Len(anchor') : i < k => f[i] < f[k]
            /\ \A i \in 1 .. Len(anchor') : f[i] < Len(commits')
      <3>1. anchor' = anchor /\ Len(anchor') = n /\ Len(commits') = m + 1
        BY <1>7, <1>n, <2>1
      <3>2. at \in [1 .. Len(anchor') -> 1 .. Len(commits')]
        BY <2>2, <3>1
      <3>3. /\ \A i \in 1 .. Len(anchor') : anchor'[i] = commits'[at[i]]
            /\ \A i, k \in 1 .. Len(anchor') : i < k => at[i] < at[k]
            /\ \A i \in 1 .. Len(anchor') : at[i] < Len(commits')
        BY <1>a, <2>2, <2>3, <3>1
      <3>. QED BY ONLY <3>2, <3>3
    <2>5. Len(commits') > 0 /\ commits'[Len(commits')] = c
      BY <2>1, <1>n
    <2>6. Len(commits') <= Len(anchor') + crashes' + 1
      <3>1. m <= n + crashes + 0
        BY <1>7, <1>b
      <3>. QED BY <1>7, <1>n, <1>t, <2>1, <3>1
    <2>. QED BY <1>7, <2>4, <2>5, <2>6 DEF AnchorBehind
  <1>8. CASE LogAppend
    <2>1. job \in LogJobs \union CheckpointJobs
      BY <1>8, <1>w DEF LogAppend, LedgerBody, WorkerPhases
    <2>2. job.kind # "obj"
      BY <2>1 DEF LogJobs, CheckpointJobs
    <2>3. Row(data) \in Commits
      BY Scalars DEF Row, Commits, HotInv, JobTypes
    <2>4. /\ commits' = Append(commits, Row(data)) /\ fpc = "append" /\ fpc' = "anchor"
          /\ UNCHANGED <<anchor, crashes, job, data>>
      BY <1>8 DEF LogAppend
    <2>5. Row(data) = IF job'.kind = "obj" THEN ObjBlock(job'.block) ELSE Row(data')
      BY <2>2, <2>4 DEF Row
    <2>. QED BY <1>7, <2>3, <2>4, <2>5
  <1>9. CASE ObjBlockPut
    <2>1. job \in ObjJobs
      BY <1>9, <1>w DEF ObjBlockPut, LedgerBody, WorkerPhases
    <2>2. job.kind = "obj" /\ job.block \in 1 .. MaxObjs
      BY <2>1 DEF ObjJobs
    <2>3. ObjBlock(job.block) \in Commits
      BY <2>2, Numbers, EmptySeq DEF ObjBlock, Commits
    <2>4. /\ commits' = Append(commits, ObjBlock(job.block)) /\ fpc = "objput" /\ fpc' = "anchor"
          /\ UNCHANGED <<anchor, crashes, job, data>>
      BY <1>9 DEF ObjBlockPut
    <2>5. ObjBlock(job.block) = IF job'.kind = "obj" THEN ObjBlock(job'.block) ELSE Row(data')
      BY <2>2, <2>4 DEF ObjBlock
    <2>. QED BY <1>7, <2>3, <2>4, <2>5
  <1>10. CASE AdvanceAnchor
    <2>1. PICK e : e = IF job.kind = "obj" THEN ObjBlock(job.block) ELSE Row(data)
      OBVIOUS
    <2>2. fpc = "anchor" /\ fpc' # "anchor" /\ anchor' = Append(anchor, e)
          /\ UNCHANGED <<commits, crashes>>
      BY <1>10, <2>1 DEF AdvanceAnchor
    <2>3. m > 0 /\ commits[m] = e
      BY <1>0, <1>n, <2>1, <2>2 DEF AnchorBehind
    <2>4. e \in Commits
      <3>1. m \in 1 .. Len(commits)
        BY <1>n, <2>3
      <3>. QED BY <1>t, <2>3, <3>1, ElementOfSeq
    <2>5. /\ Len(anchor') = n + 1 /\ anchor'[n + 1] = e
          /\ \A k \in 1 .. n : anchor'[k] = anchor[k]
      BY <1>n, <1>t, <2>2, <2>4, AppendProperties
    <2>6. PICK f : f = [i \in 1 .. (n + 1) |-> IF i = n + 1 THEN m ELSE at[i]]
      OBVIOUS
    <2>7. /\ f[n + 1] = m
          /\ \A i \in 1 .. n : f[i] = at[i] /\ at[i] \in 1 .. m /\ at[i] < m
      <3>1. \A i \in 1 .. n : i \in 1 .. (n + 1) /\ i # n + 1
        BY <1>n
      <3>2. n + 1 \in 1 .. (n + 1)
        BY <1>n
      <3>. QED BY <1>a, <2>2, <2>6, <3>1, <3>2
    <2>8. \A i \in 1 .. (n + 1) : i \in 1 .. n \/ i = n + 1
      BY <1>n
    <2>9. f \in [1 .. (n + 1) -> 1 .. m]
      <3>1. \A i \in 1 .. (n + 1) : f[i] \in 1 .. m
        <4>1. m \in 1 .. m
          BY <2>3
        <4>. QED BY <2>7, <2>8, <4>1
      <3>. QED BY <2>6, <3>1
    <2>10. \A i \in 1 .. (n + 1) : anchor'[i] = commits[f[i]]
      BY <1>a, <2>3, <2>5, <2>7, <2>8
    <2>11. ASSUME NEW i \in 1 .. (n + 1), NEW k \in 1 .. (n + 1), i < k PROVE f[i] < f[k]
      <3>1. i \in 1 .. n
        BY <1>n, <2>11
      <3>2. CASE k \in 1 .. n
        BY <1>a, <2>7, <2>11, <3>1, <3>2
      <3>3. CASE k = n + 1
        BY <2>7, <3>1, <3>3
      <3>. QED BY <2>8, <3>2, <3>3
    <2>12. \E h \in [1 .. Len(anchor') -> 1 .. Len(commits')] :
            /\ \A i \in 1 .. Len(anchor') : anchor'[i] = commits'[h[i]]
            /\ \A i, k \in 1 .. Len(anchor') : i < k => h[i] < h[k]
      BY <1>n, <2>2, <2>5, <2>9, <2>10, <2>11
    <2>13. Len(commits') <= Len(anchor') + crashes' + 0
      <3>1. m <= n + crashes + 1
        BY <1>b, <2>2
      <3>. QED BY <1>n, <1>t, <2>2, <2>5, <3>1
    <2>. QED BY <2>2, <2>12, <2>13 DEF AnchorBehind
  <1>. QED BY <1>3, <1>4, <1>5, <1>6, <1>8, <1>9, <1>10, NextSplit

-----------------------------------------------------------------------------
(* The invariant *)

\* A process starts with zeroed registers, nothing in the channel and nothing
\* in the log.
LEMMA HotInit ==
    ASSUME Init
    PROVE  HotInv
  <1>0. /\ Capacity \in Nat /\ MaxBytes \in Nat /\ MaxGen \in Nat /\ MaxObjs \in Nat
        /\ MaxCrashes \in Nat
    BY HotBlockAssumption
  <1>1. /\ reg.gen = 0 /\ active.gen = 0 /\ active.cursor = 0
        /\ watermark.gen = 0 /\ watermark.bytes = 0
    BY DEF Init, NoTriple
  <1>2. /\ Len(chan) = 0 /\ Len(pool) = 0 /\ Len(ledger) = 0 /\ Len(commits) = 0 /\ Len(anchor) = 0
        /\ wpc = "take" /\ fpc = "idle" /\ job = NoJob /\ snap = << >> /\ todo = {}
        /\ written = 0 /\ crashes = 0 /\ minted = {}
    BY DEF Init
  <1>3. TypeOK
    <2>1. mem \in [Blocks -> [1 .. Capacity -> 0 .. MaxBytes]]
      BY <1>0 DEF Init, Blank
    <2>2. reg \in Triples /\ active \in Triples
      BY <1>0 DEF Init, NoTriple, Triples
    <2>3. pool \in Seq(Blocks) /\ ledger \in Seq(0 .. MaxBytes)
      BY EmptySeq DEF Init
    <2>4. watermark \in [gen : 0 .. MaxGen, bytes : 0 .. Capacity]
      BY <1>0 DEF Init
    <2>. QED BY <1>0, <2>1, <2>2, <2>3, <2>4 DEF Init, TypeOK
  <1>4. JobTypes
    BY EmptySeq DEF Init, JobTypes
  <1>5. WriterPhases
    <2>1. active.gen <= reg.gen
      BY <1>1
    <2>2. ~pooled => snap = << >> /\ pool = << >>
                     /\ \A k \in 1 .. Len(chan) : chan[k].kind # "checkpoint"
      BY <1>2 DEF Init
    <2>. QED BY <1>2, <2>1, <2>2 DEF WriterPhases, Writing
  <1>6. LedgerInv
    <2>1. PICK base : base = [g \in 1 .. (MaxGen + 1) |-> 0]
      OBVIOUS
    <2>2. base \in Bases /\ base[1] = 0
      BY <1>0, <2>1 DEF Bases
    <2>3. Sealed = 0 /\ Open = 1 /\ Shown = 0 /\ Filled = 0 /\ ~Writing
      BY <1>1, <1>2 DEF Sealed, Open, Shown, Filled, Writing
    <2>4. LogsQueued(0)
      BY <1>2, <2>3 DEF LogsQueued
    <2>5. BytesPlaced(base)
      BY <1>2, <2>2, <2>3 DEF BytesPlaced
    <2>6. BlocksKept(base)
      BY <1>2 DEF BlocksKept
    <2>7. CheckpointsKnown(base, 0)
      <3>1. Known(base, 0, active.gen, active.ptr, active.cursor)
        BY <1>1, <2>3 DEF Known
      <3>. QED BY <1>2, <3>1 DEF CheckpointsKnown
    <2>8. WatermarkPlaced(base, 0)
      BY <1>1 DEF WatermarkPlaced
    <2>9. LedgerPlaced(base, 0)
      <3>1. InFlight = 0
        BY <1>2 DEF InFlight
      <3>. QED BY <1>1, <1>2, <2>2, <3>1 DEF LedgerPlaced
    <2>10. WorkerPhases(base, 0)
      BY <1>2 DEF WorkerPhases
    <2>11. LedgerBody(base, 0)
      BY <2>4, <2>5, <2>6, <2>7, <2>8, <2>9, <2>10 DEF LedgerBody
    <2>. QED BY <1>0, <2>2, <2>11 DEF LedgerInv
  <1>7. LedgerExact
    BY <1>2 DEF LedgerExact
  <1>8. BlocksOwned
    <2>1. Taken = {} /\ job.kind # "log"
      BY <1>2 DEF Taken, Writing, NoJob
    <2>. QED BY <1>2, <2>1 DEF BlocksOwned
  <1>9. FreeBlocksAreIdle
    BY <1>2 DEF FreeBlocksAreIdle
  <1>10. AnchorBehind
    <2>1. [i \in 1 .. 0 |-> 1] \in [1 .. 0 -> 1 .. 0]
      OBVIOUS
    <2>2. \E at \in [1 .. 0 -> 1 .. 0] :
            /\ \A i \in 1 .. 0 : anchor[i] = commits[at[i]]
            /\ \A i, k \in 1 .. 0 : i < k => at[i] < at[k]
      <3>1. \A i \in 1 .. 0 : FALSE
        OBVIOUS
      <3>. QED BY <2>1, <3>1
    <2>3. Len(commits) <= Len(anchor) + crashes + 0
      BY <1>2
    <2>. QED BY <1>2, <2>2, <2>3 DEF AnchorBehind
  <1>. QED BY <1>3, <1>4, <1>5, <1>6, <1>7, <1>8, <1>9, <1>10 DEF HotInv

\* The whole invariant holds at every moment of the write path: the writer's
\* registers, the pool, the channel, the flush worker and the anchor agree.
THEOREM HotInvariant == Spec => []HotInv
  <1>1. Init => HotInv
    BY HotInit
  <1>2. HotInv /\ [Next]_vars => HotInv'
    <2>1. SUFFICES ASSUME HotInv, [Next]_vars PROVE HotInv'
      OBVIOUS
    <2>2. TypeOK' /\ JobTypes'
      BY <2>1, TypesStep DEF Types
    <2>3. WriterPhases'
      BY <2>1, PhasesStep
    <2>4. LedgerInv' /\ LedgerExact'
      BY <2>1, LedgerStep, ExactStep
    <2>5. pooled' = pooled
      BY <2>1, NextSplit
         DEF Mint, PoolTake, WriteByte, CommitCursor, Seal, TimerSend, ObjSend, TimerRead, PoolPut,
             StartJob, ReadCheckpoint, LogAppend, ObjBlockPut, AdvanceAnchor, PoolReturn, Crash,
             pvars, vars
    <2>6. BlocksOwned' /\ FreeBlocksAreIdle'
      <3>1. CASE pooled
        <4>1. Apart'
          BY <2>1, <3>1, ApartStep
        <4>2. pooled'
          BY <2>5, <3>1
        <4>3. (pooled => (BlocksOwned /\ FreeBlocksAreIdle <=> Apart))'
          BY ApartIs, PTL
        <4>. QED BY <4>1, <4>2, <4>3
      <3>2. CASE ~pooled
        <4>1. Len(pool') = 0
          BY <2>3, <2>5, <3>2, EmptySeq DEF WriterPhases
        <4>2. BlocksOwned'
          BY <2>5, <3>2 DEF BlocksOwned
        <4>3. FreeBlocksAreIdle'
          BY <4>1 DEF FreeBlocksAreIdle
        <4>. QED BY <4>2, <4>3
      <3>. QED BY <3>1, <3>2
    <2>7. AnchorBehind'
      BY <2>1, AnchorStep
    <2>. QED BY <2>2, <2>3, <2>4, <2>6, <2>7 DEF HotInv
  <1>. QED BY <1>1, <1>2, PTL DEF Spec

\* With nothing left to flush, what the log lacks is in the active block.
LEMMA DrainedFacts ==
    ASSUME HotInv, chan = << >>, fpc = "idle", wpc = "ready"
    PROVE  Len(ledger) + reg.cursor >= written
  <1>1. PICK base \in Bases, last \in 0 .. MaxGen : LedgerBody(base, last)
    BY DEF HotInv, LedgerInv
  <1>2. /\ base[last + 1] \in Nat /\ last \in Nat /\ last <= Sealed /\ Sealed \in Nat
        /\ MaxGen \in Nat
    BY <1>1, OpenPlace
  <1>3. last = Sealed
    <2>1. ASSUME last < Sealed PROVE FALSE
      <3>1. Sealed \in 0 .. MaxGen
        BY WriterFacts
      <3>2. Sealed \in 1 .. MaxGen /\ Sealed <= Sealed
        BY <1>2, <2>1, <3>1
      <3>3. Len(chan) = 0
        OBVIOUS
      <3>4. \E k \in 1 .. Len(chan) : IsLog(k) /\ chan[k].gen = Sealed
        BY <1>1, <2>1, <3>2 DEF LedgerBody, LogsQueued
      <3>. QED BY <3>3, <3>4
    <2>. QED BY <1>2, <2>1
  <1>4. Open = last + 1
    BY <1>3, WriterFacts
  <1>5. written = base[last + 1] + reg.cursor
    <2>1. written = base[Open] + Filled
      BY <1>1 DEF LedgerBody, BytesPlaced
    <2>2. Filled = reg.cursor
      BY DEF Filled, Shown, Writing
    <2>. QED BY <1>4, <2>1, <2>2
  <1>6. PICK from : from = IF pooled /\ watermark.gen = last + 1 THEN watermark.bytes ELSE 0
    OBVIOUS
  <1>7. Len(ledger) = base[last + 1] + from /\ from \in Nat
    BY <1>1, <1>6, IdleLedger
  <1>8. reg.cursor \in Nat
    BY Scalars
  <1>. QED BY ONLY <1>2, <1>5, <1>7, <1>8

\* Whatever the interleaving of the writer, the timer, the allocator and the
\* flush worker, and wherever crashes fall: block_flush commits exactly what the
\* writer wrote, frees no block in use, keeps the anchor behind the commits and
\* strands nothing.
THEOREM WritePathSafe == Spec => []WritePathInv
  <1>1. HotInv => WritePathInv
    <2>1. SUFFICES ASSUME HotInv PROVE WritePathInv
      OBVIOUS
    <2>2. TypeOK /\ LedgerExact /\ FreeBlocksAreIdle
      BY <2>1 DEF HotInv
    <2>3. AnchorFollowsCommits
      BY <2>1 DEF HotInv, AnchorBehind, AnchorFollowsCommits
    <2>4. DrainedMeansDurable
      BY <2>1, DrainedFacts DEF DrainedMeansDurable
    <2>. QED BY <2>2, <2>3, <2>4 DEF WritePathInv
  <1>. QED BY <1>1, HotInvariant, PTL
=============================================================================
