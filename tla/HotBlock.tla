------------------------------ MODULE HotBlock ------------------------------
(***************************************************************************)
(* The log's write path: the writer's hot-block registers                  *)
(* (runtime/hotblk.rs), the pool of arena blocks (runtime/hotblk_pool.rs)  *)
(* and the flush worker that commits sealed blocks and timer checkpoints,  *)
(* and advances the anchor (runtime/block_flush.rs, runtime/pg_store.rs).  *)
(*                                                                         *)
(* The M1 programs that drive them are outside the repository: the writer  *)
(* (gcore_serve), the timer (gcore_timer), the allocator and the object    *)
(* producer are modelled from how these files say they call them.          *)
(*                                                                         *)
(* A byte is named by the place in the log it ought to get, so the log is  *)
(* right when it reads 1, 2, 3, ...  The anchor hash is the sequence of    *)
(* the blocks it was computed from.                                        *)
(***************************************************************************)
EXTENDS Naturals, Sequences

CONSTANTS
    Blocks,     \* arena addresses; addresses recur when a block is reused
    NoBlock,    \* ptr = 0, "no live block"
    Capacity,   \* bytes a block holds
    PoolDepth,  \* AXVERITY_SLICE4_POOL_DEPTH
    MaxBytes,   \* bound: bytes written
    MaxObjs,    \* bound: object blocks flushed
    MaxGen,     \* bound: blocks the writer goes through in one process
    MaxChan,    \* bound: jobs in the channel before the timer waits its turn
    MaxCrashes  \* bound: crashes

ASSUME HotBlockAssumption ==
    /\ NoBlock \notin Blocks
    /\ {Capacity, PoolDepth, MaxBytes, MaxObjs, MaxGen, MaxChan, MaxCrashes} \subseteq Nat
    /\ Capacity > 0 /\ PoolDepth > 0

VARIABLES
    mem,        \* arena memory: block -> offset -> byte
    reg,        \* HOTBLK slots 0, 3 and 7: ptr, cursor, generation
    active,     \* ACTIVE_BLOCK, the triple hotblk_set publishes
    wpc, fresh, todo,   \* writer: position, block taken, slots left to set
    written,    \* bytes written by the writer
    snap,       \* timer: the triple it read, << >> when it has none
    pooled,     \* whether the writer names a pool shard in its jobs
    pool, minted,       \* the shard's queue; blocks the allocator has reserved
    chan,       \* "hotmem-frame": jobs sent and not yet handled
    objs,       \* object blocks sent
    watermark,  \* CHECKPOINT_WATERMARK
    fpc, job, data,     \* flush worker: position, its job, bytes to commit
    ledger,     \* gcore_log as pg_log_scan reads it
    commits,    \* everything made durable, in order: log rows, object blocks
    anchor,     \* gcore_anchor
    crashes

wvars == <<mem, reg, active, wpc, fresh, todo, written>>
tvars == <<snap, objs>>
pvars == <<pooled, pool, minted>>
fvars == <<watermark, fpc, job, data>>
dvars == <<ledger, commits, anchor>>
vars == <<wvars, tvars, pvars, chan, fvars, dvars, crashes>>

Blank == [o \in 1 .. Capacity |-> 0]

NoJob == [kind |-> "none"]

NoTriple == [ptr |-> NoBlock, cursor |-> 0, gen |-> 0]

\* A process starts with zeroed registers, an empty pool and no jobs.
Init ==
    /\ mem = [b \in Blocks |-> Blank]
    /\ reg = NoTriple /\ active = NoTriple
    /\ wpc = "take" /\ fresh = NoBlock /\ todo = {}
    /\ snap = << >>
    /\ pooled \in BOOLEAN /\ pool = << >> /\ minted = {}
    /\ chan = << >>
    /\ watermark = [gen |-> 0, bytes |-> 0]
    /\ fpc = "idle" /\ job = NoJob /\ data = << >>
    /\ written = 0 /\ objs = 0 /\ crashes = 0
    /\ ledger = << >> /\ commits = << >> /\ anchor = << >>

-----------------------------------------------------------------------------
(* hotblk_set: slot 0 bumps the generation and publishes cursor 0, slot 3  *)
(* republishes; no other slot is published.                                *)

SetPtr(p) ==
    /\ reg' = [reg EXCEPT !.ptr = p, !.gen = @ + 1]
    /\ active' = [ptr |-> p, cursor |-> 0, gen |-> reg.gen + 1]

SetCursor(c) ==
    /\ reg' = [reg EXCEPT !.cursor = c]
    /\ active' = [ptr |-> reg.ptr, cursor |-> c, gen |-> reg.gen]

-----------------------------------------------------------------------------
(* hotblk_pool *)

\* pool_put: the allocator waits while the queue is at its depth
PoolPut ==
    /\ pooled /\ Len(pool) < PoolDepth
    /\ \E b \in Blocks \ minted :
        /\ pool' = Append(pool, b)
        /\ minted' = minted \union {b}
    /\ UNCHANGED <<pooled, wvars, tvars, chan, fvars, dvars, crashes>>

\* pool_take: the writer waits while the queue is empty.  Without a pool the
\* seal has freed the old block and a new one is reserved inline.
PoolTake ==
    /\ wpc = "take" /\ reg.gen < MaxGen
    /\ \/ /\ pooled /\ pool # << >>
          /\ fresh' = Head(pool)
          /\ pool' = Tail(pool)
       \/ /\ ~pooled
          /\ fresh' \in Blocks
          /\ UNCHANGED pool
    /\ wpc' = "mint" /\ todo' = {"ptr", "cursor"}
    /\ UNCHANGED <<mem, reg, active, written, tvars, pooled, minted, chan, fvars, dvars, crashes>>

\* pool_return never waits
PoolReturn ==
    /\ fpc = "return"
    /\ pool' = Append(pool, job.ptr)
    /\ fpc' = "idle" /\ job' = NoJob /\ data' = << >>
    /\ UNCHANGED <<wvars, tvars, pooled, minted, chan, watermark, dvars, crashes>>

-----------------------------------------------------------------------------
(* The writer *)

\* The registers of a new block are set one slot at a time, in either order.
Mint ==
    /\ wpc = "mint"
    /\ \/ "ptr" \in todo /\ SetPtr(fresh) /\ todo' = todo \ {"ptr"}
       \/ "cursor" \in todo /\ SetCursor(0) /\ todo' = todo \ {"cursor"}
    /\ wpc' = IF todo' = {} THEN "ready" ELSE "mint"
    /\ fresh' = IF todo' = {} THEN NoBlock ELSE fresh
    /\ UNCHANGED <<mem, written, tvars, pvars, chan, fvars, dvars, crashes>>

\* mem_write_raw at the cursor
WriteByte ==
    /\ wpc = "ready" /\ reg.cursor < Capacity /\ written < MaxBytes
    /\ mem' = [mem EXCEPT ![reg.ptr][reg.cursor + 1] = written + 1]
    /\ written' = written + 1
    /\ wpc' = "wrote"
    /\ UNCHANGED <<reg, active, fresh, todo, tvars, pvars, chan, fvars, dvars, crashes>>

\* hotblk_set(3, cursor) after the write
CommitCursor ==
    /\ wpc = "wrote"
    /\ SetCursor(reg.cursor + 1)
    /\ wpc' = "ready"
    /\ UNCHANGED <<mem, fresh, todo, written, tvars, pvars, chan, fvars, dvars, crashes>>

\* The seal copies the block and sends it with its generation (slot 7).
Seal ==
    /\ wpc = "ready" /\ reg.cursor > 0
    /\ chan' = Append(chan, [kind |-> "log", ptr |-> reg.ptr, gen |-> reg.gen,
                             bytes |-> SubSeq(mem[reg.ptr], 1, reg.cursor)])
    /\ wpc' = "take"
    /\ UNCHANGED <<mem, reg, active, fresh, todo, written, tvars, pvars, fvars, dvars, crashes>>

-----------------------------------------------------------------------------
(* The timer and the object producer *)

\* hotblk_active_block
TimerRead ==
    /\ pooled /\ snap = << >> /\ active.ptr # NoBlock
    /\ snap' = <<active>>
    /\ UNCHANGED <<wvars, objs, pvars, chan, fvars, dvars, crashes>>

TimerSend ==
    /\ snap # << >> /\ Len(chan) < MaxChan
    /\ chan' = Append(chan, [kind |-> "checkpoint", gen |-> snap[1].gen,
                             ptr |-> snap[1].ptr, to |-> snap[1].cursor])
    /\ snap' = << >>
    /\ UNCHANGED <<wvars, objs, pvars, fvars, dvars, crashes>>

ObjSend ==
    /\ objs < MaxObjs
    /\ chan' = Append(chan, [kind |-> "obj", block |-> objs + 1])
    /\ objs' = objs + 1
    /\ UNCHANGED <<wvars, snap, pvars, fvars, dvars, crashes>>

-----------------------------------------------------------------------------
(* The flush worker: block_flush_write handles the drained jobs in order *)

\* advance_watermark(generation, to): where to commit from, or Stale
Stale == MaxBytes + 1

\* Slip: the watermark is compared without its generation.
AdvanceAnyGeneration(g, to) ==
    IF to <= watermark.bytes THEN Stale ELSE watermark.bytes

AdvanceFrom(g, to) ==
    LET from == IF g = watermark.gen THEN watermark.bytes ELSE 0
    IN  IF g < watermark.gen \/ to <= from THEN Stale ELSE from

AdvanceMark(g, to) ==
    IF AdvanceFrom(g, to) # Stale THEN [gen |-> g, bytes |-> to]
    ELSE IF g > watermark.gen     THEN [gen |-> g, bytes |-> 0]
    ELSE watermark

\* commit_job, LOG: cut off what a checkpoint of this generation has committed
StartLog ==
    /\ Head(chan).kind = "log"
    /\ LET j == Head(chan)
           to == Len(j.bytes)
           from == IF pooled THEN AdvanceFrom(j.gen, to) ELSE 0
           rest == IF from = Stale THEN << >> ELSE SubSeq(j.bytes, from + 1, to)
       IN  /\ watermark' = IF pooled THEN AdvanceMark(j.gen, to) ELSE watermark
           /\ data' = rest
           /\ fpc' = IF rest # << >> THEN "append" ELSE IF pooled THEN "return" ELSE "idle"

\* Slip: only the first checkpoint of a generation is committed.
CheckpointOncePerBlock ==
    /\ Head(chan).kind = "checkpoint"
    /\ LET j == Head(chan)
           from == IF j.gen = watermark.gen THEN Stale ELSE AdvanceFrom(j.gen, j.to)
       IN  /\ watermark' = AdvanceMark(j.gen, IF from = Stale THEN 0 ELSE j.to)
           /\ data' = IF from = Stale THEN << >> ELSE <<from>>
           /\ fpc' = IF from = Stale THEN "idle" ELSE "read"

\* commit_job, CHECKPOINT: stale and redundant ones are dropped
StartCheckpoint ==
    /\ Head(chan).kind = "checkpoint"
    /\ LET j == Head(chan)
           from == AdvanceFrom(j.gen, j.to)
       IN  /\ watermark' = AdvanceMark(j.gen, j.to)
           /\ data' = IF from = Stale THEN << >> ELSE <<from>>
           /\ fpc' = IF from = Stale THEN "idle" ELSE "read"

StartObj ==
    /\ Head(chan).kind = "obj"
    /\ data' = << >> /\ fpc' = "objput"
    /\ UNCHANGED watermark

StartJob ==
    /\ fpc = "idle" /\ chan # << >>
    /\ chan' = Tail(chan)
    /\ StartLog \/ StartCheckpoint \/ StartObj
    /\ job' = IF fpc' = "idle" THEN NoJob ELSE Head(chan)
    /\ UNCHANGED <<wvars, tvars, pvars, dvars, crashes>>

\* mem_read_raw(ptr, from, to - from) on the live arena
ReadCheckpoint ==
    /\ fpc = "read"
    /\ data' = SubSeq(mem[job.ptr], data[1] + 1, job.to)
    /\ fpc' = "append"
    /\ UNCHANGED <<wvars, tvars, pvars, chan, watermark, job, dvars, crashes>>

\* What one commit makes durable: the bytes of a log row, or an object block.
Row(bytes) == [obj |-> 0, bytes |-> bytes]

ObjBlock(n) == [obj |-> n, bytes |-> << >>]

\* pg_log_append
LogAppend ==
    /\ fpc = "append"
    /\ ledger' = ledger \o data
    /\ commits' = Append(commits, Row(data))
    /\ fpc' = "anchor"
    /\ UNCHANGED <<wvars, tvars, pvars, chan, watermark, job, data, anchor, crashes>>

\* pg_obj_block_put
ObjBlockPut ==
    /\ fpc = "objput"
    /\ commits' = Append(commits, ObjBlock(job.block))
    /\ fpc' = "anchor"
    /\ UNCHANGED <<wvars, tvars, pvars, chan, watermark, job, data, ledger, anchor, crashes>>

\* advance_anchor over the bytes that were just committed
AdvanceAnchor ==
    /\ fpc = "anchor"
    /\ anchor' = Append(anchor, IF job.kind = "obj" THEN ObjBlock(job.block) ELSE Row(data))
    /\ data' = << >>
    /\ \/ job.kind = "log" /\ pooled /\ fpc' = "return" /\ UNCHANGED job
       \/ ~(job.kind = "log" /\ pooled) /\ fpc' = "idle" /\ job' = NoJob
    /\ UNCHANGED <<wvars, tvars, pvars, chan, watermark, ledger, commits, crashes>>

Flush == StartJob \/ ReadCheckpoint \/ LogAppend \/ ObjBlockPut \/ AdvanceAnchor \/ PoolReturn

-----------------------------------------------------------------------------
\* The process dies and starts again; what postgres holds survives.  The next
\* byte written ought to follow the last one in the log.
Crash ==
    /\ crashes < MaxCrashes
    /\ crashes' = crashes + 1
    /\ mem' = [b \in Blocks |-> Blank]
    /\ reg' = NoTriple /\ active' = NoTriple
    /\ wpc' = "take" /\ fresh' = NoBlock /\ todo' = {}
    /\ snap' = << >>
    /\ pool' = << >> /\ minted' = {}
    /\ chan' = << >>
    /\ watermark' = [gen |-> 0, bytes |-> 0]
    /\ fpc' = "idle" /\ job' = NoJob /\ data' = << >>
    /\ written' = Len(ledger)
    /\ UNCHANGED <<pooled, objs, dvars>>

Write == Mint \/ PoolTake \/ WriteByte \/ CommitCursor \/ Seal

Next == Write \/ PoolPut \/ TimerRead \/ TimerSend \/ ObjSend \/ Flush \/ Crash

Spec == Init /\ [][Next]_vars

\* The writer finishes what it began, the allocator and the timer loop for
\* ever, and the flush worker drains its channel; nobody has to write or seal.
Fairness ==
    /\ WF_vars(Mint) /\ WF_vars(PoolTake) /\ WF_vars(CommitCursor)
    /\ WF_vars(PoolPut)
    /\ WF_vars(TimerRead) /\ WF_vars(TimerSend)
    /\ WF_vars(Flush)

FairSpec == Spec /\ Fairness

-----------------------------------------------------------------------------
Bytes == 1 .. MaxBytes

Triples == [ptr : Blocks \union {NoBlock}, cursor : 0 .. Capacity, gen : 0 .. MaxGen]

\* Every variable holds a value of its type.
TypeOK ==
    /\ mem \in [Blocks -> [1 .. Capacity -> 0 .. MaxBytes]]
    /\ reg \in Triples /\ active \in Triples
    /\ wpc \in {"take", "mint", "ready", "wrote"}
    /\ fresh \in Blocks \union {NoBlock}
    /\ todo \in SUBSET {"ptr", "cursor"}
    /\ written \in 0 .. MaxBytes /\ objs \in 0 .. MaxObjs /\ crashes \in 0 .. MaxCrashes
    /\ snap \in {<< >>} \union {<<t>> : t \in Triples}
    /\ pooled \in BOOLEAN /\ pool \in Seq(Blocks) /\ minted \in SUBSET Blocks
    /\ watermark \in [gen : 0 .. MaxGen, bytes : 0 .. Capacity]
    /\ fpc \in {"idle", "read", "append", "objput", "anchor", "return"}
    /\ ledger \in Seq(0 .. MaxBytes)

\* The log is exactly what was written: whichever of seal and checkpoint gets
\* there first, no byte is committed twice, skipped, out of order, or read
\* from a block that has been given to another generation.
LedgerExact == \A i \in 1 .. Len(ledger) : ledger[i] = i

\* The free-marker protocol: a block that is free for the next mint is neither
\* the active one nor one whose flush is still to come.
FreeBlocksAreIdle ==
    \A i \in 1 .. Len(pool) :
        /\ wpc \in {"ready", "wrote"} => reg.ptr # pool[i]
        /\ wpc = "mint" => fresh # pool[i]
        /\ \A k \in 1 .. Len(chan) : chan[k].kind = "log" => chan[k].ptr # pool[i]
        /\ \A k \in 1 .. Len(pool) : pool[k] = pool[i] => k = i

\* The anchor never runs ahead of durable storage, follows the commit order,
\* and lacks at most the commit in progress and one commit per crash.
AnchorFollowsCommits ==
    /\ \E at \in [1 .. Len(anchor) -> 1 .. Len(commits)] :
        /\ \A i \in 1 .. Len(anchor) : anchor[i] = commits[at[i]]
        /\ \A i, k \in 1 .. Len(anchor) : i < k => at[i] < at[k]
    /\ Len(commits) <= Len(anchor) + crashes + (IF fpc = "anchor" THEN 1 ELSE 0)

\* Sealed bytes are never stranded: with the channel drained and the worker
\* idle, only bytes of the active block can be missing from the log.
DrainedMeansDurable ==
    (chan = << >> /\ fpc = "idle" /\ wpc = "ready") => Len(ledger) + reg.cursor >= written

\* With the timer every byte written becomes durable, through a seal or through
\* a checkpoint, unless the process crashes first.
EveryByteDurable ==
    \A k \in Bytes : (pooled /\ written >= k) ~> (Len(ledger) >= k \/ written < k)

\* What the write path promises at every moment: block_flush commits exactly
\* what the writer wrote, frees no block in use, keeps the anchor behind the
\* commits and strands nothing.
WritePathInv ==
    /\ TypeOK
    /\ LedgerExact
    /\ FreeBlocksAreIdle
    /\ AnchorFollowsCommits
    /\ DrainedMeansDurable
=============================================================================
