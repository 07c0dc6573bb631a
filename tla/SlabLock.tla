------------------------------ MODULE SlabLock ------------------------------
(***************************************************************************)
(* The SLA-tiered block writer (runtime/slablock.rs): appends go into a    *)
(* growing .part file, a tick fsyncs every block with unflushed bytes, and *)
(* a full block is sealed by renaming it.  One writer owns a directory; it *)
(* may die anywhere and another process reopens the directory.             *)
(*                                                                         *)
(* A byte is the number of the record it belongs to, so the content of a   *)
(* file stands for its hash.  A directory maps names to inodes; ddir is    *)
(* what of it has been fsynced.  A tick inside the SLA window changes      *)
(* nothing but a counter and is a stutter; so are slab_stats and           *)
(* slab_sealed.                                                            *)
(***************************************************************************)
EXTENDS Naturals, Sequences, FiniteSetsExt

CONSTANTS
    BlockBytes, \* block_bytes
    MaxSize,    \* largest record
    NoBlock,    \* no active block
    MaxRecs,    \* bound: appends
    MaxDeaths  \* bound: deaths

ASSUME SlabAssumption ==
    /\ BlockBytes \in Nat \ {0} /\ {MaxSize, MaxRecs, MaxDeaths} \subseteq Nat
    /\ NoBlock \notin Nat

Seqs == 0 .. MaxRecs

\* block-<seq>.bin.part and block-<seq>.bin
Names == [seq : Seqs, as : {"part", "sealed"}]

Part(s) == [seq |-> s, as |-> "part"]
Sealed(s) == [seq |-> s, as |-> "sealed"]

VARIABLES
    inodes,     \* sequence of files: data and how much of it is fsynced
    dir, ddir,  \* name -> inode or 0, as seen and as durable
    slabPc, sealing,    \* position, and whether it is slab_seal or slab_tick
    nextSeq, active, pending,   \* Slab.next_seq, active, full_pending
    blockOf,    \* seq -> Block: inode, len, unflushed, dir_synced
    pos,        \* auxiliary: record -> seq, offset slab_append answered, size
    born,       \* auxiliary: records appended by processes now dead
    ticked,     \* auxiliary: records of this life a finished sweep has covered
    published,  \* auxiliary: records of blocks whose seal has returned
    deaths

fvars == <<inodes, dir, ddir>>
svars == <<nextSeq, active, pending, blockOf>>
avars == <<pos, born, ticked, published>>
slabVars == <<fvars, slabPc, sealing, svars, avars, deaths>>

NoData == [inode |-> 0, len |-> 0, unflushed |-> 0, dirSynced |-> FALSE]

SlabInit ==
    /\ inodes = << >> /\ dir = [n \in Names |-> 0] /\ ddir = dir
    /\ slabPc = "closed" /\ sealing = FALSE
    /\ nextSeq = 0 /\ active = NoBlock /\ pending = << >>
    /\ blockOf = [s \in Seqs |-> NoData]
    /\ pos = << >> /\ born = 0 /\ ticked = {} /\ published = {} /\ deaths = 0

-----------------------------------------------------------------------------
(* slab_open *)

SealedSeqs(d) == {s \in Seqs : d[Sealed(s)] # 0}

\* A writer that has nothing in hand, or is gone, may be followed by another.
Quiet == slabPc = "closed" \/ (slabPc = "idle" /\ active = NoBlock /\ pending = << >>)

\* Resume behind the highest sealed block; a .part does not count.
SlabOpen ==
    /\ Quiet
    /\ slabPc' = "idle"
    /\ nextSeq' = IF SealedSeqs(dir) = {} THEN 0 ELSE Max(SealedSeqs(dir)) + 1
    /\ UNCHANGED <<fvars, sealing, active, pending, blockOf, avars, deaths>>

-----------------------------------------------------------------------------
(* slab_append *)

\* mint_block: remove what a dead writer left, create the file
MintBlock(s) ==
    LET i == Len(inodes) + 1
    IN  [inode |-> i, inodes |-> Append(inodes, [data |-> << >>, synced |-> 0]),
         dir |-> [dir EXCEPT ![Part(s)] = i]]

NeedsRotation(size) ==
    active # NoBlock /\ blockOf[active].len > 0 /\ blockOf[active].len + size > BlockBytes

\* file.write_all at the end of the file; len and unflushed grow
WriteAll(s, b, files, size) ==
    LET r == Len(pos) + 1
    IN  /\ inodes' = [files EXCEPT ![b.inode].data = @ \o [k \in 1 .. size |-> r]]
        /\ blockOf' = [blockOf EXCEPT ![s] = [b EXCEPT !.len = @ + size, !.unflushed = @ + size]]
        /\ pos' = Append(pos, [seq |-> s, off |-> b.len, size |-> size])

SlabAppend(size) ==
    /\ slabPc = "idle" /\ Len(pos) < MaxRecs
    /\ pending' = IF NeedsRotation(size) THEN Append(pending, active) ELSE pending
    /\ IF active = NoBlock \/ NeedsRotation(size)
       THEN LET m == MintBlock(nextSeq)
            IN  /\ WriteAll(nextSeq, [NoData EXCEPT !.inode = m.inode], m.inodes, size)
                /\ dir' = m.dir /\ active' = nextSeq /\ nextSeq' = nextSeq + 1
       ELSE /\ WriteAll(active, blockOf[active], inodes, size)
            /\ UNCHANGED <<dir, active, nextSeq>>
    /\ UNCHANGED <<ddir, slabPc, sealing, born, ticked, published, deaths>>

\* A range larger than a block is refused; a record is not.
SlabAppendRaw(size) == size <= BlockBytes /\ SlabAppend(size)

-----------------------------------------------------------------------------
(* slab_tick past its gate, and slab_seal *)

SlabTick ==
    /\ slabPc = "idle"
    /\ slabPc' = "sweep" /\ sealing' = FALSE
    /\ UNCHANGED <<fvars, svars, avars, deaths>>

SlabSeal ==
    /\ slabPc = "idle"
    /\ slabPc' = "sweep" /\ sealing' = TRUE
    /\ UNCHANGED <<fvars, svars, avars, deaths>>

\* The block in turn: full ones in order, then the active one
Current == IF pending # << >> THEN Head(pending) ELSE active

\* fsync_block, first half: sync_all
SyncAll ==
    /\ slabPc = "sweep" /\ Current # NoBlock /\ blockOf[Current].unflushed > 0
    /\ inodes' = [inodes EXCEPT ![blockOf[Current].inode].synced =
                                    Len(inodes[blockOf[Current].inode].data)]
    /\ blockOf' = [blockOf EXCEPT ![Current].unflushed = 0]
    /\ slabPc' = IF blockOf[Current].dirSynced THEN "sweep" ELSE "dir"
    /\ UNCHANGED <<dir, ddir, sealing, nextSeq, active, pending, avars, deaths>>

\* Slip: the directory of a new block is not fsynced.
SyncDirSkipped ==
    /\ slabPc = "dir"
    /\ blockOf' = [blockOf EXCEPT ![Current].dirSynced = TRUE]
    /\ slabPc' = "sweep"
    /\ UNCHANGED <<fvars, sealing, nextSeq, active, pending, avars, deaths>>

\* fsync_block, second half: fsync_parent_dir, once per block
SyncDir ==
    /\ slabPc = "dir"
    /\ ddir' = dir
    /\ blockOf' = [blockOf EXCEPT ![Current].dirSynced = TRUE]
    /\ slabPc' = "sweep"
    /\ UNCHANGED <<inodes, dir, sealing, nextSeq, active, pending, avars, deaths>>

\* Full blocks are sealed in every sweep, the active one by slab_seal alone
\* and only if it has bytes.
MustSeal ==
    Current # NoBlock /\ (Current # active \/ (sealing /\ blockOf[Current].len > 0))

\* seal_block: the assert, and the rename
Rename ==
    /\ slabPc = "sweep" /\ MustSeal /\ blockOf[Current].unflushed = 0
    /\ dir' = [dir EXCEPT ![Sealed(Current)] = dir[Part(Current)], ![Part(Current)] = 0]
    /\ slabPc' = "sealed"
    /\ UNCHANGED <<inodes, ddir, sealing, svars, avars, deaths>>

\* Records of this life that have bytes
Mine == {r \in (born + 1) .. Len(pos) : pos[r].size > 0}

\* seal_block: the fsync of the directory; the block goes to the ledger
SealBlock ==
    /\ slabPc = "sealed"
    /\ ddir' = dir
    /\ published' = published \union {r \in Mine : pos[r].seq = Current}
    /\ pending' = IF pending # << >> THEN Tail(pending) ELSE pending
    /\ active' = IF Current = active THEN NoBlock ELSE active
    /\ slabPc' = "sweep"
    /\ UNCHANGED <<inodes, dir, sealing, nextSeq, blockOf, pos, born, ticked, deaths>>

\* Nothing left to flush or to seal: what was appended in this life is covered.
SweepDone ==
    /\ slabPc = "sweep" /\ ~MustSeal
    /\ Current # NoBlock => blockOf[Current].unflushed = 0
    /\ ticked' = Mine
    /\ slabPc' = "idle"
    /\ UNCHANGED <<fvars, sealing, svars, pos, born, published, deaths>>

-----------------------------------------------------------------------------
\* A killed process or lost power: an unsynced end of a file may be gone, and
\* what was done to the names of a block since the last fsync of the directory.
SlabCrash ==
    /\ slabPc # "closed" /\ deaths < MaxDeaths
    /\ deaths' = deaths + 1
    /\ \E undone \in SUBSET {s \in Seqs : \E n \in Names : n.seq = s /\ dir[n] # ddir[n]} :
        /\ dir' = [n \in Names |-> IF n.seq \in undone THEN ddir[n] ELSE dir[n]]
        /\ ddir' = dir'
    /\ \E n \in 0 .. (BlockBytes + MaxSize) :   \* unsynced bytes that survive
        inodes' = [i \in 1 .. Len(inodes) |->
                    LET f == inodes[i]
                        len == Min({f.synced + n, Len(f.data)})
                    IN  [data |-> SubSeq(f.data, 1, len), synced |-> len]]
    /\ slabPc' = "closed" /\ sealing' = FALSE
    /\ nextSeq' = 0 /\ active' = NoBlock /\ pending' = << >>
    /\ blockOf' = [s \in Seqs |-> NoData] /\ ticked' = {}
    /\ born' = Len(pos)
    /\ UNCHANGED <<pos, published>>

SlabNext ==
    \/ SlabOpen
    \/ \E size \in 0 .. MaxSize : SlabAppend(size) \/ SlabAppendRaw(size)
    \/ SlabTick \/ SlabSeal \/ SyncAll \/ SyncDir \/ Rename \/ SealBlock \/ SweepDone
    \/ SlabCrash

SlabSpec == SlabInit /\ [][SlabNext]_slabVars

-----------------------------------------------------------------------------
\* Every variable holds a value of its type; a block outgrows block_bytes by a
\* single record alone.
SlabTypeOK ==
    LET full == IF MaxSize > BlockBytes THEN MaxSize ELSE BlockBytes
    IN  /\ \A i \in 1 .. Len(inodes) :
            /\ inodes[i].data \in Seq(1 .. MaxRecs)
            /\ inodes[i].synced \in 0 .. Len(inodes[i].data)
        /\ {dir, ddir} \subseteq [Names -> 0 .. Len(inodes)]
        /\ slabPc \in {"closed", "idle", "sweep", "dir", "sealed"} /\ sealing \in BOOLEAN
        /\ nextSeq \in 0 .. (MaxRecs + 1) /\ active \in Seqs \union {NoBlock}
        /\ pending \in Seq(Seqs)
        /\ blockOf \in [Seqs -> [inode : 0 .. Len(inodes), len : 0 .. full,
                               unflushed : 0 .. full, dirSynced : BOOLEAN]]
        /\ pos \in Seq([seq : Seqs, off : 0 .. full, size : 0 .. MaxSize])
        /\ ticked \subseteq 1 .. MaxRecs /\ published \subseteq 1 .. MaxRecs
        /\ born \in 0 .. Len(pos) /\ deaths \in 0 .. MaxDeaths

\* Where slab_append said: the durable bytes of a file at a record's place
DurableAt(i, r) ==
    /\ i # 0
    /\ pos[r].off + pos[r].size <= inodes[i].synced
    /\ \A k \in 1 .. pos[r].size : inodes[i].data[pos[r].off + k] = r

\* "ORDERING IS THE WHOLE ARGUMENT: data fsync -> rename -> dir fsync": a
\* record of a sealed block stays readable at the (seq, offset, len) that
\* slab_append answered, through every crash, reopening and later block.
SealedAtPosition ==
    \A r \in published :
        DurableAt(dir[Sealed(pos[r].seq)], r) /\ DurableAt(ddir[Sealed(pos[r].seq)], r)

\* "an append is durable at the first slab_tick sweep that returns >= 0 after
\* it": as long as its writer lives, whatever a loss of power would leave has
\* the record, in the .part or in the sealed block.
TickedIsDurable ==
    \A r \in ticked :
        \/ DurableAt(ddir[Part(pos[r].seq)], r)
        \/ DurableAt(ddir[Sealed(pos[r].seq)], r)

\* Sealed blocks have no gaps, on disk or after a loss of power: a gap would
\* be a block that no resume mints again and no reader finds.
SealedIsPrefix ==
    \A d \in {dir, ddir} : \A s \in SealedSeqs(d) : \A q \in 0 .. s : q \in SealedSeqs(d)

\* "the file exists and the file is complete [are] the same statement": what
\* has been published under a sealed name is never replaced or changed.
SealedNeverRewritten ==
    [][\A s \in SealedSeqs(ddir) :
        /\ ddir'[Sealed(s)] = ddir[Sealed(s)] /\ dir'[Sealed(s)] = dir[Sealed(s)]
        /\ inodes'[ddir[Sealed(s)]] = inodes[ddir[Sealed(s)]]]_slabVars

\* All that slablock.rs promises of a directory of blocks.
SlabKeepsPromises ==
    /\ [](SlabTypeOK /\ SealedAtPosition /\ TickedIsDurable /\ SealedIsPrefix)
    /\ SealedNeverRewritten
=============================================================================
