----------------------------- MODULE MCRecovery -----------------------------
(***************************************************************************)
(* Model checking of what is written to survive a crash and of what reads  *)
(* it back: the recovery log (Reclog), the projections of a shard          *)
(* and the hot indexes in front of the durable tiers (both in WalIndex),   *)
(* and raw frames and their shapes (RawBlk).  They share no state, so a    *)
(* behaviour chooses one of them at the start and the others stay in their *)
(* initial state.                                                          *)
(*                                                                         *)
(* Batches of up to two rows for two names, segments so small that a       *)
(* second batch starts a new one, two frames that bind one name, shapes    *)
(* that differ in their columns, and index shards that must evict.         *)
(***************************************************************************)
EXTENDS Reclog, TLC

CONSTANTS
    Torn, Absent, NoName,       \* WalIndex
    Workers,                    \* RawBlk, and WalIndex: hot indexes
    Value, Null, blank, NoShape,    \* RawBlk
    RowName, RowHashes, OtherHash, Tombstoned, NoBind  \* WalIndex: hot indexes

VARIABLES
    which,                                                  \* the model chosen
    wal, synced, blocks, ackedRows, prealloc, kind, handle, snap, snaps,
    mishaps,                                                \* WalIndex
    mode, shapesLog, shape, params, bound, wpc, dir, arena, sealedBlocks, chan,
    cache, sent, firm, damage, rawRows, parses, harms,  \* RawBlk
    fifo, puts, binds, toggle, writer, raced, feed, drained, saved, log, reader, inserts,
    restarts                                                \* WalIndex: hot indexes

Frames == {[hash |-> 1, name |-> "a", posts |-> << <<"v", 1>>, <<"w", 1>> >>],
           [hash |-> 2, name |-> "a", posts |-> << <<"v", 3>> >>]}

WI == INSTANCE WalIndex WITH
        FrameSet <- Frames, SegFrames <- 2, MaxSnaps <- 1, MaxMishaps <- 1,
        MaxFrames <- [content |-> 3, field |-> 3, pk |-> 3, recover |-> 0],
        MaxBlocks <- [content |-> 1, field |-> 1, pk |-> 0, recover |-> 3],
        Names <- {RowName}, Hashes <- RowHashes, Writers <- Workers,
        shard <- [h \in RowHashes |-> IF h = OtherHash THEN 2 ELSE 1],
        ShardCap <- 2, ReclogCap <- 1, ReclogBatch <- 1, MaxInserts <- 4, MaxRestarts <- 1

RB == INSTANCE RawBlk WITH
        Values <- {Value}, MaxRows <- 2, MaxBlocks <- 1, MaxParses <- 2, MaxHarms <- 1,
        Shapes <- {[table |-> "t", cols |-> <<"c">>], [table |-> "t", cols |-> <<"c", "d">>]}

wivars == <<wal, synced, blocks, ackedRows, prealloc, kind, handle, snap, snaps, mishaps>>
rbvars == <<mode, shapesLog, shape, params, bound, wpc, dir, arena, sealedBlocks, chan,
            cache, sent, firm, damage, rawRows, parses, harms>>
hivars == <<fifo, puts, binds, toggle, writer, raced, feed, drained, saved, log, reader, inserts, restarts>>
all == <<which, vars, wivars, rbvars, hivars>>

MInit ==
    /\ which \in {"reclog", "walindex", "rawblk", "hotindex"}
    /\ Init /\ WI!Init /\ RB!Init /\ WI!NInit
    /\ which # "walindex" => kind = "pk" /\ ~prealloc
    /\ which # "rawblk" => mode = "a"

\* A step of the model chosen; the others stand still.
MNext ==
    \/ which = "reclog" /\ Next /\ UNCHANGED <<which, wivars, rbvars, hivars>>
    \/ which = "walindex" /\ WI!Next /\ UNCHANGED <<which, vars, rbvars, hivars>>
    \/ which = "rawblk" /\ RB!Next /\ UNCHANGED <<which, vars, wivars, hivars>>
    \/ which = "hotindex" /\ WI!NNext /\ UNCHANGED <<which, vars, wivars, rbvars>>

MSpec == MInit /\ [][MNext]_all

\* Name logs are alike, and so are threads and the rows of one shard.
Symmetry == Permutations(Names) \union Permutations(Workers)
            \union Permutations(RowHashes \ {OtherHash})

\* WalIndex: what a projection answers after a rebuild, a replay or a snapshot
\* is what a scan of the whole store would answer.
ProjectionsAreExact == WI!ReadsAreExact /\ WI!AckedRowsRecovered /\ WI!LatestBindingWins

\* RawBlk: every acknowledged raw frame can be decoded, and the derive pool
\* and the recovery decode it alike.
RawRowsReadable == RB!AckedRowsReadable /\ RB!PoolAgreesWithRecovery

\* WalIndex: a name that resolves has its bytes in the hot index or on disk.
ResolvedIsPullable == WI!ResolvedIsPullable

\* RawBlk: what pgbshape.rs says of the shape of an acknowledged row.
ShapeDurableBeforeAck == RB!ShapeDurableBeforeAck

\* WalIndex: what walindex.rs says of its snapshots, and contentidx.rs of what
\* it evicts.
SnapshotIsDisposable == WI!SnapshotIsDisposable
EvictedIsDurable == WI!EvictedIsDurable
=============================================================================
