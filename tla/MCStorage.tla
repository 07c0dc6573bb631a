----------------------------- MODULE MCStorage -----------------------------
(***************************************************************************)
(* Model checking of the files the store writes: object segments (ObjSeg), *)
(* SLA blocks (SlabLock), append logs and files replaced or appended to by *)
(* several threads (StoreFiles); and of what is derived from them: the     *)
(* projections of the object store, the contradictions found in the WAL,   *)
(* the index of blocks and chunk manifests (Projections).                  *)
(* They share no state, so a behaviour chooses one of them at the start    *)
(* and the others stay in their initial state.                             *)
(*                                                                         *)
(* Object blocks of two do not fit behind one another in a segment, so     *)
(* appends roll, leave gaps and, after a crash, come back to segments that *)
(* hold garbage; records of up to three bytes in slab blocks of two fill,  *)
(* rotate and outgrow them; the mapping ends inside a record; two index    *)
(* workers take the same block.                                            *)
(***************************************************************************)
EXTENDS ObjSeg, SlabLock, TLC

CONSTANTS
    Edges, Notes,   \* Projections
    Indexers,       \* Projections: index segments
    Daemons, Facts, Streams     \* Projections: contradictions

VARIABLES
    which,                                                  \* the model chosen
    path, file, onDisk, buf, file_len, offsets, promised, fast, stray, mem, platter,
    cursor, msynced, held, flushed, unsure, rotated, tap, janitor, submitted, dropped,
    shadowed, gone, appends, failures,                      \* StoreFiles: append logs
    loose, packed, ledger, walk, table, replay, order, steady, pushes,
    builds,                                                 \* Projections
    segFile, notified, cell, segs, mine, ipc, healed, used, \* Projections: index segments
    whole, p, unread, win, eof, abs, manifest, cstate,      \* Projections: chunks
    wal, shards, warm, covered, asked, boots,               \* Projections: contradictions
    nodes, names, durableNames, pid, WRITE_SEQ, step, call, calls, losses, errors, renames,
    kept, exposed, failed                                            \* StoreFiles: durable files

SF == INSTANCE StoreFiles WITH
        Cap <- 7, Page <- 2, MinPayload <- 1, TapCap <- 2, MaxAppends <- 4, MaxFailures <- 2,
        MaxCalls <- 3, MaxLosses <- 1, MaxErrors <- 1

PR == INSTANCE Projections WITH
        MaxPushes <- 3, MaxBuilds <- 1,
        Workers <- Daemons, WalPrefixes <- Streams, MaxFrames <- 2, MaxShards <- 1, MaxBoots <- 1,
        Blocks <- {1, 2}, MaxTakes <- 2, MaxKills <- 1, MaxRots <- 1, MaxRebuilds <- 1,
        Files <- UNION {[1 .. n -> {0, 1}] : n \in 0 .. 5},
        Settings <- [avg : {0, 3}, min : {0, 2, 4}, max : {0, 1, 3}],
        WordBits <- 7, DEFAULT_AVG <- 2, MIN_AVG <- 2, TmpLen <- 3

alvars == <<path, file, onDisk, buf, file_len, offsets, promised, fast, stray, mem, platter,
            cursor, msynced, held, flushed, unsure, rotated, tap, janitor, submitted, dropped,
            shadowed, gone, appends, failures>>
prvars == <<loose, packed, ledger, walk, table, replay, order, steady, pushes, builds>>
ixvars == <<segFile, notified, cell, segs, mine, ipc, healed, used>>
chvars == <<whole, p, unread, win, eof, abs, manifest, cstate>>
cdvars == <<wal, shards, warm, covered, asked, boots>>
dfvars == <<nodes, names, durableNames, pid, WRITE_SEQ, step, call, calls, losses, errors, renames,
            kept, exposed, failed>>
all == <<which, vars, slabVars, alvars, prvars, ixvars, chvars, cdvars, dfvars>>

MInit ==
    /\ which \in {"objseg", "slab", "logs", "projections", "index", "chunks", "gate",
                "files"}
    /\ Init /\ SlabInit /\ SF!AInit /\ PR!PInit /\ PR!IInit /\ PR!KInit /\ PR!DInit /\ SF!UInit
    /\ which # "logs" => path = "logbuf"
    /\ which # "chunks" => whole = <<>> /\ p = PR!params([avg |-> 0, min |-> 0, max |-> 0])

\* A step of the model chosen; the others stand still.
MNext ==
    \/ /\ which = "objseg" /\ Next
       /\ UNCHANGED <<which, slabVars, alvars, prvars, ixvars, chvars, cdvars, dfvars>>
    \/ /\ which = "slab" /\ SlabNext
       /\ UNCHANGED <<which, vars, alvars, prvars, ixvars, chvars, cdvars, dfvars>>
    \/ /\ which = "logs" /\ SF!ANext
       /\ UNCHANGED <<which, vars, slabVars, prvars, ixvars, chvars, cdvars, dfvars>>
    \/ /\ which = "projections" /\ PR!PNext
       /\ UNCHANGED <<which, vars, slabVars, alvars, ixvars, chvars, cdvars, dfvars>>
    \/ /\ which = "index" /\ PR!INext
       /\ UNCHANGED <<which, vars, slabVars, alvars, prvars, chvars, cdvars, dfvars>>
    \/ /\ which = "chunks" /\ PR!KNext
       /\ UNCHANGED <<which, vars, slabVars, alvars, prvars, ixvars, cdvars, dfvars>>
    \/ /\ which = "gate" /\ PR!DNext
       /\ UNCHANGED <<which, vars, slabVars, alvars, prvars, ixvars, chvars, dfvars>>
    \/ /\ which = "files" /\ SF!UNext
       /\ UNCHANGED <<which, vars, slabVars, alvars, prvars, ixvars, chvars, cdvars>>

MSpec == MInit /\ [][MNext]_all

\* Threads that store objects are alike, and so are the objects and the index
\* workers.
Symmetry == Permutations(Threads) \union Permutations(Addrs)
                \union Permutations(Indexers)

\* StoreFiles: what a log buffer, a mapped segment or the
\* shadow tap has promised is still there, once and in order, after every
\* failure; a durable write or append that returned survives a power loss.
LogsKeepPromises == SF!LogsKeepPromises /\ SF!SegmentKeepsFrames /\ SF!ReturnedIsDurable

\* Projections: what is derived from the
\* store agrees with it, though objects move, blocks are indexed twice,
\* workers die, reads fall short and frames are torn.
DerivedAgrees ==
    /\ PR!EdgesFoundOnce /\ PR!StreamIsPushOrder /\ PR!IndexAnswers
    /\ PR!ManifestIsContentDefined /\ PR!GateFailsClosed

\* Projections: what indexer.rs says of a torn entry line.
TornLinesNeverAnswer == PR!TornLinesNeverAnswer
=============================================================================
