---------------------------- MODULE Projections -----------------------------
(***************************************************************************)
(* What is derived from the store: by a thread, in tables of its own, the  *)
(* edges and the enumeration of the object store (runtime/adjacency.rs,    *)
(* enumeration.rs) and the contradictions of the WAL (contradicts.rs); by  *)
(* the index workers, in files, the index of flushed blocks (indexer.rs);  *)
(* and of a file that is stored, the manifest of its chunks (chunk.rs).    *)
(***************************************************************************)
EXTENDS Integers, Sequences, FiniteSets, SequencesExt, FiniteSetsExt

-----------------------------------------------------------------------------
(***************************************************************************)
(* runtime/adjacency.rs and enumeration.rs: two projections of the object  *)
(* store that a thread builds in memory.  Objects live in the loose tier,  *)
(* in the pack tier, or (a compaction cut short) in both; the push and the *)
(* compaction are other programs, modelled from what these files say.      *)
(***************************************************************************)

CONSTANTS
    Edges, Notes,       \* objects: edge frames, and objects of other shape
    MaxPushes, MaxBuilds

Objects == Edges \union Notes

VARIABLES
    loose, packed,  \* objects/, and pack/index/ with the pack behind it
    ledger,         \* ledger.log: its PUSH entries in order
    walk,           \* the adjacency walk: [at, todo, seen]
    table,          \* Adj: edge address -> how often out and inn list it
    replay,         \* the enumeration: [at, rest, seen, missing]
    order,          \* Enumeration.order
    steady,         \* ghost: objects in the store since the walk/replay began, and
                    \* those whose loose copy went after the walk had listed it
    pushes, builds

pvars == <<loose, packed, ledger, walk, table, replay, order, steady, pushes, builds>>

Stored == loose \union packed
Off == [at |-> "off", todo |-> {}, seen |-> {}]
ROff == [at |-> "off", rest |-> <<>>, seen |-> {}, missing |-> 0]

PInit ==
    /\ loose = {} /\ packed = {} /\ ledger = <<>>
    /\ walk = Off /\ table = [e \in Edges |-> 0]
    /\ replay = ROff /\ order = <<>>
    /\ steady = [walk |-> {}, replay |-> {}, slipped |-> {}]
    /\ pushes = 0 /\ builds = 0
-----------------------------------------------------------------------------
(* the store, external                                                     *)

\* the object, then its ledger entry; the same content may be pushed again
PushObject(o) ==
    /\ pushes < MaxPushes /\ pushes' = pushes + 1
    /\ loose' = IF o \in packed THEN loose ELSE loose \union {o}
    /\ ledger' = Append(ledger, o)
    /\ UNCHANGED <<packed, walk, table, replay, order, steady, builds>>

\* pack-run writes the pack and the pointer, verifies, then deletes the loose copy
Pack(o) ==
    /\ o \in loose \ packed
    /\ packed' = packed \union {o}
    /\ UNCHANGED <<loose, ledger, walk, table, replay, order, steady, pushes, builds>>

DropLoose(o) ==
    /\ o \in loose \intersect packed
    /\ loose' = loose \ {o}
    /\ steady' = IF walk.at = "loose" /\ o \in walk.todo
                 THEN [steady EXCEPT !.slipped = @ \union {o}] ELSE steady
    /\ UNCHANGED <<packed, ledger, walk, table, replay, order, pushes, builds>>

\* an object is collected: the ledger, being history, keeps its entry
Scrub(o) ==
    /\ o \in Stored /\ pushes = MaxPushes
    /\ loose' = loose \ {o} /\ packed' = packed \ {o}
    /\ steady' = [steady EXCEPT !.walk = @ \ {o}, !.replay = @ \ {o}]
    /\ UNCHANGED <<ledger, walk, table, replay, order, pushes, builds>>
-----------------------------------------------------------------------------
(* adjacency                                                               *)

\* Adj::insert puts the address under its source and under its target
Insert(o) == table' = IF o \in Edges THEN [table EXCEPT ![o] = @ + 1] ELSE table

\* build, from adj_build or from the first adj_get of the thread: the tables
\* are cleared and the loose tier is listed
AdjBuild ==
    /\ walk.at = "off" /\ builds < MaxBuilds
    /\ builds' = builds + 1
    /\ table' = [e \in Edges |-> 0]
    /\ walk' = [at |-> "loose", todo |-> loose, seen |-> {}]
    /\ steady' = [steady EXCEPT !.walk = Stored, !.slipped = {}]
    /\ UNCHANGED <<loose, packed, ledger, replay, order, pushes>>

\* scan_loose: seen is marked before the file is read, and a read that fails
\* skips the object
ScanLoose(o) ==
    /\ walk.at = "loose" /\ o \in walk.todo
    /\ walk' = [walk EXCEPT !.todo = @ \ {o}, !.seen = @ \union {o}]
    /\ IF o \in loose THEN Insert(o) ELSE UNCHANGED table
    /\ UNCHANGED <<loose, packed, ledger, replay, order, steady, pushes, builds>>

ListPacked ==
    /\ walk.at = "loose" /\ walk.todo = {}
    /\ walk' = [walk EXCEPT !.at = "packed", !.todo = packed]
    /\ UNCHANGED <<loose, packed, ledger, table, replay, order, steady, pushes, builds>>

\* slip: the dedup is left out
ScanPackedTwice(o) ==
    /\ walk.at = "packed" /\ o \in walk.todo
    /\ walk' = [walk EXCEPT !.todo = @ \ {o}, !.seen = @ \union {o}]
    /\ IF o \in packed THEN Insert(o) ELSE UNCHANGED table
    /\ UNCHANGED <<loose, packed, ledger, replay, order, steady, pushes, builds>>

\* scan_packed: what the loose tier has served is not looked at again
ScanPacked(o) ==
    /\ walk.at = "packed" /\ o \in walk.todo
    /\ walk' = [walk EXCEPT !.todo = @ \ {o}, !.seen = @ \union {o}]
    /\ IF o \notin walk.seen /\ o \in packed THEN Insert(o) ELSE UNCHANGED table
    /\ UNCHANGED <<loose, packed, ledger, replay, order, steady, pushes, builds>>

AdjBuilt ==
    /\ walk.at = "packed" /\ walk.todo = {}
    /\ walk' = [walk EXCEPT !.at = "off"]
    /\ UNCHANGED <<loose, packed, ledger, table, replay, order, steady, pushes, builds>>
-----------------------------------------------------------------------------
(* enumeration                                                             *)

\* Enumeration::build reads the whole ledger first
EnumBuild ==
    /\ replay.at = "off" /\ builds < MaxBuilds
    /\ builds' = builds + 1
    /\ order' = <<>>
    /\ replay' = [at |-> "line", rest |-> ledger, seen |-> {}, missing |-> 0]
    /\ steady' = [steady EXCEPT !.replay = Stored]
    /\ UNCHANGED <<loose, packed, ledger, walk, table, pushes>>

\* the first push of an address takes the place in the order
EnumLine ==
    /\ replay.at = "line" /\ replay.rest # <<>>
    /\ replay' = IF Head(replay.rest) \in replay.seen
                 THEN [replay EXCEPT !.rest = Tail(@)]
                 ELSE [replay EXCEPT !.at = "loose", !.seen = @ \union {Head(replay.rest)}]
    /\ UNCHANGED <<loose, packed, ledger, table, walk, order, steady, pushes, builds>>

\* read_object: the loose file, and only when that is gone the pack pointer
EnumReadLoose ==
    /\ replay.at = "loose"
    /\ IF Head(replay.rest) \in loose
       THEN /\ order' = Append(order, Head(replay.rest))
            /\ replay' = [replay EXCEPT !.at = "line", !.rest = Tail(@)]
       ELSE replay' = [replay EXCEPT !.at = "pack"] /\ UNCHANGED order
    /\ UNCHANGED <<loose, packed, ledger, walk, table, steady, pushes, builds>>

EnumReadPack ==
    /\ replay.at = "pack"
    /\ LET o == Head(replay.rest)
           found == o \in packed
       IN  /\ order' = IF found THEN Append(order, o) ELSE order
           /\ replay' = [replay EXCEPT !.at = "line", !.rest = Tail(@),
                                       !.missing = @ + (IF found THEN 0 ELSE 1)]
    /\ UNCHANGED <<loose, packed, ledger, walk, table, steady, pushes, builds>>

EnumBuilt ==
    /\ replay.at = "line" /\ replay.rest = <<>>
    /\ replay' = [replay EXCEPT !.at = "off"]
    /\ UNCHANGED <<loose, packed, ledger, walk, table, order, steady, pushes, builds>>

\* frame_stream(tag): the bodies in order, restricted to one kind of frame
frame_stream(kind) == SelectSeq(order, LAMBDA o : o \in kind)

PNext ==
    \/ \E o \in Objects : PushObject(o) \/ Pack(o) \/ DropLoose(o) \/ Scrub(o)
                          \/ ScanLoose(o) \/ ScanPacked(o)
    \/ AdjBuild \/ ListPacked \/ AdjBuilt
    \/ EnumBuild \/ EnumLine \/ EnumReadLoose \/ EnumReadPack \/ EnumBuilt

PSpec == PInit /\ [][PNext]_pvars
-----------------------------------------------------------------------------
\* No edge is listed twice, whichever tier held it and although compaction
\* leaves both copies for a while: the header's reason for walking both tiers.
\* Once a walk is over, every edge that stayed in the store while it ran is
\* listed, with one exception: an edge whose loose copy went to the pack
\* between its listing and its read is marked as seen, not read, and then
\* passed over in the pack.
EdgesFoundOnce ==
    \A e \in Edges :
        /\ table[e] <= 1
        /\ walk.at = "off" /\ e \in steady.walk \ steady.slipped => table[e] = 1

\* "BOTH TIERS ARE WALKED, and that is load-bearing" (adjacency.rs:22), so that
\* no compacted edge loses its adjacency.  The exception above refutes it.
NoEdgeSlips == walk.at = "off" => \A e \in Edges \intersect steady.walk : table[e] = 1

\* FirstPush(s): s without the repetitions
FirstPush(s) == FoldLeft(LAMBDA acc, o : IF o \in Range(acc) THEN acc ELSE Append(acc, o), <<>>, s)

\* A finished enumeration streams the frames in the order of their first push,
\* and misses none that stayed in the store, while compaction moves objects
\* from tier to tier and collection takes others away.
StreamIsPushOrder ==
    replay.at = "off" =>
        /\ \A o \in steady.replay : o \in Range(ledger) => o \in Range(order)
        /\ \A kind \in {Edges, Notes, Objects} :
            frame_stream(kind) = SelectSeq(FirstPush(ledger), LAMBDA o : o \in kind /\ o \in Range(order))

-----------------------------------------------------------------------------
(***************************************************************************)
(* runtime/contradicts.rs: the adjacency of contradicting facts, projected *)
(* from the frames of the payload WAL into tables of each thread.  A shard *)
(* that this process has not rebuilt refuses to answer.  The promotion of  *)
(* a fact rests on the answer "no", so what matters is what a "no" covers. *)
(***************************************************************************)

CONSTANTS
    Workers,        \* daemon threads
    Facts,
    WalPrefixes,    \* WAL streams
    MaxFrames,      \* frames in all streams together
    MaxShards, MaxBoots

VARIABLES
    wal,        \* stream -> its frames: [kind, a, b, whole]; a and b of a contradiction
    shards,     \* thread -> CIDX: sequence of [rebuilt, adj]; the handle is the index
    warm,       \* thread -> WARM: [rebuilt, adj]; rebuilt is FALSE for None
    covered,    \* ghost: thread -> handle (0 the warm one) -> pairs the last replays saw
    asked,      \* ghost: the last answer: [t, h, from, to, yes], or NoAnswer
    boots

wvars == <<wal, shards, warm, covered, asked, boots>>

NoAnswer == [h |-> 0, from |-> {}, to |-> {}, yes |-> TRUE, seen |-> {}]
Cold == [rebuilt |-> FALSE, adj |-> {}]

DInit ==
    /\ wal = [s \in WalPrefixes |-> <<>>]
    /\ shards = [t \in Workers |-> <<>>] /\ warm = [t \in Workers |-> Cold]
    /\ covered = [t \in Workers |-> [h \in 0 .. MaxShards |-> {}]]
    /\ asked = NoAnswer /\ boots = 0

\* A frame appended by the WAL writer (outside this file): a contradiction,
\* or one whose envelope is another's or malformed.
AppendFrame(s, f) ==
    /\ MapThenSumSet(LAMBDA x : Len(wal[x]), WalPrefixes) < MaxFrames
    /\ wal' = [wal EXCEPT ![s] = Append(@, f)]
    /\ UNCHANGED <<shards, warm, covered, asked, boots>>

Frames == {[kind |-> "contradicts", a |-> a, b |-> b, whole |-> TRUE] : a, b \in Facts}
            \union {[kind |-> "other", whole |-> TRUE]}

\* The process dies: thread-local tables are gone, and the last frame of a
\* stream may be torn.  Later frames follow the torn one.
Restart(torn) ==
    /\ boots < MaxBoots /\ boots' = boots + 1
    /\ wal' = [s \in WalPrefixes |->
                IF s \in torn /\ wal[s] # <<>> THEN [wal[s] EXCEPT ![Len(wal[s])].whole = FALSE] ELSE wal[s]]
    /\ shards' = [t \in Workers |-> <<>>] /\ warm' = [t \in Workers |-> Cold]
    /\ covered' = [t \in Workers |-> [h \in 0 .. MaxShards |-> {}]]
    /\ asked' = NoAnswer

\* walk_frames: the frames in front of the first one that is not whole
walk_frames(s) ==
    {wal[s][i] : i \in {i \in DOMAIN wal[s] : \A j \in 1 .. i : wal[s][j].whole}}

\* slip: only the direction the frame names
EdgesOfOneWay(f) == IF f.kind = "contradicts" THEN {<<f.a, f.b>>} ELSE {}

\* env_pair and the two inserts: one frame gives both directions or none
EdgesOf(f) == IF f.kind = "contradicts" THEN {<<f.a, f.b>>, <<f.b, f.a>>} ELSE {}
Replay(s) == UNION {EdgesOf(f) : f \in walk_frames(s)}

\* what the stream says, as unordered pairs, for the ghosts
Said(s) == {{f.a, f.b} : f \in {g \in walk_frames(s) : g.kind = "contradicts"}}

contradicts_open(t) ==
    /\ Len(shards[t]) < MaxShards
    /\ shards' = [shards EXCEPT ![t] = Append(@, Cold)]
    /\ UNCHANGED <<wal, warm, covered, asked, boots>>

\* contradicts_rebuild: adds to what the shard holds, it does not clear it
contradicts_rebuild(t, h, s) ==
    /\ shards' = [shards EXCEPT ![t][h] = [rebuilt |-> TRUE, adj |-> @.adj \union Replay(s)]]
    /\ covered' = [covered EXCEPT ![t][h] = @ \union Said(s)]
    /\ UNCHANGED <<wal, warm, asked, boots>>

\* contradicts_warm: a new table replaces the warm one
contradicts_warm(t, s) ==
    /\ warm' = [warm EXCEPT ![t] = [rebuilt |-> TRUE, adj |-> Replay(s)]]
    /\ covered' = [covered EXCEPT ![t][0] = Said(s)]
    /\ UNCHANGED <<wal, shards, asked, boots>>

Shard(t, h) == IF h = 0 THEN warm[t] ELSE shards[t][h]

\* assert_rebuilt: a cold shard panics and answers nothing
Answer(t, h, from, to, yes) ==
    /\ Shard(t, h).rebuilt
    /\ asked' = [h |-> h, from |-> from, to |-> to, yes |-> yes, seen |-> covered[t][h]]
    /\ UNCHANGED <<wal, shards, warm, covered, boots>>

contradicts_has(t, h, a, b) == Answer(t, h, {a}, {b}, <<a, b>> \in Shard(t, h).adj)

\* contradicts_any of a shard and contradicts_any_warm
contradicts_any(t, h, a) ==
    Answer(t, h, {a}, Facts, \E b \in Facts : <<a, b>> \in Shard(t, h).adj)

DNext ==
    \/ \E s \in WalPrefixes :
        \/ \E f \in Frames : AppendFrame(s, f)
        \/ \E t \in Workers :
            contradicts_warm(t, s) \/ \E h \in DOMAIN shards[t] : contradicts_rebuild(t, h, s)
    \/ \E torn \in SUBSET WalPrefixes : Restart(torn)
    \/ \E t \in Workers :
        \/ contradicts_open(t)
        \/ \E h \in DOMAIN shards[t] \union {0}, a \in Facts :
            contradicts_any(t, h, a) \/ (h # 0 /\ \E b \in Facts : contradicts_has(t, h, a, b))
DSpec == DInit /\ [][DNext]_wvars

\* The gate of a promotion fails closed.  An answer "no" to a fact covers
\* every contradiction frame in front of a torn one that named it, on either
\* side, when the thread last replayed the stream, and a "yes" rests on such a
\* frame; a contradiction is never known in one direction only, not even when
\* a crash tears its frame or a shard is rebuilt from a second stream.
GateFailsClosed ==
    /\ asked.yes \/ \A e \in asked.seen : ~\E a \in asked.from, b \in asked.to : e = {a, b}
    /\ asked.yes => \/ asked = NoAnswer
                    \/ \E e \in asked.seen, a \in asked.from, b \in asked.to : e = {a, b}
    /\ \A t \in Workers, h \in 0 .. MaxShards :
        h = 0 \/ h \in DOMAIN shards[t] =>
            \A a, b \in Facts : <<a, b>> \in Shard(t, h).adj <=> {a, b} \in covered[t][h]

-----------------------------------------------------------------------------
(***************************************************************************)
(* runtime/indexer.rs: index workers take notices of flushed blocks, hash  *)
(* each block and append one line per block to a segment of their own; the *)
(* index is a cache that a recovery process rebuilds from the block files. *)
(***************************************************************************)

CONSTANTS
    Indexers, Blocks,   \* index workers, flushed blocks
    MaxTakes, MaxKills, MaxRots, MaxRebuilds

VARIABLES
    segFile,    \* block-<seq>.bin: absent, partial (no trailer yet), complete
    notified,   \* descriptors in the index channel, which may deliver twice
    cell,       \* the block's index-status cell, read by other threads
    segs,       \* index/iseg-<nanos>-<pid> in name order: sequences of lines,
                \* [seq, is]: good, rotten, cut in its last field, or torn earlier
    mine,       \* SEGS: the segment this worker has minted, 0 for none
    ipc,        \* worker: [at, batch, from]: from is where a partial write began
    healed,     \* ghost: blocks rebuilt and not corrupted since
    used        \* takes, kills, rots and rebuilds so far

ivars == <<segFile, notified, cell, segs, mine, ipc, healed, used>>

Line(b, is) == [seq |-> b, is |-> is]
Idle == [at |-> "idle", batch |-> <<>>, from |-> 0]

\* slip: the shape of the fields is not looked at
ParsesAnything(line) == TRUE

\* parse_entry_line: five fields of the right shape, the last one of any
\* length.  A line cut inside its last field, or right in front of it, parses.
Parses(line) == line.is # "torn"

IInit ==
    /\ segFile = [b \in Blocks |-> "absent"]
    /\ notified = {} /\ cell = [b \in Blocks |-> 0]
    /\ segs = <<>> /\ mine = [w \in Indexers |-> 0]
    /\ ipc = [w \in Indexers |-> Idle]
    /\ healed = {} /\ used = [takes |-> 0, kills |-> 0, rots |-> 0, rebuilds |-> 0]

Entries(b) == SelectSeq(FlattenSeq(segs), LAMBDA l : l.seq = b /\ Parses(l))

\* slip: the first valid entry answers
LookupFirst(b) == IF Entries(b) = <<>> THEN "none" ELSE Head(Entries(b)).is

\* lookup: segments in name order, the last valid entry answers
lookup(b) == IF Entries(b) = <<>> THEN "none" ELSE Last(Entries(b)).is

\* the flush worker writes the body and the trailer, fsyncs, then notifies
FlushWrite(b) ==
    /\ segFile[b] = "absent"
    /\ segFile' = [segFile EXCEPT ![b] = "partial"]
    /\ UNCHANGED <<notified, cell, segs, mine, ipc, healed, used>>

FlushNotify(b) ==
    /\ segFile[b] = "partial"
    /\ segFile' = [segFile EXCEPT ![b] = "complete"] /\ notified' = notified \union {b}
    /\ UNCHANGED <<cell, segs, mine, ipc, healed, used>>

\* index_build_batch: every entry of the batch is computed first (build_entry
\* panics on a missing or incomplete segFile, which no notified block has)
IndexTake(w, bs) ==
    /\ ipc[w].at = "idle" /\ bs # {} /\ bs \subseteq notified /\ used.takes < MaxTakes
    /\ \A b \in bs : segFile[b] = "complete"
    /\ ipc' = [ipc EXCEPT ![w] = [at |-> "append", batch |-> SetToSortSeq(bs, <), from |-> 0]]
    /\ used' = [used EXCEPT !.takes = @ + 1]
    /\ UNCHANGED <<segFile, notified, cell, segs, mine, healed>>

\* segment_path_for mints a name later than every earlier one
Minted(w) == IF mine[w] = 0 THEN Append(segs, <<>>) ELSE segs
Target(w) == IF mine[w] = 0 THEN Len(segs) + 1 ELSE mine[w]
BatchLines(w) == [i \in 1 .. Len(ipc[w].batch) |-> Line(ipc[w].batch[i], "good")]

\* append_entries: the whole batch in one write to an O_APPEND segment; when a
\* part is out already, write_all continues behind it
IndexAppend(w) ==
    /\ ipc[w].at \in {"append", "partial"}
    /\ segs' = [Minted(w) EXCEPT ![Target(w)] =
                (IF ipc[w].at = "append" THEN @ ELSE SubSeq(@, 1, ipc[w].from)) \o BatchLines(w)]
    /\ mine' = [mine EXCEPT ![w] = Target(w)]
    /\ ipc' = [ipc EXCEPT ![w].at = "flip"]
    /\ UNCHANGED <<segFile, notified, cell, healed, used>>

\* the write falls short anywhere: n lines are out, and nothing, a line that
\* does not parse, or a line cut in its last field, of the next
IndexPartial(w) ==
    /\ ipc[w].at = "append"
    /\ \E n \in 0 .. Len(ipc[w].batch) - 1 :
        LET b == ipc[w].batch[n + 1]
            lines(tail) == SubSeq(BatchLines(w), 1, n) \o tail
        IN  \E tail \in {<<>>, <<Line(b, "torn")>>, <<Line(b, "cut")>>} :
                /\ segs' = [Minted(w) EXCEPT ![Target(w)] = @ \o lines(tail)]
                /\ healed' = IF tail = <<Line(b, "cut")>> THEN healed \ {b} ELSE healed
    /\ mine' = [mine EXCEPT ![w] = Target(w)]
    /\ ipc' = [ipc EXCEPT ![w].at = "partial", ![w].from = Len(Minted(w)[Target(w)])]
    /\ UNCHANGED <<segFile, notified, cell, used>>

\* the write fails, at once or after a part: the handler panics, and a thread
\* that has faulted takes no effect any more
IndexFails(w) ==
    /\ ipc[w].at \in {"append", "partial"}
    /\ ipc' = [ipc EXCEPT ![w] = [Idle EXCEPT !.at = "faulted"]]
    /\ UNCHANGED <<segFile, notified, cell, segs, mine, healed, used>>

\* compare_exchange(UNINDEXED, INDEXED) for each; a failed one was delivered twice
IndexFlip(w) ==
    /\ ipc[w].at = "flip"
    /\ cell' = [b \in Blocks |-> IF b \in Range(ipc[w].batch) THEN 1 ELSE cell[b]]
    /\ ipc' = [ipc EXCEPT ![w] = Idle]
    /\ UNCHANGED <<segFile, notified, segs, mine, healed, used>>

\* The process is killed: cells and notices go with it, a block being written
\* stays without trailer, and what an append had written stays, cut or not.
Kill ==
    /\ used.kills < MaxKills /\ used' = [used EXCEPT !.kills = @ + 1]
    /\ cell' = [b \in Blocks |-> 0] /\ notified' = {}
    /\ mine' = [w \in Indexers |-> 0] /\ ipc' = [w \in Indexers |-> Idle]
    /\ UNCHANGED <<segFile, segs, healed>>

\* an entry goes bad on disk and keeps its shape, as the repair test does it
Rot ==
    /\ used.rots < MaxRots /\ used' = [used EXCEPT !.rots = @ + 1]
    /\ \E i \in 1 .. Len(segs) : \E j \in 1 .. Len(segs[i]) :
        /\ segs[i][j].is = "good"
        /\ segs' = [segs EXCEPT ![i][j].is = "rotten"]
        /\ healed' = healed \ {segs[i][j].seq}
    /\ UNCHANGED <<segFile, notified, cell, mine, ipc>>

\* index_rebuild_dir in a recovery process: every complete block, files ahead
\* of the frontier and half-written ones left out, one append to a new segment
IndexRebuildDir ==
    LET done == {b \in Blocks : segFile[b] = "complete"}
        seq == SetToSortSeq(done, <)
    IN  /\ used.rebuilds < MaxRebuilds /\ used' = [used EXCEPT !.rebuilds = @ + 1]
        /\ segs' = Append(segs, [i \in 1 .. Len(seq) |-> Line(seq[i], "good")])
        /\ healed' = done
        /\ UNCHANGED <<segFile, notified, cell, mine, ipc>>

INext ==
    \/ \E b \in Blocks : FlushWrite(b) \/ FlushNotify(b)
    \/ \E w \in Indexers :
        \/ IndexAppend(w) \/ IndexPartial(w) \/ IndexFails(w) \/ IndexFlip(w)
        \/ \E bs \in SUBSET Blocks : IndexTake(w, bs)
    \/ Kill \/ Rot \/ IndexRebuildDir

ISpec == IInit /\ [][INext]_ivars
-----------------------------------------------------------------------------
\* A reader that sees a block Indexed finds an entry for it, also when the
\* block is delivered twice to two workers.  What a recovery process has
\* rebuilt is answered rightly, although torn, cut and rotten entries stay in
\* the older segments, until that entry itself rots or a later append of the
\* block is cut.  A line that was torn before its last field never answers.
IndexAnswers ==
    /\ \A b \in Blocks : cell[b] = 1 => lookup(b) # "none"
    /\ \A b \in healed : lookup(b) = "good"
    /\ \A b \in Blocks : lookup(b) # "torn"

\* "a torn line degrades to 'not indexed', never to a wrong answer"
\* (indexer.rs:23).  A line cut inside its last field parses, and answers with
\* a succinct structure that is cut off.
TornLinesNeverAnswer == \A b \in Blocks : lookup(b) # "cut"

-----------------------------------------------------------------------------
(***************************************************************************)
(* runtime/chunk.rs: content-defined chunking of a file that is read in    *)
(* pieces.  chunk_reader keeps a window, fills it to p.max bytes or the    *)
(* end of the file, cuts one chunk off its front with fastcdc_cut and      *)
(* writes a manifest line.  A word has WordBits bits (64 in the code) and  *)
(* a file two different bytes; sizes are scaled down.                      *)
(***************************************************************************)

CONSTANTS
    Files,          \* the files chunked: sequences of bytes 0 and 1
    Settings,       \* what the environment sets: [avg, min, max], 0 when unset
    WordBits,
    DEFAULT_AVG, MIN_AVG,
    TmpLen          \* the most that one read returns (65536 in the code)

VARIABLES
    whole,      \* the file
    p,          \* Params
    unread,     \* what the reader has not returned yet
    win,        \* buf: the window
    eof,
    abs,        \* offset of the window in the file
    manifest,   \* the lines written: [off, len, bytes]; the hash names the bytes
    cstate      \* "run", "done" or "panic"

kvars == <<whole, p, unread, win, eof, abs, manifest, cstate>>

Larger(a, b) == IF a > b THEN a ELSE b
Smaller(a, b) == IF a < b THEN a ELSE b

\* the two entries of the gear table that the model's bytes use
GEAR == [b \in {0, 1} |-> IF b = 0 THEN 1 ELSE 2]

floor_log2(n) == CHOOSE k \in 0 .. n : 2 ^ k <= n /\ n < 2 ^ (k + 1)

\* spread_mask: the set of bits of the mask, spread over 1 .. WordBits - 3
spread_mask(bits) ==
    LET n == Larger(1, Smaller(bits, WordBits - 4))
    IN  {1 + (k * (WordBits - 3)) \div n : k \in 0 .. n - 1}

\* params: the environment's sizes, or sizes derived from the average
params(env) ==
    LET avg == Larger(IF env.avg > 0 THEN env.avg ELSE DEFAULT_AVG, MIN_AVG)
        min == Larger(IF env.min > 0 THEN env.min ELSE avg \div 4, 1)
        max == Larger(IF env.max > 0 THEN env.max ELSE avg * 4, min + 1)
        b == floor_log2(avg)
    IN  [min |-> min, avg |-> avg, max |-> max,
         mask_s |-> spread_mask(b + 2), mask_l |-> spread_mask(Larger(b - 2, 1))]

Masked(fp, mask) == \A bit \in mask : (fp \div 2 ^ bit) % 2 = 0

\* fastcdc_cut: the length of the first chunk of data.  The rolling hash
\* starts at p.min, the strict mask holds up to the average.
fastcdc_cut(data) ==
    LET n == Smaller(Len(data), p.max)
        normal == Smaller(p.avg, n)
        fp[i \in p.min - 1 .. n - 1] ==
            IF i < p.min THEN 0 ELSE (2 * fp[i - 1] + GEAR[data[i + 1]]) % 2 ^ WordBits
        cuts == {i \in p.min .. n - 1 : Masked(fp[i], IF i < normal THEN p.mask_s ELSE p.mask_l)}
    IN  IF Len(data) <= p.min THEN Len(data)
        ELSE IF cuts = {} THEN n ELSE Min(cuts)

KInit ==
    /\ whole \in Files /\ \E env \in Settings : p = params(env)
    /\ unread = whole /\ win = <<>> /\ eof = FALSE /\ abs = 0
    /\ manifest = <<>> /\ cstate = "run"

\* slip: a window longer than the smallest chunk counts as filled
FilledToMin == eof \/ Len(win) > p.min

\* the window holds p.max bytes or all that is left
Filled == eof \/ Len(win) >= p.max

\* one read into the window; it may return less than asked, and nothing only
\* at the end of the file
Read ==
    /\ cstate = "run" /\ ~Filled
    /\ IF unread = <<>>
       THEN eof' = TRUE /\ UNCHANGED <<unread, win>>
       ELSE \E k \in 1 .. Smaller(TmpLen, Len(unread)) :
                /\ win' = win \o SubSeq(unread, 1, k)
                /\ unread' = SubSeq(unread, k + 1, Len(unread))
                /\ UNCHANGED eof
    /\ UNCHANGED <<whole, p, abs, manifest, cstate>>

\* a read that fails ends chunk_file in a panic: no manifest is returned
ReadFails ==
    /\ cstate = "run" /\ ~Filled /\ cstate' = "panic" /\ manifest' = <<>>
    /\ UNCHANGED <<whole, p, unread, win, eof, abs>>

\* one chunk off the front of a filled window
Cut ==
    /\ cstate = "run" /\ Filled /\ win # <<>>
    /\ LET n == fastcdc_cut(win)
       IN  /\ manifest' = Append(manifest, [off |-> abs, len |-> n, bytes |-> SubSeq(win, 1, n)])
           /\ abs' = abs + n
           /\ win' = SubSeq(win, n + 1, Len(win))
    /\ UNCHANGED <<whole, p, unread, eof, cstate>>

Finish ==
    /\ cstate = "run" /\ Filled /\ win = <<>> /\ cstate' = "done"
    /\ UNCHANGED <<whole, p, unread, win, eof, abs, manifest>>

KNext == Read \/ ReadFails \/ Cut \/ Finish
KSpec == KInit /\ [][KNext]_kvars

(***************************************************************************)
(* What the chunks of a file are, without a window: the hash of a position *)
(* is a weighted sum of the bytes since the smallest size, and a chunk     *)
(* ends at the first position whose hash passes its mask.                  *)
(***************************************************************************)
HashAt(o, i) ==
    MapThenSumSet(LAMBDA j : 2 ^ (i - j) * GEAR[whole[o + j + 1]], p.min .. i) % 2 ^ WordBits
Boundary(o, i) ==
    Masked(HashAt(o, i), IF i < p.avg THEN p.mask_s ELSE p.mask_l)
ChunkLength(o) ==
    LET last == Smaller(Len(whole) - o, p.max)
        inner == {i \in p.min .. last - 1 : Boundary(o, i)}
    IN  IF inner = {} THEN last ELSE Min(inner)

\* The manifest depends on the bytes of the file alone, not on how the reads
\* fell: its chunks lie end to end from offset 0, each is what the definition
\* above cuts from the whole file, none but the last is below the minimum or
\* any above the maximum, and a manifest that is returned covers the file.
ManifestIsContentDefined ==
    /\ \A k \in DOMAIN manifest :
        LET c == manifest[k]
        IN  /\ c.off = (IF k = 1 THEN 0 ELSE manifest[k - 1].off + manifest[k - 1].len)
            /\ c.len = ChunkLength(c.off) /\ c.len <= p.max
            /\ c.bytes = SubSeq(whole, c.off + 1, c.off + c.len)
            /\ k < Len(manifest) => c.len >= p.min
    /\ cstate = "done" =>
        Len(whole) = (IF manifest = <<>> THEN 0 ELSE Last(manifest).off + Last(manifest).len)
=============================================================================
