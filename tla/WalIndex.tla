------------------------------ MODULE WalIndex ------------------------------
(***************************************************************************)
(* runtime/walindex.rs, fieldidx.rs, pkindex.rs, hotblk_recover.rs and     *)
(* blockfile.rs: the projections of one shard that are rebuilt from its    *)
(* framed WAL segments and from its sealed hot blocks; and, at the end of  *)
(* the module, the in-memory indexes in front of them.                     *)
(*                                                                         *)
(* A segment is a sequence of frames, an offset a number of frames; Torn   *)
(* is a frame that does not parse or whose payload does not hash to its    *)
(* digest.  A frame carries its digest `hash', the binding its envelope    *)
(* spells (NoName: none, or a FACT or CONTRADICTS line) and the postings   *)
(* its payload declares: (field value, digest) pairs.                      *)
(***************************************************************************)
EXTENDS Integers, Sequences, FiniteSets, SequencesExt, Functions

CONSTANTS
    FrameSet,       \* the frames writers append: [hash, name, posts]
    Torn, NoName, Absent,
    SegFrames,
    MaxFrames, MaxBlocks,   \* how much is written, for each projection
    MaxSnaps,
    MaxMishaps    \* crashes, and damages to a snapshot

VARIABLES
    wal,        \* <prefix><seq>.log; wal[s + 1] is segment s
    synced,     \* how much of the last segment an fsync has covered
    blocks,     \* block-<seq>.bin: Absent, or [size, body]
    ackedRows,  \* blocks whose fsync has returned
    prealloc,   \* AXVERITY_BLOCK_PREALLOC
    kind,       \* the projection this behaviour is about: they share no state
    handle,     \* its thread-local shard, or Absent; `misled' (ghost): a false
                \* snapshot has been loaded into it
    snap,       \* its snapshot file, or Absent; `false' (ghost): it was altered,
                \* or a crash has taken frames it covers
    snaps, mishaps

media == <<wal, synced, blocks, ackedRows, prealloc, kind>>
vars == <<media, handle, snap, snaps, mishaps>>

\* walindex.rs, fieldidx.rs, pkindex.rs, hotblk_recover.rs
Kinds == {"content", "field", "pk", "recover"}
Empty == [x \in {} |-> 0]
Fresh == [map |-> Empty, at |-> <<0, 0>>, hb |-> 1, misled |-> FALSE]

Init ==
    /\ wal = << <<>> >> /\ synced = 0
    /\ kind \in Kinds
    /\ blocks = [b \in 1 .. MaxBlocks[kind] + 1 |-> Absent]
    /\ ackedRows = {}
    /\ prealloc \in BOOLEAN
    /\ handle = Absent /\ snap = Absent
    /\ snaps = 0 /\ mishaps = 0
-----------------------------------------------------------------------------
(* The one frame scanner.                                                  *)

\* where parse_frames_from_bytes stops: at the first torn frame, or the end
ParseEnd(data, from) ==
    IF from >= Len(data) THEN from
    ELSE CHOOSE e \in from .. Len(data) :
            /\ \A i \in from + 1 .. e : data[i] # Torn
            /\ e = Len(data) \/ data[e + 1] = Torn

\* walk_frames: the frontier, and the frames visited with their places; on
\* to the next segment only from a clean end
walk_frames(seg, off) ==
    LET walk[s \in seg .. Len(wal)] ==
            LET from == IF s = seg THEN off ELSE 0
                data == wal[s + 1]
                end  == ParseEnd(data, from)
                here == [i \in 1 .. end - from |-> [at |-> <<s, from + i - 1>>,
                                                    frame |-> data[from + i]]]
            IN  IF s >= Len(wal) THEN [at |-> <<s, from>>, seen |-> <<>>]
                ELSE IF end = Len(data) /\ s + 1 < Len(wal)
                THEN LET rest == walk[s + 1]
                     IN  [at |-> rest.at, seen |-> here \o rest.seen]
                ELSE [at |-> <<s, end>>, seen |-> here]
    IN  walk[seg]

\* slip: presence is taken for completeness
SplitByPresence(b) == b # Absent

\* split_complete: a file bearing its trailer is complete; one without is
\* complete only where blocks are renamed into place
split_complete(b) == b # Absent /\ (b.trailer \/ ~prealloc)

body_is_intact(b) == ParseEnd(b.body, 0) = Len(b.body)

\* the first block a walk from b cannot step past
BlockFrontier(from) ==
    CHOOSE b \in from .. Len(blocks) :
        /\ ~(split_complete(blocks[b]) /\ body_is_intact(blocks[b]))
        /\ \A c \in from .. b - 1 : split_complete(blocks[c]) /\ body_is_intact(blocks[c])

\* walk_hotblk_frames; the valid prefix of a block that is complete and not
\* intact is visited, and the block is not stepped past
walk_hotblk_frames(from) ==
    LET last == BlockFrontier(from)
        visit(b) == IF split_complete(blocks[b])
                    THEN [i \in 1 .. ParseEnd(blocks[b].body, 0) |->
                            [at |-> <<-b, i - 1>>, frame |-> blocks[b].body[i]]]
                    ELSE <<>>
    IN  [next |-> last,
         seen |-> FlattenSeq([i \in 1 .. last - from + 1 |-> visit(from + i - 1)])]
-----------------------------------------------------------------------------
(* What the visitors record.                                               *)

Bind(m, key, v) == [x \in DOMAIN m \union {key} |-> IF x = key THEN v ELSE m[x]]

\* push_dedup on the posting list of key
push_dedup(m, key, h) ==
    IF key \notin DOMAIN m THEN Bind(m, key, <<h>>)
    ELSE IF h \in Range(m[key]) THEN m ELSE [m EXCEPT ![key] = Append(@, h)]

\* index_payload: every cell of a RECORD under the frame's own digest, the
\* one triple of a FIELDIDX line under the digest it declares
index_payload(m, f) ==
    FoldLeft(LAMBDA acc, p : push_dedup(acc, p[1], p[2]), m, f.posts)

Visit(m, e) ==
    IF kind = "content" THEN Bind(m, e.frame.hash, e.at) ELSE index_payload(m, e.frame)

VisitAll(m, seen) == FoldLeft(Visit, m, seen)

\* slip: the first binding of a name is kept
BindNamesFirst(m, seen) ==
    FoldLeft(LAMBDA acc, e : IF e.frame.name \in DOMAIN acc \union {NoName} THEN acc
                             ELSE Bind(acc, e.frame.name, e.frame.hash), m, seen)

\* env_to_name and last-append-wins
BindNames(m, seen) ==
    FoldLeft(LAMBDA acc, e : IF e.frame.name = NoName THEN acc
                             ELSE Bind(acc, e.frame.name, e.frame.hash), m, seen)

\* bump_frontier
Later(p, q) == p[1] > q[1] \/ (p[1] = q[1] /\ p[2] > q[2])
bump_frontier(sh, at) == IF Later(at, sh.at) THEN [sh EXCEPT !.at = at] ELSE sh

scan_hotblk(sh) ==
    LET w == walk_hotblk_frames(sh.hb)
    IN  [sh EXCEPT !.map = VisitAll(sh.map, w.seen), !.hb = w.next]

\* load_snapshot: nothing of a file that is missing, whose lines are not as
\* many as its header says, or whose entries lie in hot blocks (a negative
\* segment).  A location or a digest is taken as it stands.
SnapshotValid ==
    /\ snap # Absent
    /\ Cardinality(snap.lines) = snap.count
    /\ kind = "content" => \A l \in snap.lines : l[2][1] >= 0

\* a line of the file replaces a location and extends a posting list
Merge(m, lines, x) ==
    LET said == {l[2] : l \in {k \in lines : k[1] = x}}
        old == IF x \in DOMAIN m THEN m[x] ELSE <<>>
    IN  IF said = {} THEN old
        ELSE IF kind = "content" THEN CHOOSE loc \in said : TRUE
        ELSE old \o SetToSeq(said \ Range(old))

load_snapshot(sh) ==
    IF ~SnapshotValid THEN [map |-> sh.map, wm |-> <<0, 0>>, misled |-> sh.misled]
    ELSE [map |-> [x \in DOMAIN sh.map \union {l[1] : l \in snap.lines} |->
                       Merge(sh.map, snap.lines, x)],
          wm |-> snap.wm, misled |-> sh.misled \/ snap.false]

do_rebuild(sh) ==
    LET l == load_snapshot(sh)
        w == walk_frames(l.wm[1], l.wm[2])
    IN  scan_hotblk([bump_frontier(bump_frontier(sh, l.wm), w.at) EXCEPT
                        !.map = VisitAll(l.map, w.seen), !.misled = l.misled])

\* do_replay, with the stat guard that skips a read without a delta
WalHasDelta(sh) ==
    \/ sh.at[1] + 1 < Len(wal)
    \/ sh.at[1] < Len(wal) /\ Len(wal[sh.at[1] + 1]) > sh.at[2]

do_replay(sh) ==
    LET w == walk_frames(sh.at[1], sh.at[2])
    IN  scan_hotblk(IF WalHasDelta(sh)
                    THEN [bump_frontier(sh, w.at) EXCEPT !.map = VisitAll(sh.map, w.seen)]
                    ELSE sh)
-----------------------------------------------------------------------------
(* The writers of the media (external: the log and block writers).         *)

\* a frame written to the last segment, not yet fsynced; a full segment is
\* fsynced before the next one is opened
AppendFrame(f) ==
    LET last == Last(wal)
    IN  /\ (Len(wal) - 1) * SegFrames + Len(last) < MaxFrames[kind]
        /\ IF Len(last) < SegFrames
           THEN wal' = [wal EXCEPT ![Len(wal)] = Append(last, f)] /\ UNCHANGED synced
           ELSE wal' = Append(wal, <<f>>) /\ synced' = 0
        /\ UNCHANGED <<blocks, ackedRows, prealloc, kind, handle, snap, snaps, mishaps>>

Fsync ==
    /\ synced < Len(Last(wal))
    /\ synced' = Len(Last(wal))
    /\ UNCHANGED <<wal, blocks, ackedRows, prealloc, kind, handle, snap, snaps, mishaps>>

\* the next block: pre-created empty, then partly written, then complete
\* with its trailer; renamed into place whole where nothing is preallocated
NextBlock == Cardinality(ackedRows) + 1
NoFile == [trailer |-> FALSE, body |-> <<>>]

WriteBlock(f) ==
    /\ NextBlock < Len(blocks)
    /\ LET b == NextBlock
           old == blocks[b]
       IN  \/ /\ prealloc /\ old = Absent
              /\ blocks' = [blocks EXCEPT ![b] = NoFile]
              /\ UNCHANGED ackedRows
           \/ /\ prealloc /\ old = NoFile
              /\ blocks' = [blocks EXCEPT ![b].body = <<f>>]
              /\ UNCHANGED ackedRows
           \/ /\ IF prealloc THEN old # Absent /\ old.body # <<>> ELSE old = Absent
              /\ blocks' = [blocks EXCEPT ![b] = [trailer |-> prealloc, body |-> <<f>>]]
              /\ ackedRows' = ackedRows \union {b}
    /\ UNCHANGED <<wal, synced, prealloc, kind, handle, snap, snaps, mishaps>>

\* a power loss: the unsynced tail of the last segment is cut anywhere, or
\* torn; a block that was being written may keep its trailer over a hole
Crash ==
    /\ mishaps < MaxMishaps
    /\ \E n \in synced .. Len(Last(wal)), t \in BOOLEAN :
        LET kept == SubSeq(Last(wal), 1, n)
        IN  /\ t => n < Len(Last(wal))
            /\ wal' = [wal EXCEPT ![Len(wal)] = IF t THEN Append(kept, Torn) ELSE kept]
            /\ synced' = Len(wal'[Len(wal)])
            /\ snap' = IF snap # Absent /\ Later(snap.wm, <<Len(wal) - 1, n>>)
                       THEN [snap EXCEPT !.false = TRUE] ELSE snap
    /\ IF NextBlock < Len(blocks) /\ blocks[NextBlock] # Absent
       THEN \E x \in {NoFile, blocks[NextBlock], [trailer |-> TRUE, body |-> <<Torn>>]} :
                blocks' = [blocks EXCEPT ![NextBlock] = x]
       ELSE UNCHANGED blocks
    /\ handle' = Absent
    /\ mishaps' = mishaps + 1
    /\ UNCHANGED <<ackedRows, prealloc, kind, snaps>>
-----------------------------------------------------------------------------
(* The operations of the projections.                                      *)

SetHandle(sh) == handle' = sh /\ UNCHANGED <<media, snap, snaps, mishaps>>

\* first touch rebuilds, later ones replay; the answer is read from the map
ResGet(k) ==
    /\ kind = k
    /\ SetHandle(IF handle = Absent THEN do_rebuild(Fresh) ELSE do_replay(handle))

\* a query boundary drops the resident handle
ResScope(k) == kind = k /\ handle # Absent /\ SetHandle(Absent)

\* walidx_replay, fieldidx_replay: incremental, from the handle's own frontier
Replay(k) == kind = k /\ handle # Absent /\ SetHandle(do_replay(handle))

Rebuild(k) == kind = k /\ handle # Absent /\ SetHandle(do_rebuild(handle))

\* One file per shard, replaced by fsync and rename, with a line per location
\* or posting.  Nothing makes the frames it covers durable first.
Snapshot(k) ==
    /\ kind = k /\ handle # Absent /\ snaps < MaxSnaps
    /\ LET said(x) == IF k = "content" THEN {handle.map[x]} ELSE Range(handle.map[x])
           lines == UNION {{<<x, v>> : v \in said(x)} : x \in DOMAIN handle.map}
       IN  snap' = [wm |-> handle.at, lines |-> lines, count |-> Cardinality(lines),
                    false |-> handle.misled]
    /\ snaps' = snaps + 1
    /\ UNCHANGED <<media, handle, mishaps>>

\* what an altered location or digest may say
Altered == IF kind = "content" THEN {<<0, 0>>, <<0, 1>>} ELSE {f.hash : f \in FrameSet}

\* The disposable file is removed, is cut short, or has a digit altered: in
\* the watermark, a location or a digest.  A cut inside the digits of the last
\* line is such an alteration.
SnapDamage ==
    /\ snap # Absent /\ mishaps < MaxMishaps /\ mishaps' = mishaps + 1
    /\ \/ snap' = Absent
       \/ \E l \in snap.lines : snap' = [snap EXCEPT !.lines = @ \ {l}]
       \/ \E l \in snap.lines, v \in Altered :
            /\ v # l[2]
            /\ snap' = [snap EXCEPT !.lines = (@ \ {l}) \union {<<l[1], v>>}, !.false = TRUE]
       \/ snap' = [snap EXCEPT !.wm = <<0, @[2] + 1>>, !.false = TRUE]
    /\ UNCHANGED <<media, handle, snaps>>

\* walidx_insert: the writer indexes the frame it has just appended
walidx_insert(f) ==
    LET s == Len(wal) - 1
        o == Len(Last(wal))
    IN  /\ kind = "content" /\ handle # Absent
        /\ o > 0 /\ handle.at = <<s, o - 1>> /\ Last(Last(wal)) = f
        /\ SetHandle(bump_frontier([handle EXCEPT !.map = Bind(@, f.hash, <<s, o - 1>>)],
                                   <<s, o>>))

walidx_res_get == ResGet("content")
walidx_res_scope == ResScope("content")
walidx_rebuild == Rebuild("content")
walidx_replay == Replay("content")
walidx_snapshot == Snapshot("content")
fieldidx_res_get == ResGet("field")
fieldidx_res_scope == ResScope("field")
fieldidx_rebuild == Rebuild("field")
fieldidx_replay == Replay("field")
fieldidx_snapshot == Snapshot("field")

\* pkidx_rebuild: a full replay of the segments, into the open shard
pkidx_rebuild ==
    /\ kind = "pk"
    /\ SetHandle(BindNames(IF handle = Absent THEN Empty ELSE handle, walk_frames(0, 0).seen))

\* hotblk_recover_rebuild: a full walk of the blocks, into the open shard
hotblk_recover_rebuild ==
    LET w == walk_hotblk_frames(1)
        old == IF handle = Absent THEN [pk |-> Empty, hashes |-> {}] ELSE handle
    IN  /\ kind = "recover"
        /\ SetHandle([pk |-> BindNames(old.pk, w.seen),
                      hashes |-> old.hashes \union {e.frame.hash : e \in Range(w.seen)}])

Next ==
    \/ \E f \in FrameSet : AppendFrame(f) \/ WriteBlock(f) \/ walidx_insert(f)
    \/ Fsync \/ Crash \/ SnapDamage
    \/ walidx_res_get \/ walidx_res_scope \/ walidx_rebuild
    \/ walidx_replay \/ walidx_snapshot
    \/ fieldidx_res_get \/ fieldidx_res_scope \/ fieldidx_rebuild
    \/ fieldidx_replay \/ fieldidx_snapshot
    \/ pkidx_rebuild \/ hotblk_recover_rebuild

Spec == Init /\ [][Next]_vars
-----------------------------------------------------------------------------
\* the frame at a place of the media
At(p) == IF p[1] < 0 THEN blocks[-p[1]].body[p[2] + 1] ELSE wal[p[1] + 1][p[2] + 1]
Exists(p) == IF p[1] < 0 THEN blocks[-p[1]] # Absent /\ p[2] < Len(blocks[-p[1]].body)
             ELSE p[1] < Len(wal) /\ p[2] < Len(wal[p[1] + 1])

\* every frame a reader can reach, by a scan of the whole store
Reachable == {e.frame : e \in Range(walk_frames(0, 0).seen \o walk_hotblk_frames(1).seen)}

\* the lookups: a location, a posting list, a bound digest; Absent for ""
walidx_get(m, h) == IF h \in DOMAIN m THEN m[h] ELSE Absent
fieldidx_get(m, key) == IF key \in DOMAIN m THEN m[key] ELSE <<>>
pkidx_get(m, name) == IF name \in DOMAIN m THEN m[name] ELSE Absent
hotblk_recover_pk_get(sh, name) == IF name \in DOMAIN sh.pk THEN sh.pk[name] ELSE Absent
hotblk_recover_has_hash(sh, h) == h \in sh.hashes

ContentExact(m) ==
    \A h \in {f.hash : f \in FrameSet} :
        LET p == walidx_get(m, h)
        IN  IF \E f \in Reachable : f.hash = h
            THEN p # Absent /\ Exists(p) /\ At(p) # Torn /\ At(p).hash = h
            ELSE p = Absent

PostingsExact(m) ==
    LET all == UNION {Range(f.posts) : f \in Reachable}
    IN  \A key \in UNION {{p[1] : p \in Range(f.posts)} : f \in FrameSet} :
            LET list == fieldidx_get(m, key)
            IN  /\ Range(list) = {p[2] : p \in {q \in all : q[1] = key}}
                /\ Cardinality(Range(list)) = Len(list)

\* After walidx_res_get and fieldidx_res_get the map is the one of a full scan,
\* whichever replays, torn tails, reboots and half-written blocks came before,
\* unless the handle has loaded a snapshot that covered frames a crash took or
\* that had a number altered: a snapshot that is missing, stale, short of a line
\* or full of hot-block entries only costs a longer replay.
ReadsAreExact ==
    [][ /\ walidx_res_get /\ ~handle'.misled => ContentExact(handle'.map)
        /\ fieldidx_res_get /\ ~handle'.misled => PostingsExact(handle'.map) ]_vars

\* "A stale, corrupt, or missing snapshot therefore degrades to more WAL
\* replay, never to a wrong answer" (walindex.rs:29), said of every handle.
SnapshotIsDisposable ==
    [][ walidx_res_get => ContentExact(handle'.map) ]_vars

\* "last-append-wins by frame order": after pkidx_rebuild a name resolves to
\* the digest of the last reachable frame that binds it, also when the shard
\* had been rebuilt before from a shorter log.
LatestBindingWins ==
    [][ pkidx_rebuild =>
        LET seen == walk_frames(0, 0).seen
        IN  \A i \in 1 .. Len(seen) :
                \/ seen[i].frame.name = NoName
                \/ \E j \in i + 1 .. Len(seen) : seen[j].frame.name = seen[i].frame.name
                \/ pkidx_get(handle', seen[i].frame.name) = seen[i].frame.hash ]_vars

\* A row of a block whose fsync returned is found by hotblk_recover_rebuild
\* after any crash, and a name bound in such blocks never resolves to an
\* older binding than the last acknowledged one.
AckedRowsRecovered ==
    [][ hotblk_recover_rebuild =>
        \A b \in ackedRows : \A f \in Range(blocks[b].body) :
            /\ hotblk_recover_has_hash(handle', f.hash)
            /\ f.name # NoName =>
                   \E c \in b .. Len(blocks) : blocks[c] # Absent /\
                    \E g \in Range(blocks[c].body) : g # Torn /\ g.name = f.name
                        /\ hotblk_recover_pk_get(handle', f.name) = g.hash ]_vars
-----------------------------------------------------------------------------
(***************************************************************************)
(* runtime/contentidx.rs, bindidx.rs and nameptr.rs: what a read finds in  *)
(* memory between the moment a row is acknowledged and the moment the      *)
(* recovery log has made it durable.  The insert, the janitor and          *)
(* pull_object are M1 programs and the recovery log (module Reclog),       *)
(* modelled from what these files say of them.                             *)
(***************************************************************************)

CONSTANTS
    Writers,            \* worker threads that insert and delete
    Names, Hashes,      \* row names and content hashes
    shard,              \* the contentidx shard of a hash
    ShardCap,           \* per_shard_cap(): the total divided by the shards
    ReclogCap, ReclogBatch,
    Tombstoned, NoBind, \* "TOMBSTONED", and the "" of a miss
    MaxInserts, MaxRestarts

Shards == {shard[h] : h \in Hashes}

VARIABLES
    fifo,       \* contentidx: the keys of each shard, oldest first (its map has the same keys)
    puts,       \* ghost: every key put in each shard since the process started
    binds,      \* bindidx: name -> value
    toggle,     \* nameptr of each thread: name -> [slots, current]
    writer,     \* the insert each thread has under way: [at, name, hash]
    raced,      \* ghost: names two threads were writing at once
    feed, drained, \* rows on their way to the janitor, rows it is fsyncing
    saved,      \* content hashes found in the durable tiers
    log,        \* name -> what the durable name log says
    reader,     \* [at, hash]
    inserts, restarts

written == <<fifo, puts, binds, toggle, writer, raced>>
later == <<feed, drained, saved, log>>
nvars == <<written, later, reader, inserts, restarts>>

WIdle == [at |-> "idle", name |-> NoBind, hash |-> NoBind]
RIdle == [at |-> "idle", hash |-> NoBind]
NoCell == [slots |-> <<NoBind, NoBind>>, current |-> 0]

NoKeys == [s \in Shards |-> <<>>]
Unbound == [n \in Names |-> NoBind]
NoCells == [w \in Writers |-> [n \in Names |-> NoCell]]
AllIdle == [w \in Writers |-> WIdle]

NInit ==
    /\ fifo = NoKeys /\ puts = NoKeys /\ binds = Unbound /\ toggle = NoCells
    /\ writer = AllIdle /\ raced = {} /\ feed = <<>> /\ drained = <<>>
    /\ saved = {} /\ log = Unbound
    /\ reader = RIdle /\ inserts = 0 /\ restarts = 0

\* slip: the shard is made one entry shorter than its cap allows
ContentPutShort(keys, h) ==
    IF h \in Range(keys) THEN keys
    ELSE Append(IF Len(keys) + 1 >= ShardCap THEN Tail(keys) ELSE keys, h)

\* contentidx_put: insert if absent; the oldest entry goes when the shard is full
contentidx_put(keys, h) ==
    IF h \in Range(keys) THEN keys
    ELSE Append(IF Len(keys) >= ShardCap THEN Tail(keys) ELSE keys, h)

\* nameptr_set: fill the idle slot, then flip; the first set makes the cell
nameptr_set(cell, line) ==
    IF cell.current = 0 THEN [slots |-> <<line, NoBind>>, current |-> 1]
    ELSE LET idle == 3 - cell.current
         IN  [slots |-> [cell.slots EXCEPT ![idle] = line], current |-> idle]

nameptr_get(cell) == IF cell.current = 0 THEN NoBind ELSE cell.slots[cell.current]

\* thread w starts to write name n
Begin(w, n, h) ==
    /\ writer[w].at = "idle" /\ inserts < MaxInserts
    /\ inserts' = inserts + 1
    /\ writer' = [writer EXCEPT ![w] = [at |-> "bind", name |-> n, hash |-> h]]
    /\ raced' = IF \E x \in Writers \ {w} : writer[x].name = n THEN raced \union {n} ELSE raced

\* An insert publishes its bytes, then its binding, then hands the row to the
\* recovery log, waiting while the channel is full.
InsertContent(w, n, h) ==
    /\ Begin(w, n, h)
    /\ fifo' = [fifo EXCEPT ![shard[h]] = contentidx_put(@, h)]
    /\ puts' = IF h \in Range(fifo[shard[h]]) THEN puts
               ELSE [puts EXCEPT ![shard[h]] = Append(@, h)]
    /\ UNCHANGED <<binds, toggle, later, reader, restarts>>

\* a delete binds the name to the tombstone and has no content
Delete(w, n) ==
    /\ Begin(w, n, Tombstoned) /\ binds[n] \in Hashes
    /\ UNCHANGED <<fifo, puts, binds, toggle, later, reader, restarts>>

\* bindidx_put: the last writer wins; and the cell of the thread
InsertBind(w) ==
    /\ writer[w].at = "bind"
    /\ LET row == writer[w]
       IN  /\ binds' = [binds EXCEPT ![row.name] = row.hash]
           /\ toggle' = [toggle EXCEPT ![w][row.name] = nameptr_set(@, row.hash)]
    /\ writer' = [writer EXCEPT ![w].at = "send"]
    /\ UNCHANGED <<fifo, puts, raced, later, reader, inserts, restarts>>

InsertSend(w) ==
    /\ writer[w].at = "send" /\ Len(feed) < ReclogCap
    /\ feed' = Append(feed, [name |-> writer[w].name, hash |-> writer[w].hash])
    /\ writer' = [writer EXCEPT ![w] = WIdle]
    /\ UNCHANGED <<fifo, puts, binds, toggle, raced, drained, saved, log, reader, inserts, restarts>>

JanitorTake ==
    /\ drained = <<>> /\ feed # <<>>
    /\ \E k \in 1 .. Len(feed) : /\ k <= ReclogBatch
                                 /\ drained' = SubSeq(feed, 1, k)
                                 /\ feed' = SubSeq(feed, k + 1, Len(feed))
    /\ UNCHANGED <<written, saved, log, reader, inserts, restarts>>

JanitorSync ==
    /\ drained # <<>> /\ drained' = <<>>
    /\ saved' = saved \union ({drained[i].hash : i \in 1 .. Len(drained)} \ {Tombstoned})
    /\ log' = FoldLeft(LAMBDA l, row : [l EXCEPT ![row.name] = row.hash], log, drained)
    /\ UNCHANGED <<written, feed, reader, inserts, restarts>>

\* resolve_name on some thread: a cell of its own comes first, then
\* bindidx_get, and a miss is answered by the durable log
resolve_name(n, own) ==
    IF own \in Writers /\ nameptr_get(toggle[own][n]) # NoBind THEN nameptr_get(toggle[own][n])
    ELSE IF binds[n] # NoBind THEN binds[n] ELSE log[n]

Threads == Writers \union {NoBind}

Resolve(n, own) ==
    /\ reader.at = "idle" /\ resolve_name(n, own) \in Hashes
    /\ reader' = [at |-> "pull", hash |-> resolve_name(n, own)]
    /\ UNCHANGED <<written, later, inserts, restarts>>

Found(h) == h \in Range(fifo[shard[h]]) \union saved

\* pull_object: contentidx_get, then the durable tiers; a miss in all of them panics
Pull ==
    /\ reader.at = "pull"
    /\ reader' = IF Found(reader.hash) THEN RIdle ELSE [reader EXCEPT !.at = "panicked"]
    /\ UNCHANGED <<written, later, inserts, restarts>>

\* the process dies: the indexes are cold and unsynced rows are gone
Restart ==
    /\ restarts < MaxRestarts /\ restarts' = restarts + 1
    /\ fifo' = NoKeys /\ puts' = NoKeys /\ binds' = Unbound /\ toggle' = NoCells
    /\ writer' = AllIdle /\ raced' = {} /\ feed' = <<>> /\ drained' = <<>> /\ reader' = RIdle
    /\ UNCHANGED <<saved, log, inserts>>

NNext ==
    \/ \E w \in Writers :
        \/ InsertBind(w) \/ InsertSend(w)
        \/ \E n \in Names : Delete(w, n) \/ \E h \in Hashes : InsertContent(w, n, h)
    \/ \E n \in Names, own \in Threads : Resolve(n, own)
    \/ JanitorTake \/ JanitorSync \/ Pull \/ Restart

NSpec == NInit /\ [][NNext]_nvars
-----------------------------------------------------------------------------
\* what readers may be about to pull
Wanted ==
    ({resolve_name(n, own) : n \in Names, own \in Threads} \intersect Hashes)
    \union (IF reader.at = "pull" THEN {reader.hash} ELSE {})

\* A name that resolves can be pulled: the bytes of a row are in contentidx or
\* on disk from the moment its name resolves, on the thread that bound it and
\* on every other, also after a restart, unless ShardCap later rows have been
\* put in its shard before the janitor has fsynced it.  Each shard alone must
\* have room for what is put while a row is in flight: rows of one shard that
\* outrun the janitor, or an insert that is held up before its send, are lost
\* to a reader, which panics.  When nothing is under way a name that no two
\* threads wrote at once is in the durable log as in memory, and the cell of
\* the thread that bound it says the same.
ResolvedIsPullable ==
    /\ \A h \in Wanted :
        \/ Found(h)
        \/ LET p == puts[shard[h]]
           IN  /\ h \in Range(p)
               /\ \A i \in DOMAIN p : p[i] = h => i + ShardCap <= Len(p)
    /\ \A n \in Names :
        /\ \E w \in Writers : nameptr_get(toggle[w][n]) = binds[n]
        /\ /\ feed = <<>> /\ drained = <<>> /\ binds[n] # NoBind /\ n \notin raced
           /\ \A w \in Writers : writer[w].at \in {"idle", "bind"}
           => binds[n] = log[n]

\* "FIFO eviction only ever removes entries that are long since fsynced"
\* (contentidx.rs:42), with twice the room, all shards together, that the
\* channel and a batch can hold.
EvictedIsDurable ==
    \A s \in Shards : Range(puts[s]) \ Range(fifo[s]) \subseteq saved
=============================================================================
