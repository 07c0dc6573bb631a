----------------------------- MODULE StoreFiles -----------------------------
(***************************************************************************)
(* Files that grow or are replaced: the append paths of a single writer    *)
(* (runtime/logbuf.rs, mmapseg.rs, slabshadow.rs), and durable writes and  *)
(* appends by several threads (bytes_io.rs, io.rs).                        *)
(***************************************************************************)
EXTENDS Integers, Sequences, FiniteSets, SequencesExt, Functions

-----------------------------------------------------------------------------
(***************************************************************************)
(* Three append paths of a single writer thread: runtime/logbuf.rs (a      *)
(* buffer, a write, an fsync), mmapseg.rs (a shared mapping flushed in the *)
(* background) and slabshadow.rs (the drop-on-full tap of the SLA writer). *)
(* Records of the log buffer are one cell long; a frame of the mapping has *)
(* a length cell and its payload cells, the checksum being that all cells  *)
(* belong to one frame.  A failed write, fsync or msync is one of the      *)
(* failures, like a kill or a power loss; an fsync that succeeds later     *)
(* covers the cells of one that failed.                                    *)
(***************************************************************************)

CONSTANTS
    Cap, Page,          \* cells of the mapping and of a page
    MinPayload,         \* shortest record given to mmapseg_append
    TapCap,             \* capacity of the shadow channel
    MaxAppends, MaxFailures

Zero == <<0, 0, 0>>

VARIABLES
    path,               \* "logbuf", "mmapseg" or "tap": what this behaviour is about
    file, onDisk,       \* the log file; how much of it no power loss can take
    buf, file_len,      \* LogBuf
    offsets,            \* ghost: record -> offset given out, this life
    promised,           \* ghost: records a logbuf_sync or a batch write vouched for
    fast,               \* ghost: records written by logbuf_flush and not fsynced since
    stray,              \* ghost: records that moved from where they were promised
    mem, platter,       \* the mapping's pages in the page cache, and on the device
    cursor, msynced,    \* MmapSeg
    held, flushed,      \* ghost: records below the cursor, now and at the last flush
    unsure,             \* ghost: the watermark has passed pages that no flush took
    rotated,            \* mmapseg_append answered -1
    tap, janitor,       \* the shadow channel, the janitor's life
    submitted, dropped, shadowed,
    gone,               \* ghost: rows the janitor held when it panicked
    appends, failures

lvars == <<file, onDisk, buf, file_len, offsets, promised, fast, stray>>
mvars == <<mem, platter, cursor, msynced, held, flushed, unsure, rotated>>
tvars == <<tap, janitor, submitted, dropped, shadowed, gone>>
avars == <<path, lvars, mvars, tvars, appends, failures>>

AInit ==
    /\ path \in {"logbuf", "mmapseg", "tap"}
    /\ file = <<>> /\ onDisk = 0 /\ buf = <<>> /\ file_len = 0
    /\ offsets = <<>> /\ promised = {} /\ fast = {} /\ stray = {}
    /\ mem = [c \in 0 .. Cap - 1 |-> Zero] /\ platter = mem
    /\ cursor = 0 /\ msynced = 0 /\ held = <<>> /\ flushed = <<>> /\ unsure = FALSE /\ rotated = FALSE
    /\ tap = 0 /\ janitor = "up" /\ submitted = 0 /\ dropped = 0 /\ shadowed = 0 /\ gone = 0
    /\ appends = 0 /\ failures = 0

NextRecord == /\ appends < MaxAppends /\ appends' = appends + 1
Failure == /\ failures < MaxFailures /\ failures' = failures + 1
-----------------------------------------------------------------------------
(* logbuf                                                                  *)

LogbufAppend ==
    /\ path = "logbuf" /\ NextRecord
    /\ offsets' = Append(offsets, [rec |-> appends', off |-> file_len + Len(buf)])
    /\ buf' = Append(buf, appends')
    /\ stray' = IF file_len = Len(file) THEN stray ELSE stray \union {appends'}
    /\ UNCHANGED <<path, file, onDisk, file_len, promised, fast, mvars, tvars, failures>>

Vouched == {offsets[i].rec : i \in 1 .. Len(offsets)}

\* slip: the buffer is not cleared
LogbufSyncKeeps ==
    /\ path = "logbuf" /\ buf # <<>>
    /\ file' = file \o buf /\ onDisk' = Len(file') /\ file_len' = file_len + Len(buf)
    /\ promised' = promised \union Vouched /\ fast' = {}
    /\ UNCHANGED <<path, buf, offsets, stray, mvars, tvars, appends, failures>>

\* write_all, fsync, advance, clear.  With nothing buffered it returns at once
\* and fsyncs nothing.
LogbufSync ==
    /\ path = "logbuf"
    /\ IF buf = <<>> THEN promised' = promised \union (Vouched \ fast)
                          /\ UNCHANGED <<file, onDisk, buf, file_len, fast>>
       ELSE /\ file' = file \o buf /\ onDisk' = Len(file')
            /\ file_len' = file_len + Len(buf) /\ buf' = <<>>
            /\ promised' = promised \union Vouched /\ fast' = {}
    /\ UNCHANGED <<path, offsets, stray, mvars, tvars, appends, failures>>

\* FAST mode: the write without the fsync
LogbufFlush ==
    /\ path = "logbuf" /\ buf # <<>>
    /\ file' = file \o buf /\ file_len' = file_len + Len(buf) /\ buf' = <<>>
    /\ fast' = fast \union Range(buf)
    /\ UNCHANGED <<path, onDisk, offsets, promised, stray, mvars, tvars, appends, failures>>

\* logbuf_sync or logbuf_flush panics on its write_all, which has written some
\* first part, or on its fsync: the buffer is kept and file_len stays, so the
\* next one writes all of it again.
LogbufFails ==
    /\ path = "logbuf" /\ buf # <<>> /\ Failure
    /\ \E n \in 0 .. Len(buf) :
        /\ file' = file \o SubSeq(buf, 1, n)
        /\ stray' = IF n = 0 THEN stray ELSE stray \union Range(buf)
    /\ UNCHANGED <<path, onDisk, buf, file_len, offsets, promised, fast, mvars, tvars, appends>>

\* wal_fast_batch_write: each item is written straight to the file, past what
\* is buffered, and one fsync for all
BatchWrite(n) ==
    /\ path = "logbuf" /\ appends + n <= MaxAppends
    /\ appends' = appends + n
    /\ file' = file \o [i \in 1 .. n |-> appends + i] /\ onDisk' = Len(file')
    /\ file_len' = file_len + n
    /\ promised' = promised \union {appends + i : i \in 1 .. n} /\ fast' = {}
    /\ stray' = stray \union Range(buf)
    /\ UNCHANGED <<path, buf, offsets, mvars, tvars, failures>>

\* It panics on an item's write_all or on the fsync: file_len stays.
BatchFails(n) ==
    /\ path = "logbuf" /\ Failure /\ appends + n <= MaxAppends
    /\ appends' = appends + n
    /\ \E m \in 1 .. n : file' = file \o [i \in 1 .. m |-> appends + i]
    /\ stray' = stray \union Range(buf)
    /\ UNCHANGED <<path, onDisk, buf, file_len, offsets, promised, fast, mvars, tvars>>

\* logbuf_read: the range, clamped at logbuf_len, served from the file and
\* from the buffer
logbuf_read(off, len) ==
    LET total == file_len + Len(buf)
        end == IF off + len < total THEN off + len ELSE total
        fend == IF end < file_len THEN end ELSE file_len
        bstart == IF off > file_len THEN off - file_len ELSE 0
    IN  (IF off < file_len THEN SubSeq(file, off + 1, fend) ELSE <<>>)
        \o (IF end > file_len THEN SubSeq(buf, bstart + 1, end - file_len) ELSE <<>>)

\* the process dies, or the power goes, and logbuf_open finds what is left
LogbufLost(powerloss) ==
    /\ path = "logbuf" /\ Failure
    /\ \E n \in (IF powerloss THEN onDisk ELSE Len(file)) .. Len(file) :
        /\ file' = SubSeq(file, 1, n) /\ file_len' = n
        /\ onDisk' = IF powerloss THEN n ELSE onDisk
    /\ buf' = <<>> /\ offsets' = <<>> /\ fast' = {}
    /\ UNCHANGED <<path, promised, stray, mvars, tvars, appends>>
-----------------------------------------------------------------------------
(* mmapseg                                                                 *)

\* read_frame: a length in range and a payload that matches its checksum
FrameAt(m, off) ==
    /\ off < Cap /\ m[off][2] > 0 /\ m[off][3] = 0 /\ off + m[off][2] < Cap
    /\ \A k \in 0 .. m[off][2] : m[off + k] = <<m[off][1], m[off][2], k>>

\* scan_frontier: frames from 0 to the first that is not one
Scan(m) ==
    LET f[off \in 0 .. Cap] ==
            IF FrameAt(m, off) THEN LET r == f[off + m[off][2] + 1]
                                    IN  [recs |-> <<m[off][1]>> \o r.recs, end |-> r.end]
            ELSE [recs |-> <<>>, end |-> off]
    IN  f[0]

\* MmapSeg::append: memcpy of the frame, or -1 when it does not fit
MmapAppend(n) ==
    /\ path = "mmapseg" /\ NextRecord
    /\ IF cursor + n + 1 > Cap THEN rotated' = TRUE /\ UNCHANGED <<mem, cursor, held>>
       ELSE /\ mem' = [c \in 0 .. Cap - 1 |-> IF c \in cursor .. cursor + n THEN <<appends', n, c - cursor>>
                                              ELSE mem[c]]
            /\ cursor' = cursor + n + 1 /\ held' = Append(held, appends') /\ UNCHANGED rotated
    /\ UNCHANGED <<path, lvars, platter, msynced, flushed, unsure, tvars, failures>>

WrittenBack(from, to) == [c \in 0 .. Cap - 1 |-> IF c \in from .. to THEN mem[c] ELSE platter[c]]

\* slip: the range starts at the watermark, not at its page
MmapMsyncUnaligned ==
    /\ path = "mmapseg" /\ cursor > msynced
    /\ platter' = WrittenBack(msynced + 1, cursor - 1)
    /\ msynced' = cursor /\ flushed' = IF unsure THEN flushed ELSE held
    /\ UNCHANGED <<path, lvars, mem, cursor, held, unsure, rotated, tvars, appends, failures>>

\* mmapseg_msync: the pages dirtied since the last one, as the watermark says
MmapMsync ==
    /\ path = "mmapseg" /\ cursor > msynced
    /\ platter' = WrittenBack((msynced \div Page) * Page, cursor - 1)
    /\ msynced' = cursor /\ flushed' = IF unsure THEN flushed ELSE held
    /\ UNCHANGED <<path, lvars, mem, cursor, held, unsure, rotated, tvars, appends, failures>>

\* msync fails, its result is not looked at and the watermark advances
MmapMsyncFails ==
    /\ path = "mmapseg" /\ cursor > msynced /\ Failure
    /\ msynced' = cursor /\ unsure' = TRUE
    /\ UNCHANGED <<path, lvars, mem, platter, cursor, held, flushed, rotated, tvars, appends>>

\* mmapseg_flush_file: fdatasync through any descriptor takes every dirty page;
\* when the open or the fdatasync fails, nothing has happened
MmapFlushFile ==
    /\ path = "mmapseg" /\ platter # mem
    /\ platter' = mem /\ flushed' = held /\ unsure' = FALSE
    /\ UNCHANGED <<path, lvars, mem, cursor, msynced, held, rotated, tvars, appends, failures>>

\* Open resumes at the frontier and takes it for synced.  A process crash
\* leaves the page cache; a power loss leaves, of each dirty page, either.
MmapReopen(powerloss) ==
    /\ path = "mmapseg" /\ Failure
    /\ \E kept \in IF powerloss THEN SUBSET {c \in 0 .. Cap - 1 : c % Page = 0} ELSE {{}} :
        /\ mem' = IF powerloss THEN [c \in 0 .. Cap - 1 |-> IF (c \div Page) * Page \in kept THEN mem[c] ELSE platter[c]]
                  ELSE mem
        /\ platter' = IF powerloss THEN mem' ELSE platter
        /\ cursor' = Scan(mem').end /\ msynced' = Scan(mem').end /\ held' = Scan(mem').recs
    /\ unsure' = ~powerloss
    /\ UNCHANGED <<path, lvars, flushed, rotated, tvars, appends>>
-----------------------------------------------------------------------------
(* slabshadow                                                              *)

\* slab_shadow_submit: try-send, never a wait; a full channel counts a drop
ShadowSubmit ==
    /\ path = "tap" /\ NextRecord
    /\ IF tap < TapCap THEN tap' = tap + 1 /\ submitted' = submitted + 1 /\ UNCHANGED dropped
       ELSE dropped' = dropped + 1 /\ UNCHANGED <<tap, submitted>>
    /\ UNCHANGED <<path, lvars, mvars, janitor, shadowed, gone, failures>>

\* slab_shadow_flush_once: drain, append each row, tick; a panic ends the
\* janitor and its batch, caught by the entry thread
ShadowFlush(n) ==
    /\ path = "tap" /\ janitor = "up" /\ n <= tap
    /\ tap' = tap - n /\ shadowed' = shadowed + n
    /\ UNCHANGED <<path, lvars, mvars, janitor, submitted, dropped, gone, appends, failures>>

ShadowPanic(n) ==
    /\ path = "tap" /\ janitor = "up" /\ n <= tap /\ Failure
    /\ janitor' = "dead" /\ tap' = tap - n /\ gone' = n
    /\ UNCHANGED <<path, lvars, mvars, submitted, dropped, shadowed, appends>>

ANext ==
    \/ LogbufAppend \/ LogbufSync \/ LogbufFlush \/ LogbufFails
    \/ \E n \in 1 .. 2 : BatchWrite(n) \/ BatchFails(n)
    \/ \E p \in BOOLEAN : LogbufLost(p) \/ MmapReopen(p)
    \/ \E n \in MinPayload .. 2 : MmapAppend(n)
    \/ MmapMsync \/ MmapMsyncFails \/ MmapFlushFile
    \/ ShadowSubmit \/ \E n \in 1 .. TapCap : ShadowFlush(n) \/ ShadowPanic(n)

ASpec == AInit /\ [][ANext]_avars
-----------------------------------------------------------------------------
\* Every record is read at the offset logbuf_append gave for it, before and
\* after a sync or a flush, unless a batch write has passed it by or a write to
\* the file has failed when it was buffered or before; the others stand in the
\* file in the order they were appended.  What a sync or a batch write vouched
\* for survives failed writes, process crashes and power losses; a sync with
\* nothing buffered does not vouch for what logbuf_flush wrote.
\* The tap loses rows only as drops it counts or with its janitor.
LogsKeepPromises ==
    /\ \A i \in 1 .. Len(offsets) :
            offsets[i].rec \notin stray => logbuf_read(offsets[i].off, 1) = <<offsets[i].rec>>
    /\ promised \subseteq Range(file)
    /\ \A i, j \in 1 .. Len(file) :
            i < j /\ {file[i], file[j]} \intersect stray = {} => file[i] < file[j]
    /\ tap <= TapCap /\ submitted = shadowed + tap + gone
    /\ path = "tap" => submitted + dropped = appends

\* What was in the segment at its last flush is found by the frontier scan
\* after any crash, and a live writer's cursor is the frontier that the scan
\* of a crashed process would find: nothing appended is behind a terminator.
\* After an msync that failed, or a restart without a power loss, the watermark
\* is ahead of the device and only mmapseg_flush_file is such a flush.
SegmentKeepsFrames ==
    /\ \E n \in 0 .. Len(Scan(mem).recs) : SubSeq(Scan(mem).recs, 1, n) = flushed
    /\ Scan(mem).end >= cursor

-----------------------------------------------------------------------------
(***************************************************************************)
(* runtime/bytes_io.rs and io.rs: a file that is replaced as a whole       *)
(* (write_durable, under fs_write_bytes and fs_write_raw) and one that     *)
(* grows (append_durable, under fs_append_text_durable), used by several   *)
(* threads without a lock, with power losses.                              *)
(*                                                                         *)
(* The k-th call writes the cells <<k, 1>> and <<k, 2>>.  A directory maps *)
(* names to files; durableNames and disk are what a power loss leaves      *)
(* alone.                                                                  *)
(***************************************************************************)

CONSTANTS Threads,
          MaxCalls, MaxLosses, MaxErrors        \* bounds

VARIABLES nodes,        \* inodes, each [data, disk]
          names, durableNames,
          pid, WRITE_SEQ,
          step, call,   \* of each thread: [k, name, existed, fd]
          calls, losses, errors,
          renames,      \* the calls whose rename has survived, in order
          kept,         \* the calls that returned, and so promised
          exposed,      \* ghost: of these, appends to a file whose name was not durable
                        \* and that another call had made
          failed        \* a call met a missing file

uvars == <<nodes, names, durableNames, pid, WRITE_SEQ, step, call, calls, losses, errors, renames, kept, exposed, failed>>

current == <<"current", 0, 0>>      \* the file replaced
ledger == <<"ledger", 0, 0>>        \* the file appended to
Content(k) == << <<k, 1>>, <<k, 2>> >>
Hole == <<0, 0>>
Data(name) == nodes[names[name]].data
Step(t, from, to) == step[t] = from /\ step' = [step EXCEPT ![t] = to]
\* The names that a power loss may take back.
Moved == {n \in DOMAIN names \union DOMAIN durableNames :
            ~(n \in DOMAIN names /\ n \in DOMAIN durableNames /\ names[n] = durableNames[n])}
Return(t) == kept' = kept \union {call[t].k}

\* Slip: the fixed "<file>.tmp" of old.
TmpFixed == <<"tmp", 0, 0>>
Tmp == <<"tmp", pid, WRITE_SEQ>>

\* An empty file under this name, or the one there is, truncated when asked.
Open(t, name, truncate, c) ==
    LET made == Len(nodes) + 1
        fd == IF name \in DOMAIN names THEN names[name] ELSE made
    IN  /\ call' = [call EXCEPT ![t] = [c EXCEPT !.name = name, !.fd = fd]]
        /\ IF fd = made
           THEN /\ nodes' = Append(nodes, [data |-> <<>>, disk |-> <<>>])
                /\ names' = [n \in DOMAIN names \union {name} |-> IF n = name THEN made ELSE names[n]]
           ELSE /\ nodes' = IF truncate THEN [nodes EXCEPT ![fd].data = <<>>] ELSE nodes
                /\ UNCHANGED names

NewCall == [k |-> calls + 1, name |-> current, existed |-> TRUE, fd |-> 0]
MayCall == calls < MaxCalls /\ calls' = calls + 1
Store(t, data) == nodes' = [nodes EXCEPT ![call[t].fd].data = data]

(***************************************************************************)
(* write_durable: temporary file, fsync, rename, fsync of the directory.   *)
(***************************************************************************)
WriteOpen(t) ==
    /\ MayCall /\ Step(t, "idle", "write")
    /\ Open(t, Tmp, TRUE, NewCall)
    /\ WRITE_SEQ' = WRITE_SEQ + 1
    /\ UNCHANGED <<durableNames, pid, losses, errors, renames, kept, exposed, failed>>

\* write_all at the position of this descriptor, a cell at a time.
WriteCell(t, i) ==
    LET old == nodes[call[t].fd].data IN
    /\ Step(t, IF i = 1 THEN "write" ELSE "writing", IF i = 1 THEN "writing" ELSE "sync")
    /\ Store(t, [j \in 1..(IF Len(old) < i THEN i ELSE Len(old)) |->
                   IF j = i THEN <<call[t].k, i>> ELSE IF j <= Len(old) THEN old[j] ELSE Hole])
    /\ UNCHANGED <<names, durableNames, pid, WRITE_SEQ, call, calls, losses, errors, renames, kept, exposed, failed>>

SyncTmp(t) ==
    /\ Step(t, "sync", "rename")
    /\ nodes' = [nodes EXCEPT ![call[t].fd].disk = nodes[call[t].fd].data]
    /\ UNCHANGED <<names, durableNames, pid, WRITE_SEQ, call, calls, losses, errors, renames, kept, exposed, failed>>

Rename(t) ==
    /\ step[t] = "rename"
    /\ IF call[t].name \in DOMAIN names
       THEN /\ Step(t, "rename", "syncdir")
            /\ names' = [n \in (DOMAIN names \ {call[t].name}) \union {current} |->
                         IF n = current THEN names[call[t].name] ELSE names[n]]
            /\ renames' = Append(renames, call[t].k)
            /\ UNCHANGED failed
       ELSE /\ Step(t, "rename", "idle")
            /\ failed' = TRUE
            /\ UNCHANGED <<names, renames>>
    /\ UNCHANGED <<nodes, durableNames, pid, WRITE_SEQ, call, calls, losses, errors, kept, exposed>>

SyncDir(t) ==
    /\ Step(t, "syncdir", "idle")
    /\ durableNames' = names
    /\ Return(t)
    /\ UNCHANGED <<nodes, names, pid, WRITE_SEQ, call, calls, losses, errors, renames, exposed, failed>>

(***************************************************************************)
(* append_durable: append, fsync, and the directory if the file is new.    *)
(***************************************************************************)
AppendLook(t) ==
    /\ MayCall /\ Step(t, "idle", "open")
    /\ call' = [call EXCEPT ![t] =
                  [NewCall EXCEPT !.name = ledger, !.existed = ledger \in DOMAIN names]]
    /\ UNCHANGED <<nodes, names, durableNames, pid, WRITE_SEQ, losses, errors, renames, kept, exposed, failed>>

AppendOpen(t) ==
    /\ Step(t, "open", "append")
    /\ Open(t, ledger, FALSE, call[t])
    /\ UNCHANGED <<durableNames, pid, WRITE_SEQ, calls, losses, errors, renames, kept, exposed, failed>>

AppendWrite(t) ==
    /\ Step(t, "append", "fsync")
    /\ Store(t, nodes[call[t].fd].data \o Content(call[t].k))
    /\ UNCHANGED <<names, durableNames, pid, WRITE_SEQ, call, calls, losses, errors, renames, kept, exposed, failed>>

\* Slip: the directory is left to the next sync.
AppendSyncOnly(t) ==
    /\ Step(t, "fsync", "idle")
    /\ nodes' = [nodes EXCEPT ![call[t].fd].disk = nodes[call[t].fd].data]
    /\ Return(t)
    /\ UNCHANGED <<names, durableNames, pid, WRITE_SEQ, call, calls, losses, errors, renames, exposed, failed>>
AppendSync(t) ==
    /\ Step(t, "fsync", IF call[t].existed THEN "idle" ELSE "syncdir")
    /\ nodes' = [nodes EXCEPT ![call[t].fd].disk = nodes[call[t].fd].data]
    /\ IF call[t].existed THEN Return(t) ELSE UNCHANGED kept
    /\ exposed' = IF call[t].existed /\ ledger \in Moved THEN exposed \union {call[t].k} ELSE exposed
    /\ UNCHANGED <<names, durableNames, pid, WRITE_SEQ, call, calls, losses, errors, renames, failed>>

(***************************************************************************)
(* A `?` of either function: its caller panics, and neither takes back     *)
(* what is done so far, a part of the bytes, a file made, a rename.        *)
(***************************************************************************)
CallFails(t) ==
    /\ errors < MaxErrors /\ errors' = errors + 1
    /\ step[t] # "idle" /\ step' = [step EXCEPT ![t] = "idle"]
    /\ IF step[t] = "append"
       THEN \E n \in 0 .. 1 : Store(t, nodes[call[t].fd].data \o SubSeq(Content(call[t].k), 1, n))
       ELSE UNCHANGED nodes
    /\ UNCHANGED <<names, durableNames, pid, WRITE_SEQ, call, calls, losses, renames, kept, exposed, failed>>

(***************************************************************************)
(* The power goes.  An inode keeps what was fsynced and, of the rest, some *)
(* first part; a name that changed keeps its old inode or the new one, and *)
(* a rename is atomic: no inode is left with two names.                    *)
(***************************************************************************)
Left(i, rest) == SubSeq(nodes[i].data, 1, Len(nodes[i].disk) + rest)
Unsynced == {i \in DOMAIN nodes : nodes[i].data # nodes[i].disk}
PowerLoss ==
    /\ losses < MaxLosses /\ losses' = losses + 1
    /\ \E rest \in [Unsynced -> 0..2], new \in SUBSET Moved, p \in {1, 2} :
        LET after == [n \in (DOMAIN names \ Moved) \union (DOMAIN names \intersect new)
                              \union (DOMAIN durableNames \intersect (Moved \ new)) |->
                        IF n \in Moved \ new THEN durableNames[n] ELSE names[n]]
            data == [i \in DOMAIN nodes |->
                       IF i \notin Unsynced THEN nodes[i].data
                       ELSE IF Len(nodes[i].disk) + rest[i] > Len(nodes[i].data) THEN nodes[i].disk
                       ELSE Left(i, rest[i])]
        IN  /\ IsInjective(after)
            /\ names' = after /\ durableNames' = after
            /\ nodes' = [i \in DOMAIN nodes |-> [data |-> data[i], disk |-> data[i]]]
            /\ renames' = IF current \notin DOMAIN after \/ data[after[current]] = <<>> THEN <<>>
                          ELSE SubSeq(renames, 1, SelectInSeq(renames,
                                                LAMBDA k : k = data[after[current]][1][1]))
            /\ pid' = p
    /\ WRITE_SEQ' = 0
    /\ step' = [t \in Threads |-> "idle"]
    /\ UNCHANGED <<call, calls, errors, kept, exposed, failed>>

UInit ==
    /\ nodes = <<>> /\ names = <<>> /\ durableNames = <<>>
    /\ pid = 1 /\ WRITE_SEQ = 0
    /\ step = [t \in Threads |-> "idle"]
    /\ call = [t \in Threads |-> [k |-> 0, name |-> current, existed |-> TRUE, fd |-> 0]]
    /\ calls = 0 /\ losses = 0 /\ errors = 0
    /\ renames = <<>> /\ kept = {} /\ exposed = {} /\ failed = FALSE

UNext ==
    \/ \E t \in Threads :
        \/ WriteOpen(t) \/ WriteCell(t, 1) \/ WriteCell(t, 2) \/ SyncTmp(t) \/ Rename(t) \/ SyncDir(t)
        \/ AppendLook(t) \/ AppendOpen(t) \/ AppendWrite(t) \/ AppendSync(t)
        \/ CallFails(t)
    \/ PowerLoss

USpec == UInit /\ [][UNext]_uvars

\* What fs_write_bytes and fs_append_text_durable promise their callers.  A
\* reader finds the whole content of one call under the name, at every moment
\* and after every power loss; no call fails because another writes the same
\* file; and a call that returned stays, whatever others have failed halfway:
\* nothing older than it comes back under the name, and its bytes are in one
\* piece in the file it appended to, unless it found that file made by a call
\* that had not got to the fsync of the directory.
ReturnedIsDurable ==
    /\ current \in DOMAIN names => \E k \in 1..calls : Data(current) = Content(k)
    /\ ~failed
    /\ \A k \in kept \ exposed :
        \/ k \in ToSet(renames)
        \/ /\ ledger \in DOMAIN names
           /\ \E i \in 1..Len(Data(ledger)) - 1 : SubSeq(Data(ledger), i, i + 1) = Content(k)

\* "crash-safe: fsync the file's data after the write, and - only when this
\* call is the one that created the file - fsync the parent directory too, so
\* the new directory entry itself survives a crash" (io.rs:99), said of every
\* append that returned.
AppendsSurvive ==
    \A k \in kept : k \in ToSet(renames) \/ ledger \in DOMAIN names
=============================================================================
