------------------------------- MODULE Reclog -------------------------------
(***************************************************************************)
(* The recovery log's group commit (runtime/reclog.rs) over WAL segments   *)
(* (runtime/prealloc.rs), read back the way runtime/walindex.rs does.      *)
(*                                                                         *)
(* A submission is one row: a frame for the WAL and a BIND line for the    *)
(* log of its name.  The janitor drains a batch, writes all the frames,    *)
(* fsyncs, writes the lines name by name, fsyncs, and then signals.  The   *)
(* channel in front of it is BoundedChannel, the oneshots are AckPath;     *)
(* here they are a sequence and the set of rows acknowledged.              *)
(*                                                                         *)
(* A frame is two cells, its header and its payload: enough for a tail to  *)
(* be torn inside it.  A file keeps what a crash may not take away apart   *)
(* from what it may: the cells fsynced, and whether its directory entry    *)
(* has been.                                                               *)
(***************************************************************************)
EXTENDS Naturals, Sequences

CONSTANTS
    Names,      \* name logs
    SegSize,    \* AXVERITY_WAL_SEG_BYTES, in cells
    BatchCap,   \* AXVERITY_RECLOG_BATCH
    MaxRows,    \* bound: rows submitted
    Harms,      \* what a crash may do beyond losing unsynced whole frames: "tear"
                \* an unsynced tail inside a frame, or take the unsynced entries
                \* of the "wal" or the "names" directory (loss of power only)
    MaxCrashes  \* bound: crashes

ASSUME ReclogAssumption ==
    /\ {SegSize, MaxRows, MaxCrashes} \subseteq Nat /\ BatchCap \in Nat \ {0}
    /\ Harms \subseteq {"tear", "wal", "names"}

VARIABLES
    segs,       \* the shard's segments: seq + 1 -> file
    logs,       \* name -> its log file
    rows,       \* rows submitted
    queue,      \* "reclog-batch": rows sent and not drained
    batch,      \* ids, frames, lines: the rows write_batch_fused holds
    pc, seq, isNew,     \* janitor: position, segment, `seg_new'
    k,                  \* rows of the batch the loop under way has got to
    named, anyNew,      \* row whose name is under way, any_name_new
    acked,      \* rows whose oneshot has been signaled
    old,        \* auxiliary: rows acknowledged before the first crash
    harm,       \* auxiliary: what the crashes so far may have done
    crashes

dvars == <<segs, logs>>
jvars == <<pc, seq, isNew, k, named, anyNew>>
avars == <<old, harm, crashes>>
vars == <<dvars, rows, queue, batch, jvars, acked, avars>>

NoFile == [exists |-> FALSE, data |-> << >>, synced |-> 0, entry |-> FALSE]

Segments == 0 .. MaxRows

Init ==
    /\ segs = [s \in Segments |-> NoFile] /\ logs = [n \in Names |-> NoFile]
    /\ rows = 0 /\ acked = {} /\ old = {} /\ harm = {} /\ crashes = 0
    /\ queue = << >> /\ batch = << >>
    /\ pc = "idle" /\ seq = 0 /\ isNew = FALSE /\ k = 0 /\ named = 0 /\ anyNew = FALSE

Create(f) == [f EXCEPT !.exists = TRUE]

Write(f, cells) == [f EXCEPT !.data = @ \o cells]

Sync(f) == [f EXCEPT !.synced = Len(f.data)]

\* fsync_parent_dir makes the entries of the files in it durable.
SyncDir(files) == [x \in DOMAIN files |-> [files[x] EXCEPT !.entry = files[x].exists]]

Header(r) == [row |-> r, part |-> "header"]

Payload(r) == [row |-> r, part |-> "payload"]

Frame(r) == <<Header(r), Payload(r)>>

-----------------------------------------------------------------------------
(* reclog_submit *)

Submit(n) ==
    /\ rows < MaxRows
    /\ rows' = rows + 1
    /\ queue' = Append(queue, [row |-> rows + 1, name |-> n])
    /\ UNCHANGED <<dvars, batch, jvars, acked, avars>>

-----------------------------------------------------------------------------
(* stream_flush_once: drain, write_batch_fused, signal *)

\* The drain may return anything from one row to the cap: the window decides.
Drain ==
    /\ pc = "idle"
    /\ \E m \in 1 .. Len(queue) :
        /\ m <= BatchCap
        /\ batch' = SubSeq(queue, 1, m)
        /\ queue' = SubSeq(queue, m + 1, Len(queue))
    /\ pc' = "segment" /\ k' = 0 /\ named' = 0 /\ anyNew' = FALSE
    /\ UNCHANGED <<dvars, rows, seq, isNew, acked, avars>>

\* wal_write_seg: the highest segment of the unbroken run from 0, or a new one
\* when that one is not empty and the batch would overflow it; created here
Unbroken(s) == s \in Segments /\ \A u \in 0 .. s : segs[u].exists

Highest(s) == Unbroken(s) /\ ~Unbroken(s + 1)

Overflows(s) == Len(segs[s].data) > 0 /\ Len(segs[s].data) + 2 * Len(batch) > SegSize

Chosen(s) ==
    \/ s = 0 /\ ~Unbroken(0)
    \/ Highest(s) /\ ~Overflows(s)
    \/ s > 0 /\ Highest(s - 1) /\ Overflows(s - 1)

WalWriteSeg ==
    /\ pc = "segment"
    /\ \E s \in Segments :
        /\ Chosen(s)
        /\ seq' = s
        /\ segs' = [segs EXCEPT ![s] = Create(@)]
    /\ pc' = "open"
    /\ UNCHANGED <<logs, rows, queue, batch, isNew, k, named, anyNew, acked, avars>>

\* open_append(seg_path): new if it did not exist
OpenSegment ==
    /\ pc = "open"
    /\ isNew' = ~segs[seq].exists
    /\ segs' = [segs EXCEPT ![seq] = Create(@)]
    /\ pc' = "frames"
    /\ UNCHANGED <<logs, rows, queue, batch, seq, k, named, anyNew, acked, avars>>

WriteFrame ==
    /\ pc = "frames" /\ k < Len(batch)
    /\ segs' = [segs EXCEPT ![seq] = Write(@, Frame(batch[k + 1].row))]
    /\ k' = k + 1
    /\ UNCHANGED <<logs, rows, queue, batch, pc, seq, isNew, named, anyNew, acked, avars>>

SyncSegment ==
    /\ pc = "frames" /\ k = Len(batch)
    /\ segs' = [segs EXCEPT ![seq] = Sync(@)]
    /\ pc' = "segdir"
    /\ UNCHANGED <<logs, rows, queue, batch, seq, isNew, k, named, anyNew, acked, avars>>

\* if seg_new { fsync_parent_dir }
SyncSegmentDir ==
    /\ pc = "segdir"
    /\ segs' = IF isNew THEN SyncDir(segs) ELSE segs
    /\ pc' = "names"
    /\ UNCHANGED <<logs, rows, queue, batch, seq, isNew, k, named, anyNew, acked, avars>>

\* name_order: the first row of each name, in the order of the batch
Firsts == {i \in 1 .. Len(batch) : \A j \in 1 .. (i - 1) : batch[j].name # batch[i].name}

\* name_lines: the rows of the name under way
Lines == {i \in 1 .. Len(batch) : batch[i].name = batch[named].name}

\* i is the member of S a loop comes to next that has got to j
Turn(S, j, i) == i \in S /\ i > j /\ \A x \in S : x > j => i <= x

\* open_append(logp) of the next name; if it is new so is any_name_new
OpenName ==
    /\ pc = "names"
    /\ \E i \in 1 .. Len(batch) :
        /\ Turn(Firsts, named, i)
        /\ named' = i
        /\ anyNew' = (anyNew \/ ~logs[batch[i].name].exists)
        /\ logs' = [logs EXCEPT ![batch[i].name] = Create(@)]
    /\ pc' = "lines" /\ k' = 0
    /\ UNCHANGED <<segs, rows, queue, batch, seq, isNew, acked, avars>>

WriteLine ==
    /\ pc = "lines"
    /\ \E i \in 1 .. Len(batch) :
        /\ Turn(Lines, k, i)
        /\ k' = i
        /\ logs' = [logs EXCEPT ![batch[named].name] = Write(@, <<batch[i].row>>)]
    /\ UNCHANGED <<segs, rows, queue, batch, pc, seq, isNew, named, anyNew, acked, avars>>

\* Slip: a name log is written and not fsynced.
SyncNameSkipped ==
    /\ pc = "lines" /\ \A i \in Lines : i <= k
    /\ pc' = "names"
    /\ UNCHANGED <<segs, logs, rows, queue, batch, seq, isNew, k, named, anyNew, acked, avars>>

SyncName ==
    /\ pc = "lines" /\ \A i \in Lines : i <= k
    /\ logs' = [logs EXCEPT ![batch[named].name] = Sync(@)]
    /\ pc' = "names"
    /\ UNCHANGED <<segs, rows, queue, batch, seq, isNew, k, named, anyNew, acked, avars>>

\* if any_name_new { fsync_parent_dir }
SyncNamesDir ==
    /\ pc = "names" /\ \A i \in Firsts : i <= named
    /\ logs' = IF anyNew THEN SyncDir(logs) ELSE logs
    /\ pc' = "signal"
    /\ UNCHANGED <<segs, rows, queue, batch, seq, isNew, k, named, anyNew, acked, avars>>

\* signal_oneshot for every id of the batch, one after another
Signal ==
    /\ pc = "signal" /\ batch # << >>
    /\ acked' = acked \union {Head(batch).row}
    /\ old' = IF crashes = 0 THEN acked' ELSE old
    /\ batch' = Tail(batch)
    /\ UNCHANGED <<dvars, rows, queue, jvars, harm, crashes>>

FlushDone ==
    /\ pc = "signal" /\ batch = << >>
    /\ pc' = "idle"
    /\ UNCHANGED <<dvars, rows, queue, batch, seq, isNew, k, named, anyNew, acked, avars>>

-----------------------------------------------------------------------------
(* A crash keeps the synced cells of a file and any part of the rest, and  *)
(* may take a file whose entry is not durable.  The process starts again.  *)

Survivors(f, unit, lossy) ==
    {[f EXCEPT !.data = SubSeq(f.data, 1, m)] :
        m \in {i \in f.synced .. Len(f.data) : (Len(f.data) - i) % unit = 0}}
    \union (IF lossy /\ ~f.entry THEN {NoFile} ELSE {})

\* What a crash may leave of the files of a directory
Remains(files, unit, lossy) ==
    LET Left(x) == Survivors(files[x], unit, lossy)
        atRisk == {x \in DOMAIN files : Left(x) # {files[x]}}
        choices == {c \in [atRisk -> UNION {Left(x) : x \in atRisk}] :
                        \A x \in atRisk : c[x] \in Left(x)}
    IN  {[x \in DOMAIN files |-> IF x \in atRisk THEN c[x] ELSE files[x]] : c \in choices}

Crash ==
    /\ crashes < MaxCrashes
    /\ crashes' = crashes + 1
    /\ \E h \in SUBSET Harms :
        /\ segs' \in Remains(segs, IF "tear" \in h THEN 1 ELSE 2, "wal" \in h)
        /\ logs' \in Remains(logs, 1, "names" \in h)
        /\ harm' = harm \union h
    /\ queue' = << >> /\ batch' = << >>
    /\ pc' = "idle" /\ seq' = 0 /\ isNew' = FALSE /\ k' = 0 /\ named' = 0 /\ anyNew' = FALSE
    /\ UNCHANGED <<rows, acked, old>>

Janitor ==
    \/ Drain \/ WalWriteSeg \/ OpenSegment \/ WriteFrame \/ SyncSegment \/ SyncSegmentDir
    \/ OpenName \/ WriteLine \/ SyncName \/ SyncNamesDir \/ Signal \/ FlushDone

Next ==
    \/ \E n \in Names : Submit(n)
    \/ Janitor
    \/ Crash

Spec == Init /\ [][Next]_vars

-----------------------------------------------------------------------------
(* parse_frames_from_bytes and walk_frames: frames are read one after      *)
(* another, up to the first that is torn; the next segment is read only    *)
(* when this one ended cleanly.                                            *)

\* Frame i of `data' is that of row r
FrameAt(data, i, r) ==
    2 * i <= Len(data) /\ data[2 * i - 1] = Header(r) /\ data[2 * i] = Payload(r)

\* The first i frames of `data' are valid
Parsed(data, i) == \A j \in 1 .. i : \E r \in 1 .. MaxRows : FrameAt(data, j, r)

CleanEnd(data) == \E i \in 0 .. Len(data) : 2 * i = Len(data) /\ Parsed(data, i)

Visited(s) ==
    /\ \A u \in 0 .. s : segs[u].exists
    /\ \A u \in 0 .. (s - 1) : CleanEnd(segs[u].data)

\* The rows a rebuild of the index finds
WalkFrames ==
    {r \in 1 .. MaxRows : \E s \in Segments :
        /\ Visited(s)
        /\ \E i \in 1 .. Len(segs[s].data) :
            Parsed(segs[s].data, i) /\ FrameAt(segs[s].data, i, r)}

Bound == UNION {{logs[n].data[i] : i \in 1 .. Len(logs[n].data)} : n \in Names}

-----------------------------------------------------------------------------
FileOK(f, Cells) ==
    /\ f.exists \in BOOLEAN /\ f.entry \in BOOLEAN
    /\ f.data \in Seq(Cells) /\ f.synced \in 0 .. Len(f.data)

Items == [row : 1 .. MaxRows, name : Names]

\* Every variable holds a value of its type.
TypeOK ==
    /\ \A s \in Segments :
        FileOK(segs[s], [row : 1 .. MaxRows, part : {"header", "payload"}])
    /\ \A n \in Names : FileOK(logs[n], 1 .. MaxRows)
    /\ rows \in 0 .. MaxRows /\ queue \in Seq(Items) /\ batch \in Seq(Items)
    /\ pc \in {"idle", "segment", "open", "frames", "segdir", "names", "lines", "signal"}
    /\ seq \in Segments /\ isNew \in BOOLEAN /\ k \in 0 .. BatchCap
    /\ named \in 0 .. BatchCap /\ anyNew \in BOOLEAN
    /\ acked \subseteq 1 .. rows /\ old \subseteq acked /\ harm \subseteq Harms /\ crashes \in 0 .. MaxCrashes

\* "the ack implies the row's content AND its PK binding are both durable":
\* whatever crashes follow, an acknowledged row is found by a rebuild and its
\* line is in its name log.
EveryAckRecoverable == acked \subseteq WalkFrames \intersect Bound

\* The same as long as crashes leave whole frames and take no file.
AcksSurviveCrashes == harm = {} => EveryAckRecoverable

\* Torn tails and lost name logs spare the rows acknowledged in the first life
\* of the process, whose frames and lines come before any damage.
FirstLifeAcksRecoverable == "wal" \notin harm => old \subseteq WalkFrames \intersect Bound

\* A BIND line never outlives its content: whatever a crash leaves of the name
\* logs names rows that a rebuild finds, if no tail is torn.
BindNeverDangles == harm \subseteq {"names"} => Bound \subseteq WalkFrames

\* The last line of a name log is the latest bind: lines are in the order in
\* which the rows were submitted, across batches and crashes.
BindsInSubmitOrder ==
    \A n \in Names : \A i, j \in 1 .. Len(logs[n].data) :
        i < j => logs[n].data[i] < logs[n].data[j]

\* What write_batch_fused promises of acknowledged rows and of the name logs,
\* under each kind of harm a crash may do.
LogsKeepAcks ==
    /\ TypeOK
    /\ AcksSurviveCrashes
    /\ FirstLifeAcksRecoverable
    /\ BindNeverDangles
    /\ BindsInSubmitOrder
=============================================================================
