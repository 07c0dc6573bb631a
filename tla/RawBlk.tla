------------------------------- MODULE RawBlk -------------------------------
(***************************************************************************)
(* runtime/rawblk.rs and pgbshape.rs: the hot path that copies what the    *)
(* client submitted into the thread's raw block and lets a pool thread     *)
(* derive the record.  Under arm "a" a frame holds the statement itself,   *)
(* under arm "b" the id of a shape registered at Parse and the parameters  *)
(* of the Bind.  Recovery derives the rows again from the sealed blocks    *)
(* and the durable shape log.                                              *)
(*                                                                         *)
(* Request threads share one shapes.log without a lock, and                *)
(* append_shape_durable drops what goes wrong.  A line of the log is       *)
(* [id, as, cut]: what it says, and where it was cut short.                *)
(*                                                                         *)
(* A shape is [table, cols]; its id is a hash of both, taken as injective. *)
(* A frame that fails its magic, length or sentinel is Torn; Null is a     *)
(* parameter of length -1, and blank the empty text.                       *)
(***************************************************************************)
EXTENDS Naturals, Sequences, FiniteSets, SequencesExt, Functions

CONSTANTS
    Workers,    \* request threads; each owns the block stream of its shard
    Shapes,     \* the INSERT shapes clients prepare
    Values, Null, blank,
    NoShape, Torn,
    MaxRows, MaxBlocks, MaxParses,
    MaxHarms    \* crashes and failed calls in one behaviour

VARIABLES
    mode,       \* AXVERITY_MEMCPY_HOTPATH
    shapesLog,  \* shapes.log: its lines, and how many of them an fsync has covered
    shape, params, bound,   \* SHAPE, PARAMS, and whether the Bind was captured
    firm,       \* ghost: whether Parse left the worker a Sound, durable shape
    wpc,        \* where each worker is in pgb_parse_shape
    dir,        \* BOUND_DIR
    arena,      \* frames in the worker's live block
    sealedBlocks,   \* block-<seq>.bin of each worker's shard
    chan,       \* frames handed to the derive pool
    cache,      \* SHAPE_CACHE of the pool thread: id -> shape
    sent,       \* ghost: the rows acknowledged, by worker
    damage,       \* ghost: what has gone wrong so far
    rawRows, parses, harms

fvars == <<shape, params, bound, firm, wpc>>
pvars == <<chan, cache>>
bounds == <<rawRows, parses, harms>>
vars == <<mode, shapesLog, fvars, dir, arena, sealedBlocks, pvars, sent, damage, bounds>>

Idle == <<"idle">>

Init ==
    /\ mode \in {"a", "b"}
    /\ shapesLog = [lines |-> <<>>, synced |-> 0]
    /\ shape = [w \in Workers |-> NoShape] /\ params = [w \in Workers |-> <<>>]
    /\ bound = [w \in Workers |-> FALSE] /\ firm = [w \in Workers |-> FALSE]
    /\ wpc = [w \in Workers |-> Idle]
    /\ dir = [w \in Workers |-> "none"]
    /\ arena = [w \in Workers |-> <<>>] /\ sealedBlocks = [w \in Workers |-> <<>>]
    /\ chan = <<>> /\ cache = <<>>
    /\ sent = [w \in Workers |-> <<>>] /\ damage = {}
    /\ rawRows = 0 /\ parses = 0 /\ harms = 0
-----------------------------------------------------------------------------
(* The shape log.                                                          *)

Whole(sh) == [id |-> sh, as |-> sh, cut |-> "no"]

\* A line cut in its id says nothing, one cut in the table has too few fields
\* to be read until something is written behind it, one cut in the columns is
\* read with other columns, and one that lacks its line end is read right.
Cuts == {"id", "table", "cols", "end"}
CutColumns == <<"cut">>
CutLine(l, at) ==
    [id |-> IF at = "id" THEN NoShape ELSE l.id,
     as |-> CASE at = "cols" -> [l.as EXCEPT !.cols = CutColumns]
              [] at = "table" -> [table |-> "cut", cols |-> CutColumns]
              [] OTHER -> l.as,
     cut |-> at]

\* O_APPEND: behind a cut line the bytes go on in that line
AppendLine(ls, l) ==
    IF ls = <<>> \/ Last(ls).cut = "no" THEN Append(ls, l)
    ELSE Append(Front(ls), [Last(ls) EXCEPT !.as.cols = CutColumns, !.cut = l.cut])

\* load_shapes: the last line with an id wins
Readable(l) == l.id # NoShape /\ l.cut # "table"
load_shapes(ls) ==
    LET good == SelectSeq(ls, Readable)
    IN  [sh \in {good[i].id : i \in DOMAIN good} |->
            good[Max({i \in DOMAIN good : good[i].id = sh})].as]

\* The last line that names sh is whole and among the first n, and no thread
\* is about to write another.
Sound(sh, ls, n) ==
    /\ \E i \in 1 .. n : ls[i] = Whole(sh) /\ \A j \in i + 1 .. Len(ls) : ls[j].id # sh
    /\ \A w \in Workers : wpc[w] # <<"append", sh>>
-----------------------------------------------------------------------------
(* Derivation.                                                             *)

\* decode_params: NULL is rendered as the empty text
decode_params(ps) == [i \in 1 .. Len(ps) |-> IF ps[i] = Null THEN blank ELSE ps[i]]

\* "RECORD", one cell per column; a column without a value is empty
Record(sh, vals) ==
    [name |-> <<sh.table, IF vals = <<>> THEN blank ELSE vals[1]>>,
     cells |-> [i \in 1 .. Len(sh.cols) |->
                <<sh.cols[i], IF i <= Len(vals) THEN vals[i] ELSE blank>>]]

\* derive_a splits the statement text; nothing to derive without columns
derive_a(q) == IF q.shape.cols = <<>> THEN {} ELSE {Record(q.shape, q.vals)}

\* derive_b resolves the shape id
derive_b(p, known) == IF p.id \in DOMAIN known THEN {Record(known[p.id], decode_params(p.params))} ELSE {}

Derive(frame, known) ==
    IF frame.kind = "A" THEN derive_a(frame.payload) ELSE derive_b(frame.payload, known)
-----------------------------------------------------------------------------
(* Parse, Bind, Execute on a request thread.                               *)

\* pgb_parse_shape: another statement, or one without table or columns,
\* leaves the connection on its normal path
ParseRefused(w) ==
    /\ mode = "b" /\ wpc[w] = Idle /\ shape[w] # NoShape
    /\ shape' = [shape EXCEPT ![w] = NoShape]
    /\ bound' = [bound EXCEPT ![w] = FALSE]
    /\ UNCHANGED <<mode, shapesLog, params, firm, wpc, dir, arena, sealedBlocks, pvars, sent, damage, bounds>>

\* the log is read; a shape that is on it is not appended again
ParseLoad(w, sh) ==
    /\ mode = "b" /\ wpc[w] = Idle /\ rawRows < MaxRows
    /\ parses < MaxParses /\ parses' = parses + 1
    /\ bound' = [bound EXCEPT ![w] = FALSE]
    /\ IF sh \in DOMAIN load_shapes(shapesLog.lines)
       THEN /\ shape' = [shape EXCEPT ![w] = sh] /\ UNCHANGED wpc
            /\ firm' = [firm EXCEPT ![w] = Sound(sh, shapesLog.lines, shapesLog.synced)]
       ELSE wpc' = [wpc EXCEPT ![w] = <<"append", sh>>] /\ UNCHANGED <<shape, firm>>
    /\ UNCHANGED <<mode, shapesLog, params, dir, arena, sealedBlocks, pvars, sent, damage,
                   rawRows, harms>>

Harm == harms < MaxHarms /\ harms' = harms + 1
Fault == Harm /\ damage' = damage \union {"io"}
NoFault == UNCHANGED <<harms, damage>>

\* slip: the shape is used as soon as it is written
ShapeWriteOnly(w) ==
    /\ wpc[w][1] = "append"
    /\ LET ls == AppendLine(shapesLog.lines, Whole(wpc[w][2]))
       IN  /\ shapesLog' = [shapesLog EXCEPT !.lines = ls]
           /\ firm' = [firm EXCEPT ![w] = Last(ls) = Whole(wpc[w][2])]
    /\ shape' = [shape EXCEPT ![w] = wpc[w][2]]
    /\ wpc' = [wpc EXCEPT ![w] = Idle]
    /\ UNCHANGED <<mode, params, bound, dir, arena, sealedBlocks, pvars, sent, damage, bounds>>

\* append_shape_durable: the write; an error may leave a part of the line or
\* nothing, and is dropped.  A write behind a cut line changes that line, so
\* the fsync that covered it no longer does.
ShapeWrite(w) ==
    LET ls == shapesLog.lines
        put(l) == [lines |-> AppendLine(ls, l),
                   synced |-> Min({shapesLog.synced, Len(AppendLine(ls, l)) - 1})]
    IN  /\ wpc[w][1] = "append"
        /\ \/ shapesLog' = put(Whole(wpc[w][2])) /\ NoFault
           \/ Fault /\ \E at \in Cuts : shapesLog' = put(CutLine(Whole(wpc[w][2]), at))
           \/ Fault /\ UNCHANGED shapesLog
        /\ wpc' = [wpc EXCEPT ![w] = <<"sync", wpc[w][2]>>]
        /\ UNCHANGED <<mode, shape, params, bound, firm, dir, arena, sealedBlocks, pvars, sent, rawRows, parses>>

\* its fsync, whose error is dropped too; then SHAPE is set
ShapeSync(w) ==
    LET sh == wpc[w][2]
    IN  /\ wpc[w][1] = "sync"
        /\ \/ /\ shapesLog' = [shapesLog EXCEPT !.synced = Len(shapesLog.lines)] /\ NoFault
              /\ firm' = [firm EXCEPT ![w] = Sound(sh, shapesLog.lines, Len(shapesLog.lines))]
           \/ Fault /\ firm' = [firm EXCEPT ![w] = FALSE] /\ UNCHANGED shapesLog
        /\ shape' = [shape EXCEPT ![w] = sh]
        /\ wpc' = [wpc EXCEPT ![w] = Idle]
        /\ UNCHANGED <<mode, params, bound, dir, arena, sealedBlocks, pvars, sent, rawRows, parses>>

\* pgb_bind_capture: a message that does not parse or has a binary
\* parameter answers 0, and PARAMS keeps what it held
Bind(w, ps) ==
    /\ mode = "b" /\ wpc[w] = Idle /\ shape[w] # NoShape /\ rawRows < MaxRows
    /\ \/ params' = [params EXCEPT ![w] = ps] /\ bound' = [bound EXCEPT ![w] = TRUE]
       \/ bound[w] /\ bound' = [bound EXCEPT ![w] = FALSE] /\ UNCHANGED params
    /\ UNCHANGED <<mode, shapesLog, shape, firm, wpc, dir, arena, sealedBlocks, pvars, sent, damage, bounds>>

\* hotblk_dir_guard: the first stream a thread writes is the only one
GuardRaw(w) == dir[w] \in {"none", "raw"}

\* rawblk_frame around pgb_payload or the statement text, into the live
\* block, and the same frame to the derive pool
Execute(w, kind, payload, row, isFirm) ==
    /\ GuardRaw(w) /\ dir' = [dir EXCEPT ![w] = "raw"]
    /\ rawRows' = rawRows + 1
    /\ LET f == [frame |-> [kind |-> kind, payload |-> payload], row |-> row, firm |-> isFirm]
       IN  /\ arena' = [arena EXCEPT ![w] = Append(@, f)]
           /\ chan' = Append(chan, f)

pgb_payload(w) == [id |-> shape[w], params |-> params[w]]

ExecuteB(w) ==
    /\ bound[w] /\ wpc[w] = Idle /\ rawRows < MaxRows
    /\ Execute(w, "B", pgb_payload(w), Record(shape[w], decode_params(params[w])), firm[w])
    /\ bound' = [bound EXCEPT ![w] = FALSE]
    /\ UNCHANGED <<mode, shapesLog, shape, params, firm, wpc, sealedBlocks, cache, sent,
                   damage, parses, harms>>

ExecuteA(w, sh, ps) ==
    /\ mode = "a" /\ rawRows < MaxRows
    /\ Execute(w, "A", [shape |-> sh, vals |-> decode_params(ps)],
               Record(sh, decode_params(ps)), TRUE)
    /\ UNCHANGED <<mode, shapesLog, fvars, sealedBlocks, cache, sent, damage, parses, harms>>

\* the thread's block is sealed, fsynced and renamed, and its rows acked
Seal(w) ==
    /\ arena[w] # <<>> /\ Len(sealedBlocks[w]) < MaxBlocks
    /\ sealedBlocks' = [sealedBlocks EXCEPT ![w] = Append(@, [i \in 1 .. Len(arena[w]) |-> arena[w][i].frame])]
    /\ sent' = [sent EXCEPT ![w] = @ \o arena[w]]
    /\ arena' = [arena EXCEPT ![w] = <<>>]
    /\ UNCHANGED <<mode, shapesLog, fvars, dir, pvars, damage, bounds>>
-----------------------------------------------------------------------------
(* The derive pool and recovery.                                           *)

\* pgb_record: on a cache miss the log is read once more
Refresh(frame) ==
    IF frame.kind = "B" /\ frame.payload.id \notin DOMAIN cache
    THEN LET loaded == load_shapes(shapesLog.lines)
         IN  [sh \in DOMAIN cache \union DOMAIN loaded |->
                 IF sh \in DOMAIN loaded THEN loaded[sh] ELSE cache[sh]]
    ELSE cache

\* the pool publishes Derive(Head(chan).frame, cache')
PoolDerive ==
    /\ chan # <<>>
    /\ cache' = Refresh(Head(chan).frame) /\ chan' = Tail(chan)
    /\ UNCHANGED <<mode, shapesLog, fvars, dir, arena, sealedBlocks, sent, damage, bounds>>

\* A kill leaves the log as it is.  A power loss takes lines no fsync has
\* covered and may cut the first of them, or takes the file: its directory
\* entry is never fsynced.
Crash ==
    /\ Harm
    /\ \/ shapesLog' = [shapesLog EXCEPT !.synced = Len(shapesLog.lines)] /\ UNCHANGED damage
       \/ /\ damage' = damage \union {"power"}
          /\ \E n \in shapesLog.synced .. Len(shapesLog.lines) :
              LET left == SubSeq(shapesLog.lines, 1, n)
              IN  \/ shapesLog' = [lines |-> left, synced |-> n]
                  \/ /\ n < Len(shapesLog.lines)
                     /\ \E at \in Cuts : shapesLog' =
                            [lines |-> Append(left, CutLine(shapesLog.lines[n + 1], at)), synced |-> n + 1]
       \/ damage' = damage \union {"name"} /\ shapesLog' = [lines |-> <<>>, synced |-> 0]
    /\ shape' = [w \in Workers |-> NoShape] /\ params' = [w \in Workers |-> <<>>]
    /\ bound' = [w \in Workers |-> FALSE] /\ firm' = [w \in Workers |-> FALSE]
    /\ wpc' = [w \in Workers |-> Idle]
    /\ dir' = [w \in Workers |-> "none"]
    /\ arena' = [w \in Workers |-> <<>>]
    /\ chan' = <<>> /\ cache' = <<>>
    /\ UNCHANGED <<mode, sealedBlocks, sent, rawRows, parses>>

\* parse_raw_frames stops at the first frame that fails a check
parse_raw_frames(b) ==
    IF \E i \in 1 .. Len(b) : b[i] = Torn
    THEN SubSeq(b, 1, (CHOOSE i \in 1 .. Len(b) : b[i] = Torn /\ \A j \in 1 .. i - 1 : b[j] # Torn) - 1)
    ELSE b

\* rawblk_recover_open and rawblk_recover_rebuild of a worker's shard: what
\* each frame of blocks 1, 2, ... to the first gap derives to, and the names,
\* of which the last row wins
Rebuild(w) ==
    LET known == load_shapes(shapesLog.lines)
        frames == FlattenSeq([i \in 1 .. Len(sealedBlocks[w]) |-> parse_raw_frames(sealedBlocks[w][i])])
    IN  [i \in 1 .. Len(frames) |-> Derive(frames[i], known)]
pk(got) ==
    LET rows == UNION Range(got)
    IN  [n \in {r.name : r \in rows} |->
            CHOOSE r \in rows : \E i \in DOMAIN got :
                /\ r \in got[i] /\ r.name = n
                /\ \A j \in i + 1 .. Len(got) : \A x \in got[j] : x.name # n]

Params == {<<Null, v>> : v \in Values}

Next ==
    \/ \E w \in Workers :
        \/ ParseRefused(w) \/ ShapeWrite(w) \/ ShapeSync(w) \/ ExecuteB(w) \/ Seal(w)
        \/ \E sh \in Shapes : ParseLoad(w, sh)
        \/ \E ps \in Params : Bind(w, ps)
        \/ \E sh \in Shapes, ps \in Params : ExecuteA(w, sh, ps)
    \/ PoolDerive \/ Crash

Spec == Init /\ [][Next]_vars
-----------------------------------------------------------------------------
\* What of a row must be read as it was submitted: every row while nothing
\* but kills has happened, and after dropped I/O errors and power losses every
\* row whose shape was Sound and durable when its Parse returned, unless
\* shapes.log itself went with its directory entry.
Promised(r) == damage = {} \/ (r.firm /\ "name" \notin damage)

\* "an acked row whose shape reference did not survive the crash is an
\* unreadable row": at any moment a recovery reads every promised row back as
\* its client submitted it, though threads register one shape at a time,
\* lines are cut and run into one another and crashes come in between; and
\* while all rows are promised a name resolves to the last row that bound it.
AckedRowsReadable ==
    \A w \in Workers :
        LET got == Rebuild(w)
        IN  /\ Len(got) = Len(sent[w])
            /\ \A i \in DOMAIN got : Promised(sent[w][i]) => got[i] = {sent[w][i].row}
            /\ damage = {} => \A i \in DOMAIN got :
                    (\A j \in i + 1 .. Len(got) : sent[w][j].row.name # sent[w][i].row.name)
                        => pk(got)[sent[w][i].row.name] = sent[w][i].row

\* Whenever the pool takes the next frame it publishes for a promised row what
\* recovery will find, and never "".  After an error or a power loss that holds
\* of the rows whose shape it reads from the log then: what it has cached of a
\* damaged line it keeps.
PoolAgreesWithRecovery ==
    chan # <<>> =>
        LET f == Head(chan)
            cached == f.frame.kind = "B" /\ f.frame.payload.id \in DOMAIN cache
        IN  Promised(f) /\ (damage # {} => ~cached)
                => Derive(f.frame, Refresh(f.frame)) = {f.row}

\* "the shape must be durable strictly before any Execute that references it
\* can be acked" (pgbshape.rs:33), said of every acknowledged row while no call
\* has failed and nothing has crashed.
ShapeDurableBeforeAck ==
    damage = {} =>
    \A w \in Workers : \A i \in DOMAIN sent[w] :
        sent[w][i].frame.kind = "B" =>
            sent[w][i].frame.payload.id \in DOMAIN load_shapes(SubSeq(shapesLog.lines, 1, shapesLog.synced))
=============================================================================
