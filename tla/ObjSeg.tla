------------------------------- MODULE ObjSeg -------------------------------
(***************************************************************************)
(* Object storage: segment files (runtime/objseg.rs) and the rows of       *)
(* gcore_objects that point into them (runtime/pg_store.rs).  The flush    *)
(* worker (pg_obj_block_put, several objects) and a request thread         *)
(* (pg_bytes_put, one object) append under the SEG_WRITER lock and commit  *)
(* their rows after leaving it, each row's statement under the connection  *)
(* lock.  After a restart the writer's position comes from the rows.       *)
(*                                                                         *)
(* Storage is content-addressed: an object is its address, and takes one   *)
(* cell.  Postgres is external: a statement sent to it takes effect later, *)
(* once, and all of it; also when the client has died in between.  The     *)
(* name of a segment file is never fsynced.                                *)
(***************************************************************************)
EXTENDS Naturals, Sequences, FiniteSetsExt

CONSTANTS
    Threads,    \* threads that store objects
    Addrs,      \* object addresses
    Garbage,    \* a cell that holds no object's bytes
    NoRow,      \* an address without a row
    SegCap,     \* AXVERITY_SEGMENT_BYTES, in cells
    MaxBlock,   \* objects in a block at most
    MaxPuts,    \* bound: appends
    MaxShort,   \* bound: writes that are cut short
    MaxCrashes  \* bound: crashes

ASSUME ObjSegAssumption ==
    /\ Garbage \notin Addrs /\ NoRow \notin [seg : Nat, off : Nat]
    /\ {SegCap, MaxBlock, MaxPuts, MaxShort, MaxCrashes} \subseteq Nat /\ MaxBlock > 0

Segs == 0 .. MaxPuts

Offs == 0 .. (SegCap + MaxBlock)

Pointers == [seg : Segs, off : Offs]

VARIABLES
    disk,       \* segment -> offset -> cell, as the page cache has it
    dirty,      \* cells written and not yet fsynced
    rows,       \* gcore_objects: address -> pointer
    sent,       \* statements Postgres has received and not executed
    late,       \* those whose client has died, which it may still execute
    segFiles, fresh,   \* segment files, and those whose name a power loss may take
    spoilt,     \* ghost: cells that a short write left out or whose file was lost
    doubtful,   \* ghost: objects whose row was committed late
    writer,     \* SEG_WRITER: segment and cursor; known FALSE before first use
    lock, conn, \* threads holding SEG_WRITER and the connection, at most one
    pc, block, base,    \* thread -> position, block in hand, where it went
    puts, shorts, crashes

tvars == <<pc, block, base>>
segNames == <<segFiles, fresh>>
pgvars == <<rows, sent, late, doubtful>>
media == <<disk, dirty, spoilt>>
vars == <<media, segNames, pgvars, writer, lock, conn, tvars, puts, shorts, crashes>>

NoWriter == [known |-> FALSE, seg |-> 0, cursor |-> 0]

Nowhere == [seg |-> 0, off |-> 0]

Init ==
    /\ disk = [s \in Segs |-> [o \in Offs |-> Garbage]] /\ dirty = {}
    /\ rows = [a \in Addrs |-> NoRow] /\ sent = {} /\ late = {}
    /\ segFiles = {} /\ fresh = {} /\ spoilt = {} /\ doubtful = {}
    /\ writer = NoWriter /\ lock = {} /\ conn = {}
    /\ pc = [t \in Threads |-> "idle"]
    /\ block = [t \in Threads |-> << >>] /\ base = [t \in Threads |-> Nowhere]
    /\ puts = 0 /\ shorts = 0 /\ crashes = 0

\* A block packs distinct objects.
Packings ==
    UNION {{b \in [1 .. n -> Addrs] : \A i, j \in 1 .. n : i # j => b[i] # b[j]} :
            n \in 1 .. MaxBlock}

Cells(at, n) == {[seg |-> at.seg, off |-> at.off + i] : i \in 0 .. (n - 1)}

GoTo(t, l) == pc' = [pc EXCEPT ![t] = l]

-----------------------------------------------------------------------------
(* pg_bytes_put and pg_obj_block_put: seg_append, then the rows *)

Put(t) ==
    /\ pc[t] = "idle" /\ puts < MaxPuts
    /\ \E b \in Packings : block' = [block EXCEPT ![t] = b]
    /\ puts' = puts + 1
    /\ GoTo(t, "lock")
    /\ UNCHANGED <<media, segNames, pgvars, writer, lock, conn, base, shorts, crashes>>

\* prealloc_file makes the file where there is none
Prealloc(s) == segFiles' = segFiles \union {s} /\ fresh' = fresh \union ({s} \ segFiles)

\* recover_seg_writer: the end of the last row of the highest segment that has
\* one, read under the connection lock
Recovered ==
    LET held == {rows[a] : a \in {x \in Addrs : rows[x] # NoRow}}
        last == Max({p.seg : p \in held})
    IN  IF held = {} THEN [NoWriter EXCEPT !.known = TRUE]
        ELSE [known |-> TRUE, seg |-> last,
              cursor |-> Max({p.off + 1 : p \in {q \in held : q.seg = last}})]

RecoverSegWriter(t) ==
    /\ pc[t] = "lock" /\ ~writer.known /\ conn = {}
    /\ writer' = Recovered /\ Prealloc(Recovered.seg)
    /\ UNCHANGED <<media, pgvars, lock, conn, tvars, puts, shorts, crashes>>

\* Lock SEG_WRITER and roll to the next segment when the block does not fit
Reserve(t) ==
    /\ pc[t] = "lock" /\ writer.known /\ lock = {}
    /\ lock' = {t}
    /\ writer' = IF writer.cursor > 0 /\ writer.cursor + Len(block[t]) > SegCap
                 THEN [writer EXCEPT !.seg = @ + 1, !.cursor = 0]
                 ELSE writer
    /\ IF writer'.cursor = 0 THEN Prealloc(writer'.seg) ELSE UNCHANGED segNames
    /\ GoTo(t, "write")
    /\ UNCHANGED <<media, pgvars, conn, block, base, puts, shorts, crashes>>

\* f.write_at(bytes, cursor): the count it returns is not looked at
WriteAt(t) ==
    /\ pc[t] = "write"
    /\ \E n \in 1 .. Len(block[t]) :
        LET at == [seg |-> writer.seg, off |-> writer.cursor]
            all == Cells(at, Len(block[t]))
        IN  /\ IF n = Len(block[t]) THEN UNCHANGED shorts
               ELSE shorts < MaxShort /\ shorts' = shorts + 1
            /\ disk' = [disk EXCEPT ![at.seg] = [o \in Offs |->
                            IF [seg |-> at.seg, off |-> o] \in Cells(at, n)
                            THEN block[t][o - at.off + 1] ELSE @[o]]]
            /\ dirty' = dirty \union Cells(at, n)
            /\ spoilt' = (spoilt \ all) \union (all \ Cells(at, n))
    /\ GoTo(t, "sync")
    /\ UNCHANGED <<segNames, pgvars, writer, lock, conn, block, base, puts, crashes>>

\* Slip: the append is not fsynced before its rows are committed.
SyncDataSkipped(t) ==
    /\ pc[t] = "sync"
    /\ GoTo(t, "advance")
    /\ UNCHANGED <<media, segNames, pgvars, writer, lock, conn, block, base, puts, shorts, crashes>>

\* f.sync_data()
SyncData(t) ==
    /\ pc[t] = "sync"
    /\ dirty' = {c \in dirty : c.seg # writer.seg}
    /\ GoTo(t, "advance")
    /\ UNCHANGED <<disk, spoilt, segNames, pgvars, writer, lock, conn, block, base, puts, shorts, crashes>>

\* w.cursor += len, and the lock goes
Advance(t) ==
    /\ pc[t] = "advance"
    /\ base' = [base EXCEPT ![t] = [seg |-> writer.seg, off |-> writer.cursor]]
    /\ writer' = [writer EXCEPT !.cursor = @ + Len(block[t])]
    /\ lock' = {}
    /\ GoTo(t, "commit")
    /\ UNCHANGED <<media, segNames, pgvars, conn, block, puts, shorts, crashes>>

\* One statement or one transaction for all the rows of the block
SendCommit(t) ==
    /\ pc[t] = "commit" /\ conn = {}
    /\ conn' = {t}
    /\ sent' = sent \union {[block |-> block[t], base |-> base[t]]}
    /\ GoTo(t, "reply")
    /\ UNCHANGED <<media, segNames, rows, late, doubtful, writer, lock, block, base, puts, shorts, crashes>>

\* The row a block's commit has for an object of it
RowFor(c, a) ==
    [c.base EXCEPT !.off = @ + (CHOOSE i \in 1 .. Len(c.block) : c.block[i] = a) - 1]

\* INSERT ... ON CONFLICT (addr) DO NOTHING
NewIn(c) == {a \in Addrs : rows[a] = NoRow /\ \E i \in 1 .. Len(c.block) : c.block[i] = a}
Insert(c) == rows' = [a \in Addrs |-> IF a \in NewIn(c) THEN RowFor(c, a) ELSE rows[a]]

PgCommit(c) ==
    /\ c \in sent /\ sent' = sent \ {c}
    /\ Insert(c)
    /\ UNCHANGED <<media, segNames, late, doubtful, writer, lock, conn, tvars, puts, shorts, crashes>>

\* Postgres executes what a dead client has sent.
PgCommitLate(c) ==
    /\ c \in late /\ late' = late \ {c}
    /\ Insert(c) /\ doubtful' = doubtful \union NewIn(c)
    /\ UNCHANGED <<media, segNames, sent, writer, lock, conn, tvars, puts, shorts, crashes>>

\* The reply comes once Postgres is through with the statement.
Reply(t) ==
    /\ pc[t] = "reply" /\ [block |-> block[t], base |-> base[t]] \notin sent
    /\ conn' = {}
    /\ GoTo(t, "idle")
    /\ UNCHANGED <<media, segNames, pgvars, writer, lock, block, base, puts, shorts, crashes>>

\* A kill, or a power loss: unsynced cells may or may not have reached the
\* disk, nor the names of new files.  What Postgres had received and not
\* executed it may execute later, or never.
Crash ==
    /\ crashes < MaxCrashes
    /\ crashes' = crashes + 1
    /\ \E lost \in SUBSET dirty, gone \in SUBSET fresh :
        /\ disk' = [s \in Segs |-> [o \in Offs |->
                    IF s \in gone \/ [seg |-> s, off |-> o] \in lost THEN Garbage ELSE disk[s][o]]]
        /\ segFiles' = segFiles \ gone
        /\ fresh' = IF lost = {} /\ gone = {} THEN fresh ELSE {}
        /\ spoilt' = spoilt \union {x \in Pointers : x.seg \in gone}
    /\ dirty' = {}
    /\ late' = late \union sent /\ sent' = {}
    /\ writer' = NoWriter /\ lock' = {} /\ conn' = {}
    /\ pc' = [t \in Threads |-> "idle"]
    /\ block' = [t \in Threads |-> << >>] /\ base' = [t \in Threads |-> Nowhere]
    /\ UNCHANGED <<rows, doubtful, puts, shorts>>

Next ==
    \/ \E t \in Threads :
        \/ Put(t) \/ RecoverSegWriter(t) \/ Reserve(t) \/ WriteAt(t) \/ SyncData(t)
        \/ Advance(t) \/ SendCommit(t) \/ Reply(t)
    \/ \E c \in sent : PgCommit(c)
    \/ \E c \in late : PgCommitLate(c)
    \/ Crash

Spec == Init /\ [][Next]_vars

-----------------------------------------------------------------------------
\* pg_bytes_get: the row, then seg_read
SegRead(p) == disk[p.seg][p.off]

\* Every variable holds a value of its type.
TypeOK ==
    /\ disk \in [Segs -> [Offs -> Addrs \union {Garbage}]] /\ {dirty, spoilt} \subseteq SUBSET Pointers
    /\ {segFiles, fresh} \subseteq SUBSET Segs /\ doubtful \subseteq Addrs
    /\ rows \in [Addrs -> Pointers \union {NoRow}]
    /\ \A c \in sent \union late : c.block \in Packings /\ c.base \in Pointers
    /\ writer \in [known : BOOLEAN, seg : Segs, cursor : Offs]
    /\ lock \subseteq Threads /\ conn \subseteq Threads
    /\ pc \in [Threads -> {"idle", "lock", "write", "sync", "advance", "commit", "reply"}]
    /\ block \in [Threads -> Packings \union {<< >>}] /\ base \in [Threads -> Pointers]
    /\ puts \in 0 .. MaxPuts /\ shorts \in 0 .. MaxShort /\ crashes \in 0 .. MaxCrashes

\* What a row points at is the object, on disk, through every restart, whatever
\* is appended later, unless its own bytes were left out by a short write, its
\* segment's name was lost with the power, or it was committed late: of the
\* rows that point into such an append or file only those are lost.
RowsPointAtObjects ==
    \A a \in Addrs \ doubtful :
        rows[a] # NoRow => (rows[a] \notin spoilt => SegRead(rows[a]) = a) /\ rows[a] \notin dirty

\* "Two calls' byte ranges never overlap": from its reservation on, the range
\* of an append is apart from those of the others and from every row but its
\* own and those committed late.
RangesDisjoint ==
    LET open == {t \in Threads : pc[t] \in {"write", "sync", "advance", "commit", "reply"}}
        from(t) == IF t \in lock THEN [seg |-> writer.seg, off |-> writer.cursor] ELSE base[t]
        range(t) == Cells(from(t), Len(block[t]))
    IN  /\ \A t, u \in open : t # u => range(t) \intersect range(u) = {}
        /\ \A t \in open : \A a \in Addrs \ doubtful :
            rows[a] \in range(t) => pc[t] = "reply" /\ RowFor([block |-> block[t], base |-> base[t]], a) = rows[a]

\* "a segment pwrite is fully written and fsync'd BEFORE the postgres row that
\* points at it ever commits" (objseg.rs:49), said of every row.
CommittedIsWritten == \A a \in Addrs : rows[a] # NoRow => SegRead(rows[a]) = a

\* seg_append and the rows of its block: every pointer is good, now and later.
PointersAreGood == TypeOK /\ RowsPointAtObjects /\ RangesDisjoint
=============================================================================
