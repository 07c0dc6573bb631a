---------------------------- MODULE ReclogProofs ----------------------------
(***************************************************************************)
(* Proofs about the recovery log (Reclog): what crashes of each kind leave *)
(* of acknowledged rows, of the lines in the name logs and of their order. *)
(***************************************************************************)
EXTENDS Reclog, SequenceTheorems, FiniteSetTheorems, TLAPS

FileOf(C) ==
    {f \in [exists : BOOLEAN, data : Seq(C), synced : Nat, entry : BOOLEAN] :
        f.synced <= Len(f.data) /\ (f.entry => f.exists)}

Cell == [row : 1 .. MaxRows, part : {"header", "payload"}]

\* The line of row i of the batch is with the log of its name: the log is the
\* one under way or an earlier one.
Named(i) == \E j \in 1 .. named : batch[j].name = batch[i].name

\* It is written.
Written(i) ==
    \/ pc = "signal"
    \/ pc = "names" /\ Named(i)
    \/ pc = "lines" /\ Named(i) /\ (i \in Lines => i <= k)

\* It is written and fsynced.
LineSynced(i) ==
    \/ pc = "signal"
    \/ pc = "names" /\ Named(i)
    \/ pc = "lines" /\ Named(i) /\ i \notin Lines

\* The frame of row r is in the file, anywhere or where an fsync has been.
HasFrame(f, r) == \E i \in 1 .. Len(f.data) : FrameAt(f.data, i, r)

HasSyncedFrame(f, r) ==
    f.exists /\ \E i \in 1 .. f.synced : 2 * i <= f.synced /\ FrameAt(f.data, i, r)

\* The line of row r is in the file where an fsync has been.
HasLine(f, r) == \E i \in 1 .. f.synced : f.data[i] = r

\* Some segment keeps the content of row r.
ContentSynced(r) == \E s \in Segments : HasSyncedFrame(segs[s], r)

\* Nothing a crash may do short of taking a segment keeps a rebuild from row r:
\* all that is before its frame is synced.
ContentReached(r) ==
    \E s \in Segments :
        /\ segs[s].exists
        /\ \E i \in 1 .. segs[s].synced :
            /\ 2 * i <= segs[s].synced
            /\ Parsed(segs[s].data, i) /\ FrameAt(segs[s].data, i, r)
        /\ \A u \in 0 .. (s - 1) :
            /\ segs[u].exists /\ segs[u].synced = Len(segs[u].data)
            /\ CleanEnd(segs[u].data)

\* The inductive invariant, in named parts.

RecTypes ==
    /\ segs \in [Segments -> FileOf(Cell)] /\ logs \in [Names -> FileOf(1 .. MaxRows)]
    /\ rows \in 0 .. MaxRows /\ queue \in Seq(Items) /\ batch \in Seq(Items)
    /\ pc \in {"idle", "segment", "open", "frames", "segdir", "names", "lines", "signal"}
    /\ seq \in Segments /\ isNew \in BOOLEAN /\ k \in 0 .. BatchCap
    /\ named \in 0 .. BatchCap /\ anyNew \in BOOLEAN
    /\ acked \subseteq 1 .. rows /\ old \subseteq acked
    /\ harm \subseteq Harms /\ crashes \in 0 .. MaxCrashes

\* What the janitor's position says of its batch, its segment and its log.
JanitorPlaced ==
    /\ Len(batch) <= BatchCap
    /\ pc \in {"open", "frames"} => segs[seq].exists
    /\ pc \in {"segment", "open"} => k = 0
    /\ pc \in {"segment", "open", "frames", "segdir"} => named = 0
    /\ pc = "frames" => k <= Len(batch)
    /\ pc = "names" => named <= Len(batch)
    /\ pc = "lines" => named \in 1 .. Len(batch) /\ k <= Len(batch)

\* Rows are submitted, drained and written in one order: no line in a log is
\* that of a later row than one still to be written there.
RowsInOrder ==
    /\ \A i, j \in 1 .. Len(queue) : i < j => queue[i].row < queue[j].row
    /\ \A i \in 1 .. Len(queue) : queue[i].row <= rows
    /\ \A i, j \in 1 .. Len(batch) : i < j => batch[i].row < batch[j].row
    /\ \A i \in 1 .. Len(batch) : /\ batch[i].row <= rows
                                  /\ \A j \in 1 .. Len(queue) : batch[i].row < queue[j].row
    /\ \A n \in Names : \A x \in 1 .. Len(logs[n].data) :
        /\ logs[n].data[x] <= rows
        /\ \A j \in 1 .. Len(queue) : logs[n].data[x] < queue[j].row
        /\ \A i \in 1 .. Len(batch) :
             batch[i].name = n => Written(i) \/ logs[n].data[x] < batch[i].row

\* The segments are numbered without a gap, and the batch goes to the last.
SegmentsInOrder ==
    "wal" \notin harm =>
        /\ \A s \in Segments : segs[s].exists => \A u \in 0 .. s : segs[u].exists
        /\ pc \in {"open", "frames"} => \A s \in Segments : segs[s].exists => s <= seq

\* Without a torn tail every segment is whole frames, and so is what of it is synced.
WholeFrames ==
    harm \subseteq {"names"} =>
        \A s \in Segments : CleanEnd(segs[s].data)
                            /\ \E i \in 0 .. segs[s].synced : segs[s].synced = 2 * i

\* A row of the batch has its frame in the segment, and once that is fsynced
\* its content is safe; lines are written only then.
ContentFirst ==
    harm \subseteq {"names"} =>
        /\ pc = "frames" => \A i \in 1 .. k : HasFrame(segs[seq], batch[i].row)
        /\ pc \in {"segdir", "names", "lines", "signal"} =>
             \A i \in 1 .. Len(batch) : ContentSynced(batch[i].row)
        /\ \A r \in acked \union Bound : ContentSynced(r)

\* The lines the loop over the names has passed are in their logs, synced; what
\* is acknowledged has both.
LinesWritten ==
    /\ \A i \in 1 .. Len(batch) :
        /\ Written(i) => \E x \in 1 .. Len(logs[batch[i].name].data) :
                            logs[batch[i].name].data[x] = batch[i].row
        /\ LineSynced(i) => HasLine(logs[batch[i].name], batch[i].row)
    /\ "names" \notin harm => \A r \in acked : \E n \in Names : HasLine(logs[n], r)

\* The log of row i of the batch has been opened.
Opened(i) == pc = "signal" \/ (pc \in {"names", "lines"} /\ Named(i))

\* In the first life all there is is synced, the directory entries too, except
\* for what the batch under way has written.
FirstLife ==
    crashes = 0 =>
        /\ harm = {} /\ old = acked
        /\ \A s \in Segments :
             segs[s].synced = Len(segs[s].data) \/ (pc = "frames" /\ s = seq)
        /\ \A n \in Names : logs[n].exists =>
             logs[n].entry \/ (pc \in {"names", "lines"} /\ anyNew)
        /\ \A i \in 1 .. Len(batch) : Opened(i) => logs[batch[i].name].exists

\* Rows acknowledged in the first life: nothing in front of their frames is
\* lost, and their lines are in logs whose entries are durable.
OldKept ==
    "wal" \notin harm =>
        \A r \in old : /\ ContentReached(r)
                       /\ \E n \in Names : logs[n].exists /\ logs[n].entry /\ HasLine(logs[n], r)

\* The inductive invariant.
RecInv ==
    /\ RecTypes /\ JanitorPlaced /\ RowsInOrder /\ BindsInSubmitOrder /\ SegmentsInOrder
    /\ WholeFrames /\ ContentFirst /\ LinesWritten /\ FirstLife /\ OldKept
-----------------------------------------------------------------------------
(* Files *)

\* What a step of the janitor does to a file: nothing goes, something may come.
Grows(f, g) ==
    /\ f.exists => g.exists
    /\ f.entry => g.entry
    /\ f.synced <= g.synced /\ Len(f.data) <= Len(g.data)
    /\ \A i \in 1 .. Len(f.data) : g.data[i] = f.data[i]

\* What a crash does to a file it does not take: some of the unsynced tail goes.
Spares(f, g) ==
    /\ g.exists = f.exists /\ g.entry = f.entry /\ g.synced = f.synced
    /\ f.synced <= Len(g.data) /\ Len(g.data) <= Len(f.data)
    /\ \A i \in 1 .. Len(g.data) : g.data[i] = f.data[i]

\* What goes is a number of whole units.
CutBy(f, g, unit) == (Len(f.data) - Len(g.data)) % unit = 0

\* What both leave: the synced part.
Keeps(f, g) ==
    /\ f.exists => g.exists
    /\ f.entry => g.entry
    /\ f.synced <= g.synced
    /\ \A i \in 1 .. f.synced : g.data[i] = f.data[i]

\* The fields of a file.
LEMMA FileFacts ==
    ASSUME NEW C, NEW f \in FileOf(C)
    PROVE  /\ f.exists \in BOOLEAN /\ f.entry \in BOOLEAN /\ f.data \in Seq(C)
           /\ f.synced \in Nat /\ Len(f.data) \in Nat /\ f.synced <= Len(f.data)
           /\ f.entry => f.exists
           /\ \A i \in 1 .. Len(f.data) : f.data[i] \in C
    BY DEF FileOf

\* open_append
LEMMA CreateFacts ==
    ASSUME NEW C, NEW f \in FileOf(C)
    PROVE  /\ Create(f) \in FileOf(C) /\ Grows(f, Create(f)) /\ Create(f).exists
           /\ Create(f).data = f.data /\ Create(f).synced = f.synced
           /\ Create(f).entry = f.entry
<1>1. Create(f) \in FileOf(C) BY DEF Create, FileOf
<1>2. /\ Create(f).exists /\ Create(f).data = f.data /\ Create(f).synced = f.synced
      /\ Create(f).entry = f.entry
    BY DEF Create, FileOf
<1> QED BY <1>1, <1>2, FileFacts DEF Grows

\* write_all
LEMMA WriteFacts ==
    ASSUME NEW C, NEW f \in FileOf(C), NEW cells \in Seq(C)
    PROVE  /\ Write(f, cells) \in FileOf(C) /\ Grows(f, Write(f, cells))
           /\ Write(f, cells).data = f.data \o cells
           /\ Write(f, cells).exists = f.exists /\ Write(f, cells).synced = f.synced
           /\ Write(f, cells).entry = f.entry
<1>1. f.data \in Seq(C) /\ f.data \o cells \in Seq(C)
      /\ Len(f.data \o cells) = Len(f.data) + Len(cells) /\ Len(cells) \in Nat
      /\ \A i \in 1 .. Len(f.data) : (f.data \o cells)[i] = f.data[i]
    BY FileFacts
<1>2. /\ Write(f, cells).data = f.data \o cells /\ Write(f, cells).exists = f.exists
      /\ Write(f, cells).synced = f.synced /\ Write(f, cells).entry = f.entry
    BY DEF Write, FileOf
<1>3. Write(f, cells) \in FileOf(C)
  <2>1. Write(f, cells) \in [exists : BOOLEAN, data : Seq(C), synced : Nat, entry : BOOLEAN]
      BY <1>1 DEF Write, FileOf
  <2> QED BY <2>1, <1>1, <1>2, FileFacts DEF FileOf
<1>4. Grows(f, Write(f, cells)) BY <1>1, <1>2, FileFacts DEF Grows
<1> QED BY <1>2, <1>3, <1>4

\* sync_all
LEMMA SyncFacts ==
    ASSUME NEW C, NEW f \in FileOf(C)
    PROVE  /\ Sync(f) \in FileOf(C) /\ Grows(f, Sync(f))
           /\ Sync(f).data = f.data /\ Sync(f).synced = Len(f.data)
           /\ Sync(f).exists = f.exists /\ Sync(f).entry = f.entry
<1>1. /\ Sync(f).data = f.data /\ Sync(f).synced = Len(f.data)
      /\ Sync(f).exists = f.exists /\ Sync(f).entry = f.entry
    BY DEF Sync, FileOf
<1>2. Sync(f) \in FileOf(C) BY FileFacts DEF Sync, FileOf
<1> QED BY <1>1, <1>2, FileFacts DEF Grows

\* fsync_parent_dir: of the files only the entries change.
LEMMA SyncDirFacts ==
    ASSUME NEW C, NEW D, NEW files \in [D -> FileOf(C)]
    PROVE  /\ SyncDir(files) \in [D -> FileOf(C)]
           /\ \A x \in D : /\ SyncDir(files)[x].data = files[x].data
                           /\ SyncDir(files)[x].synced = files[x].synced
                           /\ SyncDir(files)[x].exists = files[x].exists
                           /\ SyncDir(files)[x].entry = files[x].exists
<1>1. ASSUME NEW x \in D
      PROVE  /\ SyncDir(files)[x] \in FileOf(C)
             /\ SyncDir(files)[x].data = files[x].data
             /\ SyncDir(files)[x].synced = files[x].synced
             /\ SyncDir(files)[x].exists = files[x].exists
             /\ SyncDir(files)[x].entry = files[x].exists
  <2>1. SyncDir(files)[x] = [files[x] EXCEPT !.entry = files[x].exists] BY DEF SyncDir
  <2>2. files[x] \in FileOf(C) OBVIOUS
  <2> QED BY <2>1, <2>2 DEF FileOf
<1>2. SyncDir(files) = [x \in D |-> [files[x] EXCEPT !.entry = files[x].exists]]
    BY DEF SyncDir
<1>3. \A x \in D : [files[x] EXCEPT !.entry = files[x].exists] \in FileOf(C)
    BY <1>1, <1>2
<1> QED BY <1>1, <1>2, <1>3

\* A crash leaves of a file a part that has all its synced cells, or takes it.
LEMMA SurvivorFacts ==
    ASSUME NEW C, NEW f \in FileOf(C), NEW unit \in {1, 2}, NEW lossy \in BOOLEAN,
           NEW g \in Survivors(f, unit, lossy)
    PROVE  /\ g \in FileOf(C)
           /\ \/ Spares(f, g) /\ CutBy(f, g, unit)
              \/ lossy /\ ~f.entry /\ g = NoFile
<1>1. CASE lossy /\ ~f.entry /\ g = NoFile
  <2>1. << >> \in Seq(C) /\ Len(<< >>) = 0 OBVIOUS
  <2>2. NoFile \in FileOf(C)
    <3>1. NoFile = [exists |-> FALSE, data |-> << >>, synced |-> 0, entry |-> FALSE]
        BY DEF NoFile
    <3>2. [exists |-> FALSE, data |-> << >>, synced |-> 0, entry |-> FALSE] \in FileOf(C)
        BY <2>1 DEF FileOf
    <3> QED BY <3>1, <3>2
  <2> QED BY <1>1, <2>2
<1>2. CASE \E m \in f.synced .. Len(f.data) : (Len(f.data) - m) % unit = 0 /\ g = [f EXCEPT !.data = SubSeq(f.data, 1, m)]
  <2>1. PICK m \in f.synced .. Len(f.data) :
            (Len(f.data) - m) % unit = 0 /\ g = [f EXCEPT !.data = SubSeq(f.data, 1, m)]
      BY <1>2
  <2>2. m \in Nat /\ f.synced <= m /\ m <= Len(f.data) BY FileFacts
  <2>3. f.data \in Seq(C) BY FileFacts
  <2>4. /\ SubSeq(f.data, 1, m) \in Seq(C) /\ Len(SubSeq(f.data, 1, m)) = m
        /\ \A i \in 1 .. m : SubSeq(f.data, 1, m)[i] = f.data[i]
      BY <2>2, <2>3
  <2>5. /\ g.data = SubSeq(f.data, 1, m) /\ g.exists = f.exists /\ g.synced = f.synced
        /\ g.entry = f.entry
      BY <2>1 DEF FileOf
  <2>6. g \in FileOf(C)
    <3>1. g \in [exists : BOOLEAN, data : Seq(C), synced : Nat, entry : BOOLEAN]
        BY <2>1, <2>4 DEF FileOf
    <3> QED BY <3>1, <2>2, <2>4, <2>5 DEF FileOf
  <2> QED BY <2>1, <2>2, <2>4, <2>5, <2>6 DEF Spares, CutBy
<1> QED BY <1>1, <1>2 DEF Survivors

\* What a crash leaves of a directory, file by file.
LEMMA RemainsFacts ==
    ASSUME NEW C, NEW D, NEW files \in [D -> FileOf(C)], NEW unit \in {1, 2},
           NEW lossy \in BOOLEAN, NEW g \in Remains(files, unit, lossy)
    PROVE  /\ g \in [D -> FileOf(C)]
           /\ \A x \in D : \/ /\ Spares(files[x], g[x])
                              /\ CutBy(files[x], g[x], unit)
                           \/ lossy /\ ~files[x].entry /\ g[x] = NoFile
<1> DEFINE Left(x) == Survivors(files[x], unit, lossy)
           atRisk == {x \in D : Left(x) # {files[x]}}
<1>1. DOMAIN files = D OBVIOUS
<1>2. PICK c \in [atRisk -> UNION {Left(x) : x \in atRisk}] :
        /\ \A x \in atRisk : c[x] \in Left(x)
        /\ g = [x \in D |-> IF x \in atRisk THEN c[x] ELSE files[x]]
    BY <1>1, ZenonT(30) DEF Remains
<1>3. ASSUME NEW x \in D PROVE g[x] \in Left(x)
  <2>1. CASE x \in atRisk BY <2>1, <1>2
  <2>2. CASE x \notin atRisk BY <2>2, <1>2
  <2> QED BY <2>1, <2>2
<1>4. ASSUME NEW x \in D
      PROVE  /\ g[x] \in FileOf(C)
             /\ \/ /\ Spares(files[x], g[x])
                   /\ CutBy(files[x], g[x], unit)
                \/ lossy /\ ~files[x].entry /\ g[x] = NoFile
  <2>1. files[x] \in FileOf(C) /\ g[x] \in Survivors(files[x], unit, lossy)
      BY <1>3
  <2>2. \A f \in FileOf(C) : \A y \in Survivors(f, unit, lossy) :
            /\ y \in FileOf(C)
            /\ \/ Spares(f, y) /\ CutBy(f, y, unit)
               \/ lossy /\ ~f.entry /\ y = NoFile
      BY SurvivorFacts
  <2> QED BY <2>1, <2>2
<1>5. DOMAIN g = D /\ g = [x \in D |-> g[x]] BY <1>2
<1> HIDE DEF Left, atRisk
<1> QED BY <1>4, <1>5

-----------------------------------------------------------------------------
(* Frames and lines in files *)

\* The cells of a frame.
LEMMA FrameFacts ==
    ASSUME NEW r \in 1 .. MaxRows
    PROVE  /\ Frame(r) \in Seq(Cell) /\ Len(Frame(r)) = 2
           /\ Frame(r)[1] = Header(r) /\ Frame(r)[2] = Payload(r)
<1>1. Header(r) \in Cell /\ Payload(r) \in Cell BY DEF Header, Payload, Cell
<1> QED BY <1>1 DEF Frame

\* A frame is where it was in a file that has the same cells so far.
LEMMA FrameStays ==
    ASSUME NEW d, NEW e, NEW i \in Nat \ {0}, NEW r, FrameAt(d, i, r),
           2 * i <= Len(e), \A x \in 1 .. 2 * i : e[x] = d[x]
    PROVE  FrameAt(e, i, r)
<1>1. 2 * i \in 1 .. 2 * i /\ 2 * i - 1 \in 1 .. 2 * i OBVIOUS
<1> QED BY <1>1 DEF FrameAt

\* The same of the frames up to one.
LEMMA ParsedStays ==
    ASSUME NEW d, NEW e, NEW i \in Nat, Parsed(d, i),
           Len(e) \in Nat, 2 * i <= Len(e), \A x \in 1 .. 2 * i : e[x] = d[x]
    PROVE  Parsed(e, i)
<1> SUFFICES ASSUME NEW j \in 1 .. i PROVE \E r \in 1 .. MaxRows : FrameAt(e, j, r)
    BY DEF Parsed
<1>1. PICK r \in 1 .. MaxRows : FrameAt(d, j, r) BY DEF Parsed
<1>2. j \in Nat \ {0} /\ 2 * j <= Len(e) /\ \A x \in 1 .. 2 * j : e[x] = d[x]
    OBVIOUS
<1> QED BY <1>1, <1>2, FrameStays

\* A frame behind whole frames is whole.
LEMMA CleanWrite ==
    ASSUME NEW d \in Seq(Cell), CleanEnd(d), NEW r \in 1 .. MaxRows
    PROVE  /\ CleanEnd(d \o Frame(r))
           /\ \E i \in 1 .. Len(d \o Frame(r)) : FrameAt(d \o Frame(r), i, r)
<1> DEFINE e == d \o Frame(r)
<1>1. PICK m \in 0 .. Len(d) : 2 * m = Len(d) /\ Parsed(d, m) BY DEF CleanEnd
<1>2. /\ Len(e) = Len(d) + 2 /\ Len(d) \in Nat
      /\ \A x \in 1 .. Len(d) : e[x] = d[x]
      /\ e[Len(d) + 1] = Header(r) /\ e[Len(d) + 2] = Payload(r)
  <2>1. Len(e) = Len(d) + Len(Frame(r)) /\ Len(d) \in Nat BY FrameFacts
  <2>2. \A x \in 1 .. Len(d) : e[x] = d[x] BY FrameFacts
  <2>3. e[Len(d) + 1] = Frame(r)[1] /\ e[Len(d) + 2] = Frame(r)[2]
      BY FrameFacts
  <2> QED BY <2>1, <2>2, <2>3, FrameFacts
<1> HIDE DEF e
<1>3. m \in Nat /\ 2 * (m + 1) = Len(e) /\ m + 1 \in 1 .. Len(e) BY <1>1, <1>2
<1>4. FrameAt(e, m + 1, r)
  <2>1. 2 * (m + 1) = Len(d) + 2 /\ 2 * (m + 1) - 1 = Len(d) + 1 BY <1>1, <1>2
  <2> QED BY <2>1, <1>2, <1>3 DEF FrameAt
<1>5. Parsed(e, m) BY <1>1, <1>2, <1>3, ParsedStays
<1>6. Parsed(e, m + 1)
  <2> SUFFICES ASSUME NEW j \in 1 .. (m + 1) PROVE \E q \in 1 .. MaxRows : FrameAt(e, j, q)
      BY DEF Parsed
  <2>1. CASE j = m + 1 BY <2>1, <1>4
  <2>2. CASE j # m + 1
    <3>1. j \in 1 .. m BY <2>2, <1>3
    <3> QED BY <3>1, <1>5 DEF Parsed
  <2> QED BY <2>1, <2>2
<1>7. CleanEnd(e) BY <1>3, <1>6 DEF CleanEnd
<1> QED BY <1>3, <1>4, <1>7 DEF e

\* Nor does it stop being whole when frames of its end go.
LEMMA CleanCut ==
    ASSUME NEW d \in Seq(Cell), NEW e \in Seq(Cell), CleanEnd(d), Len(e) <= Len(d),
           (Len(d) - Len(e)) % 2 = 0, \A x \in 1 .. Len(e) : e[x] = d[x]
    PROVE  CleanEnd(e)
<1>1. PICK m \in 0 .. Len(d) : 2 * m = Len(d) /\ Parsed(d, m) BY DEF CleanEnd
<1>2. Len(d) \in Nat /\ Len(e) \in Nat OBVIOUS
<1>3. PICK c \in Nat : Len(d) - Len(e) = 2 * c
  <2>1. Len(d) - Len(e) \in Nat BY <1>2
  <2>2. \A y \in Nat : y % 2 = 0 => \E c \in Nat : y = 2 * c
    <3>1. ASSUME NEW y \in Nat, y % 2 = 0 PROVE y \div 2 \in Nat /\ y = 2 * (y \div 2)
        BY <3>1
    <3> QED BY <3>1
  <2> QED BY <2>1, <2>2
<1>4. m - c \in 0 .. Len(e) /\ 2 * (m - c) = Len(e) BY <1>1, <1>2, <1>3
<1>5. Parsed(d, m - c) BY <1>1, <1>3, <1>4 DEF Parsed
<1>6. Parsed(e, m - c)
  <2>1. PICK b \in Nat : b = m - c BY <1>4
  <2>2. Parsed(d, b) /\ 2 * b <= Len(e) /\ \A x \in 1 .. 2 * b : e[x] = d[x]
      BY <2>1, <1>2, <1>4, <1>5
  <2>3. Parsed(e, b) BY <2>2, <1>2, ParsedStays
  <2> QED BY <2>1, <2>3
<1> QED BY <1>4, <1>6 DEF CleanEnd

\* What a step leaves, and what a crash leaves, has the synced part.
LEMMA Keeping ==
    ASSUME NEW C, NEW f \in FileOf(C), NEW g \in FileOf(C), Grows(f, g) \/ Spares(f, g)
    PROVE  Keeps(f, g)
    BY FileFacts DEF Keeps, Grows, Spares

\* A synced frame stays.
LEMMA SyncedFrameStays ==
    ASSUME NEW f \in FileOf(Cell), NEW g \in FileOf(Cell), Keeps(f, g),
           NEW r, HasSyncedFrame(f, r)
    PROVE  HasSyncedFrame(g, r)
<1>1. PICK i \in 1 .. f.synced : 2 * i <= f.synced /\ FrameAt(f.data, i, r)
    BY DEF HasSyncedFrame
<1>2. /\ f.synced \in Nat /\ g.synced \in Nat /\ f.synced <= g.synced
      /\ g.synced <= Len(g.data) /\ Len(g.data) \in Nat
    BY FileFacts DEF Keeps
<1>3. i \in Nat \ {0} /\ i \in 1 .. g.synced /\ 2 * i <= g.synced /\ 2 * i <= Len(g.data)
    BY <1>1, <1>2
<1>4. \A x \in 1 .. 2 * i : g.data[x] = f.data[x] BY <1>1, <1>2 DEF Keeps
<1>5. FrameAt(g.data, i, r) BY <1>1, <1>3, <1>4, FrameStays
<1> QED BY <1>3, <1>5 DEF HasSyncedFrame, Keeps

\* So does a synced line.
LEMMA LineStays ==
    ASSUME NEW C, NEW f \in FileOf(C), NEW g \in FileOf(C), Keeps(f, g), NEW r, HasLine(f, r)
    PROVE  HasLine(g, r)
    BY FileFacts DEF HasLine, Keeps

\* A frame written stays as long as the janitor goes on.
LEMMA FrameGrows ==
    ASSUME NEW f \in FileOf(Cell), NEW g \in FileOf(Cell), Grows(f, g), NEW r, HasFrame(f, r)
    PROVE  HasFrame(g, r)
<1>1. PICK i \in 1 .. Len(f.data) : FrameAt(f.data, i, r) BY DEF HasFrame
<1>2. /\ Len(f.data) \in Nat /\ Len(g.data) \in Nat /\ Len(f.data) <= Len(g.data)
      /\ 2 * i <= Len(f.data)
    BY <1>1, FileFacts DEF Grows, FrameAt
<1>3. i \in Nat \ {0} /\ i \in 1 .. Len(g.data) /\ 2 * i <= Len(g.data) BY <1>2
<1>4. \A x \in 1 .. 2 * i : g.data[x] = f.data[x] BY <1>2 DEF Grows
<1>5. FrameAt(g.data, i, r) BY <1>1, <1>3, <1>4, FrameStays
<1> QED BY <1>3, <1>5 DEF HasFrame

\* An fsync makes a frame a synced one.
LEMMA FrameSynced ==
    ASSUME NEW f \in FileOf(Cell), f.exists, NEW r, HasFrame(f, r)
    PROVE  HasSyncedFrame(Sync(f), r)
<1>1. PICK i \in 1 .. Len(f.data) : FrameAt(f.data, i, r) BY DEF HasFrame
<1>2. /\ Sync(f).exists = f.exists /\ Sync(f).data = f.data
      /\ Sync(f).synced = Len(f.data)
    BY SyncFacts
<1>3. 2 * i <= Len(f.data) BY <1>1 DEF FrameAt
<1> QED BY <1>1, <1>2, <1>3 DEF HasSyncedFrame

-----------------------------------------------------------------------------
(* What the janitor's steps do to files *)

\* The steps of write_batch_fused on the segments, and those on the name logs.
SegStep == WalWriteSeg \/ OpenSegment \/ WriteFrame \/ SyncSegment \/ SyncSegmentDir

LogStep == OpenName \/ WriteLine \/ SyncName \/ SyncNamesDir

\* One file changes and the others stay.
LEMMA OneFile ==
    ASSUME NEW C, NEW D, NEW files \in [D -> FileOf(C)], NEW x \in D,
           NEW f \in FileOf(C), Grows(files[x], f)
    PROVE  /\ [files EXCEPT ![x] = f] \in [D -> FileOf(C)]
           /\ \A y \in D : Grows(files[y], [files EXCEPT ![x] = f][y])
<1>1. ASSUME NEW y \in D PROVE Grows(files[y], [files EXCEPT ![x] = f][y])
  <2>1. CASE y = x BY <2>1
  <2>2. CASE y # x BY <2>2, FileFacts DEF Grows
  <2> QED BY <2>1, <2>2
<1> QED BY <1>1

\* The rows in hand and in the queue.
LEMMA RowFacts ==
    ASSUME RecTypes
    PROVE  /\ Len(batch) \in Nat /\ Len(queue) \in Nat
           /\ \A i \in 1 .. Len(batch) : batch[i].row \in 1 .. MaxRows /\ batch[i].name \in Names
           /\ \A i \in 1 .. Len(queue) : queue[i].row \in 1 .. MaxRows /\ queue[i].name \in Names
<1>1. batch \in Seq(Items) /\ queue \in Seq(Items) BY DEF RecTypes
<1>2. \A e \in Items : e.row \in 1 .. MaxRows /\ e.name \in Names BY DEF Items
<1> HIDE DEF Items
<1>3. /\ Len(batch) \in Nat /\ Len(queue) \in Nat
      /\ \A i \in 1 .. Len(batch) : batch[i] \in Items
      /\ \A i \in 1 .. Len(queue) : queue[i] \in Items
    BY <1>1
<1> QED BY <1>2, <1>3

\* The files as their types have them.
LEMMA FilesTyped ==
    ASSUME RecTypes
    PROVE  /\ \A s \in Segments : segs[s] \in FileOf(Cell)
           /\ \A n \in Names : logs[n] \in FileOf(1 .. MaxRows)
    BY DEF RecTypes

\* A step on the segments leaves the rest alone and takes nothing away.
LEMMA SegGrow ==
    ASSUME RecTypes, JanitorPlaced, SegStep
    PROVE  /\ segs' \in [Segments -> FileOf(Cell)]
           /\ \A s \in Segments : Grows(segs[s], segs'[s])
<1> USE DEF SegStep
<1>0. segs \in [Segments -> FileOf(Cell)] BY DEF RecTypes
<1>1. CASE WalWriteSeg
  <2>1. PICK s \in Segments : segs' = [segs EXCEPT ![s] = Create(segs[s])]
      BY <1>1 DEF WalWriteSeg
  <2>2. Create(segs[s]) \in FileOf(Cell) /\ Grows(segs[s], Create(segs[s]))
      BY <1>0, CreateFacts
  <2> QED BY <1>0, <2>1, <2>2, OneFile
<1>2. CASE OpenSegment
  <2>1. seq \in Segments /\ segs' = [segs EXCEPT ![seq] = Create(segs[seq])]
      BY <1>2 DEF OpenSegment, RecTypes
  <2>2. Create(segs[seq]) \in FileOf(Cell) /\ Grows(segs[seq], Create(segs[seq]))
      BY <1>0, <2>1, CreateFacts
  <2> QED BY <1>0, <2>1, <2>2, OneFile
<1>3. CASE WriteFrame
  <2> DEFINE cells == Frame(batch[k + 1].row)
  <2>1. seq \in Segments /\ segs' = [segs EXCEPT ![seq] = Write(segs[seq], cells)]
      BY <1>3 DEF WriteFrame, RecTypes
  <2>2. k \in Nat /\ k + 1 \in 1 .. Len(batch) BY <1>3, RowFacts DEF WriteFrame, RecTypes
  <2>3. cells \in Seq(Cell) BY <2>2, RowFacts, FrameFacts
  <2> HIDE DEF cells
  <2>4. Write(segs[seq], cells) \in FileOf(Cell) /\ Grows(segs[seq], Write(segs[seq], cells))
      BY <1>0, <2>1, <2>3, WriteFacts
  <2> QED BY <1>0, <2>1, <2>4, OneFile
<1>4. CASE SyncSegment
  <2>1. seq \in Segments /\ segs' = [segs EXCEPT ![seq] = Sync(segs[seq])]
      BY <1>4 DEF SyncSegment, RecTypes
  <2>2. Sync(segs[seq]) \in FileOf(Cell) /\ Grows(segs[seq], Sync(segs[seq]))
      BY <1>0, <2>1, SyncFacts
  <2> QED BY <1>0, <2>1, <2>2, OneFile
<1>5. CASE SyncSegmentDir
  <2>1. CASE isNew
    <3>1. segs' = SyncDir(segs) BY <1>5, <2>1 DEF SyncSegmentDir
    <3>2. segs' \in [Segments -> FileOf(Cell)] BY <1>0, <3>1, SyncDirFacts
    <3>3. ASSUME NEW s \in Segments
          PROVE  /\ segs'[s].data = segs[s].data /\ segs'[s].synced = segs[s].synced
                 /\ segs'[s].exists = segs[s].exists /\ segs'[s].entry = segs[s].exists
        BY <1>0, <3>1, SyncDirFacts
    <3> QED BY <1>0, <3>2, <3>3, FileFacts DEF Grows
  <2>2. CASE ~isNew
    <3>1. segs' = segs BY <1>5, <2>2 DEF SyncSegmentDir
    <3> QED BY <1>0, <3>1, FileFacts DEF Grows
  <2> QED BY <2>1, <2>2
<1> QED BY <1>1, <1>2, <1>3, <1>4, <1>5

\* So does a step on the name logs.
LEMMA LogGrow ==
    ASSUME RecTypes, JanitorPlaced, LogStep
    PROVE  /\ logs' \in [Names -> FileOf(1 .. MaxRows)]
           /\ \A n \in Names : Grows(logs[n], logs'[n])
<1> USE DEF LogStep
<1> DEFINE C == 1 .. MaxRows
<1>0. logs \in [Names -> FileOf(C)] BY DEF RecTypes
<1> HIDE DEF C
<1>1. CASE OpenName
  <2>1. PICK i \in 1 .. Len(batch) : logs' = [logs EXCEPT ![batch[i].name] = Create(logs[batch[i].name])]
      BY <1>1 DEF OpenName
  <2>2. PICK n \in Names : n = batch[i].name BY RowFacts
  <2>3. Create(logs[n]) \in FileOf(C) /\ Grows(logs[n], Create(logs[n])) BY <1>0, CreateFacts
  <2> QED BY <1>0, <2>1, <2>2, <2>3, OneFile DEF C
<1>2. CASE WriteLine
  <2>1. PICK i \in 1 .. Len(batch) :
            logs' = [logs EXCEPT ![batch[named].name] = Write(logs[batch[named].name], <<batch[i].row>>)]
      BY <1>2 DEF WriteLine
  <2>2. named \in 1 .. Len(batch) BY <1>2 DEF WriteLine, JanitorPlaced
  <2>3. PICK n \in Names : n = batch[named].name BY <2>2, RowFacts
  <2>4. <<batch[i].row>> \in Seq(C) BY RowFacts DEF C
  <2>5. /\ Write(logs[n], <<batch[i].row>>) \in FileOf(C)
        /\ Grows(logs[n], Write(logs[n], <<batch[i].row>>))
      BY <1>0, <2>4, WriteFacts
  <2> QED BY <1>0, <2>1, <2>3, <2>5, OneFile DEF C
<1>3. CASE SyncName
  <2>1. logs' = [logs EXCEPT ![batch[named].name] = Sync(logs[batch[named].name])]
      BY <1>3 DEF SyncName
  <2>2. named \in 1 .. Len(batch) BY <1>3 DEF SyncName, JanitorPlaced
  <2>3. PICK n \in Names : n = batch[named].name BY <2>2, RowFacts
  <2>4. Sync(logs[n]) \in FileOf(C) /\ Grows(logs[n], Sync(logs[n])) BY <1>0, SyncFacts
  <2> QED BY <1>0, <2>1, <2>3, <2>4, OneFile DEF C
<1>4. CASE SyncNamesDir
  <2>1. CASE anyNew
    <3>1. logs' = SyncDir(logs) BY <1>4, <2>1 DEF SyncNamesDir
    <3>2. logs' \in [Names -> FileOf(C)] BY <1>0, <3>1, SyncDirFacts
    <3>3. ASSUME NEW n \in Names
          PROVE  /\ logs'[n].data = logs[n].data /\ logs'[n].synced = logs[n].synced
                 /\ logs'[n].exists = logs[n].exists /\ logs'[n].entry = logs[n].exists
        BY <1>0, <3>1, SyncDirFacts
    <3> QED BY <1>0, <3>2, <3>3, FileFacts DEF Grows, C
  <2>2. CASE ~anyNew
    <3>1. logs' = logs BY <1>4, <2>2 DEF SyncNamesDir
    <3> QED BY <1>0, <3>1, FileFacts DEF Grows, C
  <2> QED BY <2>1, <2>2
<1> QED BY <1>1, <1>2, <1>3, <1>4

\* What a crash leaves, by the harm done so far.
LEMMA CrashFacts ==
    ASSUME RecTypes, Crash
    PROVE  /\ segs' \in [Segments -> FileOf(Cell)] /\ logs' \in [Names -> FileOf(1 .. MaxRows)]
           /\ harm \subseteq harm' /\ harm' \subseteq Harms
           /\ "wal" \notin harm' => \A s \in Segments : Spares(segs[s], segs'[s])
           /\ harm' \subseteq {"names"} => \A s \in Segments :
                /\ Spares(segs[s], segs'[s])
                /\ CutBy(segs[s], segs'[s], 2)
           /\ "names" \notin harm' => \A n \in Names : Spares(logs[n], logs'[n])
           /\ \A n \in Names : Spares(logs[n], logs'[n]) \/ (~logs[n].entry /\ logs'[n] = NoFile)
<1> DEFINE L == 1 .. MaxRows
<1>0. segs \in [Segments -> FileOf(Cell)] /\ logs \in [Names -> FileOf(L)] /\ harm \subseteq Harms
    BY DEF RecTypes
<1> HIDE DEF L
<1>1. PICK h \in SUBSET Harms :
        /\ segs' \in Remains(segs, IF "tear" \in h THEN 1 ELSE 2, "wal" \in h)
        /\ logs' \in Remains(logs, 1, "names" \in h)
        /\ harm' = harm \union h
    BY DEF Crash
<1>2. PICK unit \in {1, 2} : unit = IF "tear" \in h THEN 1 ELSE 2 OBVIOUS
<1>3. PICK lossy \in BOOLEAN : lossy <=> "wal" \in h OBVIOUS
<1>4. PICK gone \in BOOLEAN : gone <=> "names" \in h OBVIOUS
<1>5. segs' \in Remains(segs, unit, lossy) /\ logs' \in Remains(logs, 1, gone)
    BY <1>1, <1>2, <1>3, <1>4
<1>6. /\ segs' \in [Segments -> FileOf(Cell)]
      /\ \A s \in Segments : \/ /\ Spares(segs[s], segs'[s])
                                /\ CutBy(segs[s], segs'[s], unit)
                             \/ lossy /\ ~segs[s].entry /\ segs'[s] = NoFile
  <2>1. \A g \in Remains(segs, unit, lossy) :
            /\ g \in [Segments -> FileOf(Cell)]
            /\ \A s \in Segments : \/ /\ Spares(segs[s], g[s])
                                      /\ CutBy(segs[s], g[s], unit)
                                   \/ lossy /\ ~segs[s].entry /\ g[s] = NoFile
      BY <1>0, RemainsFacts
  <2> QED BY <1>5, <2>1
<1>7. /\ logs' \in [Names -> FileOf(L)]
      /\ \A n \in Names : \/ Spares(logs[n], logs'[n])
                          \/ gone /\ ~logs[n].entry /\ logs'[n] = NoFile
  <2>1. \A g \in Remains(logs, 1, gone) :
            /\ g \in [Names -> FileOf(L)]
            /\ \A n \in Names : \/ /\ Spares(logs[n], g[n])
                                   /\ CutBy(logs[n], g[n], 1)
                                \/ gone /\ ~logs[n].entry /\ g[n] = NoFile
      BY <1>0, RemainsFacts
  <2> QED BY <1>5, <2>1
<1>8. harm \subseteq harm' /\ harm' \subseteq Harms /\ h \subseteq harm' BY <1>0, <1>1
<1>9. "wal" \notin harm' => ~lossy BY <1>3, <1>8
<1>10. "names" \notin harm' => ~gone BY <1>4, <1>8
<1>11. harm' \subseteq {"names"} => ~lossy /\ unit = 2 BY <1>2, <1>3, <1>8
<1> QED BY <1>6, <1>7, <1>8, <1>9, <1>10, <1>11 DEF L

-----------------------------------------------------------------------------
(* Types and positions *)

\* The steps that leave the files alone, and what they leave with them.
QuietStep == (\E n \in Names : Submit(n)) \/ Drain \/ Signal \/ FlushDone

\* Every step is of one of the four kinds.
LEMMA StepKinds ==
    ASSUME Next
    PROVE  QuietStep \/ SegStep \/ LogStep \/ Crash
    BY DEF Next, Janitor, QuietStep, SegStep, LogStep

\* What the steps on files leave alone.
LEMMA FrameOfSteps ==
    /\ QuietStep => UNCHANGED <<segs, logs, seq, isNew, harm, crashes>>
    /\ SegStep => UNCHANGED <<logs, rows, queue, batch, named, anyNew, acked, old, harm, crashes>>
    /\ LogStep => UNCHANGED <<segs, rows, queue, batch, seq, isNew, acked, old, harm, crashes>>
    /\ Crash => UNCHANGED <<rows, acked, old>> /\ queue' = << >> /\ batch' = << >>
                /\ pc' = "idle" /\ seq' = 0 /\ k' = 0 /\ named' = 0 /\ crashes' = crashes + 1
    BY DEF QuietStep, SegStep, LogStep, Submit, Drain, Signal, FlushDone, WalWriteSeg, OpenSegment,
           WriteFrame, SyncSegment, SyncSegmentDir, OpenName, WriteLine, SyncName, SyncNamesDir,
           Crash, dvars, jvars, avars

\* The rows a drain takes come first, the others stay.
LEMMA DrainFacts ==
    ASSUME RecTypes, Drain
    PROVE  \E m \in 1 .. Len(queue) :
            /\ m <= BatchCap
            /\ batch' \in Seq(Items) /\ Len(batch') = m
            /\ queue' \in Seq(Items) /\ Len(queue') = Len(queue) - m
            /\ \A i \in 1 .. m : batch'[i] = queue[i]
            /\ \A i \in 1 .. Len(queue) - m : queue'[i] = queue[m + i]
<1>1. PICK m \in 1 .. Len(queue) :
        m <= BatchCap /\ batch' = SubSeq(queue, 1, m) /\ queue' = SubSeq(queue, m + 1, Len(queue))
    BY DEF Drain
<1>2. queue \in Seq(Items) /\ Len(queue) \in Nat BY DEF RecTypes
<1> HIDE DEF Items
<1>3. /\ batch' \in Seq(Items) /\ Len(batch') = m
      /\ \A i \in 1 .. m : batch'[i] = queue[i]
    BY <1>1, <1>2
<1>4. queue' \in Seq(Items) /\ Len(queue') = Len(queue) - m
    BY <1>1, <1>2
<1>5. ASSUME NEW i \in 1 .. Len(queue) - m PROVE queue'[i] = queue[m + i]
  <2>1. m + 1 + i - 1 = m + i /\ i \in 1 .. (Len(queue) - (m + 1) + 1) BY <1>2
  <2> QED BY <1>1, <1>2, <2>1
<1> QED BY <1>1, <1>3, <1>4, <1>5

\* The batch without its first row.
LEMMA SignalFacts ==
    ASSUME RecTypes, Signal
    PROVE  /\ Len(batch) > 0 /\ batch' \in Seq(Items) /\ Len(batch') = Len(batch) - 1
           /\ \A i \in 1 .. Len(batch') : batch'[i] = batch[i + 1]
           /\ acked' = acked \union {batch[1].row}
<1>1. batch \in Seq(Items) /\ batch # << >> /\ batch' = Tail(batch) BY DEF RecTypes, Signal
<1> HIDE DEF Items
<1>2. Len(batch) > 0 /\ batch' \in Seq(Items) /\ Len(batch') = Len(batch) - 1
    BY <1>1
<1>3. \A i \in 1 .. Len(batch') : batch'[i] = batch[i + 1] BY <1>1, <1>2
<1>4. Head(batch) = batch[1] BY <1>1
<1> QED BY <1>2, <1>3, <1>4 DEF Signal

\* The types hold along every step.
LEMMA TypeStep ==
    ASSUME RecInv, Next
    PROVE  RecTypes'
<1> USE DEF RecInv
<1>0. MaxRows \in Nat /\ BatchCap \in Nat /\ MaxCrashes \in Nat BY ReclogAssumption
<1>1. CASE \E n \in Names : Submit(n)
  <2>1. PICK n \in Names : Submit(n) BY <1>1
  <2>2. [row |-> rows + 1, name |-> n] \in Items /\ rows + 1 \in 0 .. MaxRows
      BY <2>1, <1>0 DEF Submit, Items, RecTypes
  <2>3. queue \in Seq(Items) BY DEF RecTypes
  <2> HIDE DEF Items
  <2>4. queue' \in Seq(Items) BY <2>1, <2>2, <2>3 DEF Submit
  <2>5. acked \subseteq 1 .. rows' BY <2>1 DEF Submit, RecTypes
  <2> QED BY <2>1, <2>2, <2>4, <2>5 DEF Submit, RecTypes, dvars, jvars, avars
<1>2. CASE Drain
  <2>1. batch' \in Seq(Items) /\ queue' \in Seq(Items) BY <1>2, DrainFacts
  <2>2. /\ UNCHANGED <<segs, logs, rows, seq, isNew, acked, old, harm, crashes>>
        /\ pc' = "segment" /\ k' = 0 /\ named' = 0 /\ anyNew' = FALSE
      BY <1>2 DEF Drain, dvars, avars
  <2>3. 0 \in 0 .. BatchCap BY <1>0
  <2> HIDE DEF Items
  <2> QED BY <2>1, <2>2, <2>3 DEF RecTypes
<1>3. CASE Signal
  <2>1. batch' \in Seq(Items) /\ Len(batch) > 0 /\ acked' = acked \union {batch[1].row}
      BY <1>3, SignalFacts
  <2>2. batch[1].row \in 1 .. rows
    <3>1. 1 \in 1 .. Len(batch) BY <2>1, RowFacts
    <3> QED BY <3>1, RowFacts DEF RowsInOrder, RecTypes
  <2>3. acked' \subseteq 1 .. rows /\ old' \subseteq acked' BY <1>3, <2>1, <2>2 DEF Signal, RecTypes
  <2> QED BY <1>3, <2>1, <2>3 DEF Signal, RecTypes, dvars, jvars
<1>4. CASE FlushDone
  <2> QED BY <1>4 DEF FlushDone, RecTypes, dvars, avars
<1>5. CASE SegStep
  <2>1. segs' \in [Segments -> FileOf(Cell)] BY <1>5, SegGrow
  <2>2. UNCHANGED <<logs, rows, queue, batch, named, anyNew, acked, old, harm, crashes>>
      BY <1>5, FrameOfSteps
  <2>3. /\ pc' \in {"idle", "segment", "open", "frames", "segdir", "names", "lines", "signal"}
        /\ seq' \in Segments /\ isNew' \in BOOLEAN
    <3>1. \A s \in Segments : segs[s].exists \in BOOLEAN BY FilesTyped, FileFacts
    <3> QED BY <1>5, <3>1 DEF SegStep, WalWriteSeg, OpenSegment, WriteFrame, SyncSegment,
                              SyncSegmentDir, RecTypes
  <2>4. k' \in 0 .. BatchCap
    <3>1. k \in Nat /\ Len(batch) \in Nat /\ Len(batch) <= BatchCap
        BY RowFacts DEF RecTypes, JanitorPlaced
    <3> QED BY <1>0, <1>5, <3>1 DEF SegStep, WalWriteSeg, OpenSegment, WriteFrame, SyncSegment,
                                    SyncSegmentDir, RecTypes
  <2> QED BY <2>1, <2>2, <2>3, <2>4 DEF RecTypes
<1>6. CASE LogStep
  <2>1. logs' \in [Names -> FileOf(1 .. MaxRows)] BY <1>6, LogGrow
  <2>2. UNCHANGED <<segs, rows, queue, batch, seq, isNew, acked, old, harm, crashes>>
      BY <1>6, FrameOfSteps
  <2>3. pc' \in {"idle", "segment", "open", "frames", "segdir", "names", "lines", "signal"}
      BY <1>6 DEF LogStep, OpenName, WriteLine, SyncName, SyncNamesDir, RecTypes
  <2>4. anyNew' \in BOOLEAN
      BY <1>6 DEF LogStep, OpenName, WriteLine, SyncName, SyncNamesDir, RecTypes
  <2>5. k' \in 0 .. BatchCap /\ named' \in 0 .. BatchCap
    <3>1. Len(batch) \in Nat /\ Len(batch) <= BatchCap BY RowFacts DEF JanitorPlaced
    <3>2. \A i \in 1 .. Len(batch) : i \in 0 .. BatchCap BY <1>0, <3>1
    <3>3. 0 \in 0 .. BatchCap BY <1>0
    <3>4. CASE OpenName BY <3>2, <3>3, <3>4 DEF OpenName
    <3>5. CASE WriteLine BY <3>2, <3>5 DEF WriteLine, RecTypes
    <3>6. CASE SyncName \/ SyncNamesDir BY <3>6 DEF SyncName, SyncNamesDir, RecTypes
    <3> QED BY <1>6, <3>4, <3>5, <3>6 DEF LogStep
  <2> QED BY <2>1, <2>2, <2>3, <2>4, <2>5 DEF RecTypes
<1>7. CASE Crash
  <2>1. /\ segs' \in [Segments -> FileOf(Cell)] /\ logs' \in [Names -> FileOf(1 .. MaxRows)]
        /\ harm' \subseteq Harms
      BY <1>7, CrashFacts
  <2>2. << >> \in Seq(Items) OBVIOUS
  <2>3. 0 \in Segments BY <1>0 DEF Segments
  <2>4. /\ rows' = rows /\ acked' = acked /\ old' = old /\ crashes' \in 0 .. MaxCrashes
        /\ queue' = << >> /\ batch' = << >> /\ pc' = "idle" /\ seq' = 0 /\ isNew' = FALSE
        /\ k' = 0 /\ named' = 0 /\ anyNew' = FALSE
      BY <1>0, <1>7 DEF Crash, RecTypes
  <2>5. 0 \in 0 .. BatchCap BY <1>0
  <2> HIDE DEF Items
  <2> QED BY <2>1, <2>2, <2>3, <2>4, <2>5 DEF RecTypes
<1> QED BY <1>1, <1>2, <1>3, <1>4, <1>5, <1>6, <1>7, StepKinds DEF QuietStep

\* So do the positions.
LEMMA PlacedStep ==
    ASSUME RecInv, Next
    PROVE  JanitorPlaced'
<1> USE DEF RecInv
<1>0. RecTypes' BY TypeStep
<1>1. CASE \E n \in Names : Submit(n)
  <2> QED BY <1>1 DEF Submit, JanitorPlaced, dvars, jvars
<1>2. CASE Drain
  <2>1. Len(batch') <= BatchCap /\ Len(batch') \in Nat BY <1>2, DrainFacts
  <2> QED BY <1>2, <2>1 DEF Drain, JanitorPlaced
<1>3. CASE Signal
  <2>1. Len(batch') <= BatchCap
    <3>1. Len(batch') = Len(batch) - 1 /\ Len(batch) \in Nat /\ BatchCap \in Nat
        BY <1>3, SignalFacts, RowFacts, ReclogAssumption
    <3> QED BY <3>1 DEF JanitorPlaced
  <2> QED BY <1>3, <2>1 DEF Signal, JanitorPlaced, jvars
<1>4. CASE FlushDone
  <2> QED BY <1>4 DEF FlushDone, JanitorPlaced
<1>5. CASE SegStep
  <2>1. UNCHANGED <<batch, named>> /\ Len(batch) <= BatchCap /\ Len(batch) \in Nat /\ k \in Nat
      BY <1>5, FrameOfSteps, RowFacts DEF JanitorPlaced, RecTypes
  <2>2. CASE WalWriteSeg
    <3>1. PICK s \in Segments : seq' = s /\ segs' = [segs EXCEPT ![s] = Create(segs[s])]
        BY <2>2 DEF WalWriteSeg
    <3>2. segs'[s] = Create(segs[s]) BY <3>1 DEF RecTypes
    <3>3. segs'[seq'].exists BY <3>1, <3>2, FilesTyped, CreateFacts
    <3> QED BY <2>1, <2>2, <3>3 DEF WalWriteSeg, JanitorPlaced
  <2>3. CASE OpenSegment
    <3>1. segs'[seq].exists /\ seq' = seq
      <4>1. Grows(segs[seq], segs'[seq]) /\ seq \in Segments BY <1>5, SegGrow DEF RecTypes
      <4> QED BY <2>3, <4>1 DEF Grows, JanitorPlaced, OpenSegment
    <3> QED BY <2>1, <2>3, <3>1 DEF OpenSegment, JanitorPlaced
  <2>4. CASE WriteFrame
    <3>1. segs'[seq].exists /\ seq' = seq
      <4>1. Grows(segs[seq], segs'[seq]) /\ seq \in Segments BY <1>5, SegGrow DEF RecTypes
      <4> QED BY <2>4, <4>1 DEF Grows, JanitorPlaced, WriteFrame
    <3> QED BY <2>1, <2>4, <3>1 DEF WriteFrame, JanitorPlaced
  <2>5. CASE SyncSegment \/ SyncSegmentDir
    <3> QED BY <2>1, <2>5 DEF SyncSegment, SyncSegmentDir, JanitorPlaced
  <2> QED BY <1>5, <2>2, <2>3, <2>4, <2>5 DEF SegStep
<1>6. CASE LogStep
  <2>1. UNCHANGED <<segs, batch, seq>> /\ Len(batch) <= BatchCap /\ Len(batch) \in Nat
      BY <1>6, FrameOfSteps, RowFacts DEF JanitorPlaced
  <2>2. CASE OpenName BY <2>1, <2>2 DEF OpenName, JanitorPlaced
  <2>3. CASE WriteLine BY <2>1, <2>3 DEF WriteLine, JanitorPlaced
  <2>4. CASE SyncName \/ SyncNamesDir
    <3>1. named \in 1 .. Len(batch) => named <= Len(batch) BY <2>1
    <3> QED BY <2>1, <2>4, <3>1 DEF SyncName, SyncNamesDir, JanitorPlaced
  <2> QED BY <1>6, <2>2, <2>3, <2>4 DEF LogStep
<1>7. CASE Crash
  <2>1. Len(<< >>) <= BatchCap BY ReclogAssumption
  <2> QED BY <1>7, <2>1, FrameOfSteps DEF JanitorPlaced
<1> QED BY <1>1, <1>2, <1>3, <1>4, <1>5, <1>6, <1>7, StepKinds DEF QuietStep

-----------------------------------------------------------------------------
(* The loop over the names *)

\* Every nonempty set of numbers has a least one: the intervals up to its
\* members are finite sets, which inclusion orders well.
LEMMA LeastNat ==
    ASSUME NEW T \in SUBSET Nat, T # {}
    PROVE  \E x \in T : \A y \in T : x <= y
<1> DEFINE F == {1 .. n : n \in T}
           R == StrictSubsetOrdering(Nat)
           U == FiniteSubsetsOf(Nat)
<1>1. IsWellFoundedOn(R, U) BY FS_StrictSubsetOrderingWellFounded
<1>2. F \subseteq U /\ F # {}
  <2>1. \A n \in T : IsFiniteSet(1 .. n) /\ 1 .. n \subseteq Nat BY FS_Interval
  <2> QED BY <2>1 DEF FiniteSubsetsOf
<1>3. PICK s \in F : \A t \in F : ~ (<<t, s>> \in R)
  <2> HIDE DEF R, U, F
  <2> QED BY <1>1, <1>2, WFMin
<1>4. PICK x \in T : s = 1 .. x OBVIOUS
<1>5. ASSUME NEW y \in T PROVE x <= y
  <2>1. <<1 .. y, 1 .. x>> \notin R BY <1>3, <1>4
  <2>2. ASSUME y < x PROVE FALSE
    <3>1. 1 .. y \subseteq 1 .. x /\ x \in 1 .. x /\ x \notin 1 .. y BY <2>2
    <3>2. 1 .. y # 1 .. x BY <3>1
    <3>3. 1 .. y \in SUBSET Nat /\ 1 .. x \in SUBSET Nat OBVIOUS
    <3> QED BY <2>1, <3>1, <3>2, <3>3 DEF StrictSubsetOrdering
  <2> QED BY <2>2
<1> QED BY <1>5

\* The name of every row has a first row in the batch.
LEMMA FirstOfName ==
    ASSUME RecTypes, NEW i \in 1 .. Len(batch)
    PROVE  \E f \in Firsts : f <= i /\ batch[f].name = batch[i].name
<1> DEFINE T == {x \in 1 .. Len(batch) : batch[x].name = batch[i].name}
<1>1. T \in SUBSET Nat /\ i \in T BY RowFacts
<1>2. PICK f \in T : \A y \in T : f <= y
  <2> HIDE DEF T
  <2> QED BY <1>1, LeastNat
<1>3. f \in 1 .. Len(batch) /\ batch[f].name = batch[i].name /\ f <= i BY <1>1, <1>2
<1>4. ASSUME NEW j \in 1 .. (f - 1) PROVE batch[j].name # batch[f].name
  <2>1. j \in 1 .. Len(batch) /\ j < f BY <1>3, RowFacts
  <2>2. j \notin T BY <2>1, <1>2
  <2> QED BY <2>1, <2>2, <1>3
<1> QED BY <1>3, <1>4 DEF Firsts

\* The loop comes to one more name.
LEMMA NamedOpens ==
    ASSUME RecTypes, JanitorPlaced, OpenName, NEW i \in 1 .. Len(batch)
    PROVE  /\ Named(i)' <=> Named(i) \/ batch[i].name = batch[named'].name
           /\ Named(i) => batch[i].name # batch[named'].name
<1>1. PICK f \in 1 .. Len(batch) : Turn(Firsts, named, f) /\ named' = f BY DEF OpenName
<1>2. /\ batch' = batch /\ named \in Nat /\ named <= Len(batch) /\ Len(batch) \in Nat
      /\ f \in Firsts /\ f > named /\ \A x \in Firsts : x > named => f <= x
    BY <1>1, RowFacts DEF OpenName, JanitorPlaced, RecTypes, Turn
<1>3. ASSUME Named(i) PROVE Named(i)' /\ batch[i].name # batch[f].name
  <2>1. PICK j \in 1 .. named : batch[j].name = batch[i].name BY <1>3 DEF Named
  <2>2. j \in 1 .. f /\ j \in 1 .. (f - 1) BY <1>2
  <2> QED BY <1>1, <1>2, <2>1, <2>2 DEF Named, Firsts
<1>4. ASSUME batch[i].name = batch[f].name PROVE Named(i)'
  <2>1. f \in 1 .. f BY <1>2
  <2> QED BY <1>1, <1>2, <1>4, <2>1 DEF Named
<1>5. ASSUME Named(i)', batch[i].name # batch[f].name PROVE Named(i)
  <2>1. PICK j \in 1 .. f : batch[j].name = batch[i].name BY <1>1, <1>2, <1>5 DEF Named
  <2>2. j \in 1 .. Len(batch) /\ j # f BY <1>2, <1>5, <2>1
  <2>3. PICK g \in Firsts : g <= j /\ batch[g].name = batch[j].name BY <2>2, FirstOfName
  <2>4. g \in 1 .. Len(batch) BY DEF Firsts
  <2>5. g <= named BY <1>2, <2>2, <2>3, <2>4
  <2>6. g \in 1 .. named BY <1>2, <2>4, <2>5
  <2> QED BY <2>1, <2>3, <2>6 DEF Named
<1> QED BY <1>1, <1>3, <1>4, <1>5

\* At its end the loop has come to every name.
LEMMA AllNamed ==
    ASSUME RecTypes, JanitorPlaced, SyncNamesDir, NEW i \in 1 .. Len(batch)
    PROVE  Named(i)
<1>1. PICK f \in Firsts : f <= i /\ batch[f].name = batch[i].name BY FirstOfName
<1>2. f \in 1 .. Len(batch) /\ f <= named /\ named \in Nat /\ Len(batch) \in Nat
    BY RowFacts DEF SyncNamesDir, Firsts, RecTypes
<1>3. f \in 1 .. named BY <1>2
<1> QED BY <1>1, <1>3 DEF Named

\* What is written and what is synced of the batch after a step on the logs.
LEMMA LinesMove ==
    ASSUME RecTypes, JanitorPlaced, LogStep, NEW i \in 1 .. Len(batch)
    PROVE  /\ Written(i) => Written(i)'
           /\ LineSynced(i) => LineSynced(i)'
           /\ Written(i)' => Written(i) \/ (WriteLine /\ i = k')
           /\ LineSynced(i)' => LineSynced(i) \/ (SyncName /\ Written(i) /\ i \in Lines)
<1>0. batch' = batch /\ Len(batch) \in Nat /\ k \in Nat /\ named \in Nat
    BY FrameOfSteps, RowFacts DEF RecTypes
<1>1. CASE OpenName
  <2>1. /\ pc = "names" /\ pc' = "lines" /\ k' = 0
        /\ Named(i)' <=> Named(i) \/ batch[i].name = batch[named'].name
        /\ Named(i) => batch[i].name # batch[named'].name
      BY <1>1, NamedOpens DEF OpenName
  <2>2. (i \in Lines)' <=> batch[i].name = batch[named'].name BY <1>0 DEF Lines
  <2> QED BY <2>1, <2>2 DEF Written, LineSynced
<1>2. CASE WriteLine
  <2>1. PICK j \in 1 .. Len(batch) : Turn(Lines, k, j) /\ k' = j BY <1>2 DEF WriteLine
  <2>2. /\ pc = "lines" /\ pc' = "lines" /\ named' = named
        /\ j \in Lines /\ j > k /\ \A x \in Lines : x > k => j <= x
      BY <1>2, <2>1 DEF WriteLine, Turn
  <2>3. (Named(i)' <=> Named(i)) /\ ((i \in Lines)' <=> i \in Lines) BY <1>0, <2>2 DEF Named, Lines
  <2>4. i \in Lines => (i <= j <=> i <= k \/ i = j) BY <1>0, <2>1, <2>2
  <2> QED BY <1>2, <2>1, <2>2, <2>3, <2>4 DEF Written, LineSynced
<1>3. CASE SyncName
  <2>1. pc = "lines" /\ pc' = "names" /\ named' = named /\ \A x \in Lines : x <= k
      BY <1>3 DEF SyncName
  <2>2. Named(i)' <=> Named(i) BY <1>0, <2>1 DEF Named
  <2>3. i \in Lines => Named(i)
    <3>1. named \in 1 .. named BY <2>1, <1>0 DEF JanitorPlaced
    <3> QED BY <3>1 DEF Lines, Named
  <2> QED BY <1>3, <2>1, <2>2, <2>3 DEF Written, LineSynced
<1>4. CASE SyncNamesDir
  <2>1. pc = "names" /\ pc' = "signal" BY <1>4 DEF SyncNamesDir
  <2>2. Named(i) BY <1>4, AllNamed
  <2> QED BY <2>1, <2>2 DEF Written, LineSynced
<1> QED BY <1>1, <1>2, <1>3, <1>4 DEF LogStep

-----------------------------------------------------------------------------
(* The order of the rows *)

\* A line added to a log.
LEMMA LineAdded ==
    ASSUME RecTypes, JanitorPlaced, WriteLine
    PROVE  LET n == batch[named].name
           IN  /\ n \in Names /\ k' \in Lines /\ k' > k /\ \A x \in Lines : x > k => k' <= x
               /\ logs' = [logs EXCEPT ![n] = Write(logs[n], <<batch[k'].row>>)]
               /\ Len(logs'[n].data) = Len(logs[n].data) + 1
               /\ \A x \in 1 .. Len(logs[n].data) : logs'[n].data[x] = logs[n].data[x]
               /\ logs'[n].data[Len(logs[n].data) + 1] = batch[k'].row
               /\ \A q \in Names \ {n} : logs'[q] = logs[q]
<1> DEFINE n == batch[named].name
<1>1. PICK j \in 1 .. Len(batch) :
        /\ Turn(Lines, k, j) /\ k' = j
        /\ logs' = [logs EXCEPT ![n] = Write(logs[n], <<batch[j].row>>)]
    BY DEF WriteLine
<1>2. n \in Names /\ batch[j].row \in 1 .. MaxRows BY RowFacts DEF WriteLine, JanitorPlaced
<1>3. logs[n] \in FileOf(1 .. MaxRows) /\ logs \in [Names -> FileOf(1 .. MaxRows)]
    BY <1>2 DEF RecTypes
<1>4. logs[n].data \in Seq(1 .. MaxRows) /\ <<batch[j].row>> \in Seq(1 .. MaxRows)
    BY <1>2, <1>3, FileFacts
<1>5. logs'[n].data = logs[n].data \o <<batch[j].row>>
    BY <1>1, <1>2, <1>3, <1>4, WriteFacts
<1>6. /\ Len(logs'[n].data) = Len(logs[n].data) + 1
      /\ \A x \in 1 .. Len(logs[n].data) : logs'[n].data[x] = logs[n].data[x]
      /\ logs'[n].data[Len(logs[n].data) + 1] = batch[j].row
  <2>1. PICK d \in Seq(1 .. MaxRows) : d = logs[n].data BY <1>4
  <2>2. PICK r \in 1 .. MaxRows : r = batch[j].row BY <1>2
  <2>3. logs'[n].data = Append(d, r)
    <3>1. d \o <<r>> = Append(d, r) BY AppendIsConcat
    <3> QED BY <1>5, <2>1, <2>2, <3>1
  <2>4. /\ Len(Append(d, r)) = Len(d) + 1
        /\ \A x \in 1 .. Len(d) : Append(d, r)[x] = d[x]
        /\ Append(d, r)[Len(d) + 1] = r
      BY AppendProperties
  <2> QED BY <2>1, <2>2, <2>3, <2>4
<1>7. \A q \in Names \ {n} : logs'[q] = logs[q] BY <1>1, <1>3
<1>8. j \in Lines /\ j > k /\ \A x \in Lines : x > k => j <= x BY <1>1 DEF Turn
<1> HIDE DEF n
<1> QED BY <1>1, <1>2, <1>6, <1>7, <1>8 DEF n

\* Where the data of the logs stay, so does their order.
LEMMA SameLines ==
    ASSUME RecTypes, JanitorPlaced, LogStep, ~WriteLine, NEW n \in Names
    PROVE  logs'[n].data = logs[n].data
<1>0. logs \in [Names -> FileOf(1 .. MaxRows)] BY DEF RecTypes
<1>1. CASE OpenName
  <2>1. PICK i \in 1 .. Len(batch) : logs' = [logs EXCEPT ![batch[i].name] = Create(logs[batch[i].name])]
      BY <1>1 DEF OpenName
  <2>2. CASE n = batch[i].name BY <1>0, <2>1, <2>2, CreateFacts
  <2>3. CASE n # batch[i].name BY <1>0, <2>1, <2>3
  <2> QED BY <2>2, <2>3
<1>2. CASE SyncName
  <2>1. logs' = [logs EXCEPT ![batch[named].name] = Sync(logs[batch[named].name])]
      BY <1>2 DEF SyncName
  <2>2. CASE n = batch[named].name BY <1>0, <2>1, <2>2, SyncFacts
  <2>3. CASE n # batch[named].name BY <1>0, <2>1, <2>3
  <2> QED BY <2>2, <2>3
<1>3. CASE SyncNamesDir
  <2>1. CASE anyNew
    <3>1. logs' = SyncDir(logs) BY <1>3, <2>1 DEF SyncNamesDir
    <3> QED BY <1>0, <3>1, SyncDirFacts
  <2>2. CASE ~anyNew
    <3> QED BY <1>3, <2>2 DEF SyncNamesDir
  <2> QED BY <2>1, <2>2
<1> QED BY <1>1, <1>2, <1>3 DEF LogStep

\* Rows keep their order from the submission to the log.
LEMMA OrderStep ==
    ASSUME RecInv, Next
    PROVE  RowsInOrder'
<1> USE DEF RecInv
<1> DEFINE Behind(n, x) ==
        /\ logs[n].data[x] <= rows
        /\ \A j \in 1 .. Len(queue) : logs[n].data[x] < queue[j].row
        /\ \A i \in 1 .. Len(batch) :
             batch[i].name = n => Written(i) \/ logs[n].data[x] < batch[i].row
<1>0. /\ \A n \in Names : \A x \in 1 .. Len(logs[n].data) : Behind(n, x)
      /\ Len(queue) \in Nat /\ Len(batch) \in Nat /\ rows \in Nat
    BY RowFacts DEF RowsInOrder, RecTypes
<1>1. ASSUME NEW n \in Names, Submit(n) PROVE RowsInOrder'
  <2>1. /\ UNCHANGED <<logs, batch, pc, k, named>> /\ rows' = rows + 1
        /\ queue' = Append(queue, [row |-> rows + 1, name |-> n])
      BY <1>1 DEF Submit, dvars, jvars
  <2>2. queue \in Seq(Items) BY DEF RecTypes
  <2>3. /\ Len(queue') = Len(queue) + 1 /\ queue'[Len(queue) + 1].row = rows + 1
        /\ \A i \in 1 .. Len(queue) : queue'[i] = queue[i]
    <3> HIDE DEF Items
    <3> QED BY <2>1, <2>2
  <2>4. \A i \in 1 .. Len(queue') : i \in 1 .. Len(queue) \/ i = Len(queue) + 1
      BY <1>0, <2>3
  <2>5. \A i \in 1 .. Len(batch) : Written(i)' <=> Written(i)
      BY <2>1 DEF Written, Named, Lines
  <2>6. /\ \A i, j \in 1 .. Len(queue') : i < j => queue'[i].row < queue'[j].row
        /\ \A i \in 1 .. Len(queue') : queue'[i].row <= rows'
    <3>1. \A i \in 1 .. Len(queue) : queue[i].row <= rows /\ queue[i].row \in Nat
        BY RowFacts DEF RowsInOrder
    <3>2. \A i, j \in 1 .. Len(queue) : i < j => queue[i].row < queue[j].row BY DEF RowsInOrder
    <3> QED BY <1>0, <2>1, <2>3, <2>4, <3>1, <3>2
  <2>7. \A i \in 1 .. Len(batch') : /\ batch'[i].row <= rows'
                                    /\ \A j \in 1 .. Len(queue') : batch'[i].row < queue'[j].row
    <3>1. \A i \in 1 .. Len(batch) : batch[i].row <= rows /\ batch[i].row \in Nat
        BY RowFacts DEF RowsInOrder
    <3> QED BY <1>0, <2>1, <2>3, <2>4, <3>1 DEF RowsInOrder
  <2>8. ASSUME NEW q \in Names, NEW x \in 1 .. Len(logs'[q].data) PROVE Behind(q, x)'
    <3>1. Behind(q, x) /\ logs'[q].data[x] = logs[q].data[x] /\ logs[q].data[x] \in Nat
      <4>1. x \in 1 .. Len(logs[q].data) /\ logs'[q].data[x] = logs[q].data[x] BY <2>1
      <4>2. logs[q].data[x] \in 1 .. MaxRows BY <4>1, FilesTyped, FileFacts
      <4>3. Behind(q, x) BY <1>0, <4>1
      <4> HIDE DEF Behind
      <4> QED BY <4>1, <4>2, <4>3
    <3> QED BY <1>0, <2>1, <2>3, <2>4, <2>5, <3>1, SMTT(30)
  <2>9. \A i, j \in 1 .. Len(batch') : i < j => batch'[i].row < batch'[j].row
      BY <2>1 DEF RowsInOrder
  <2> QED BY <2>6, <2>7, <2>8, <2>9 DEF RowsInOrder
<1>2. CASE Drain
  <2>1. PICK m \in 1 .. Len(queue) :
            /\ Len(batch') = m /\ Len(queue') = Len(queue) - m
            /\ \A i \in 1 .. m : batch'[i] = queue[i]
            /\ \A i \in 1 .. Len(queue) - m : queue'[i] = queue[m + i]
      BY <1>2, DrainFacts
  <2>2. UNCHANGED <<logs, rows>> BY <1>2 DEF Drain, dvars
  <2>3. \A i \in 1 .. Len(queue') : m + i \in 1 .. Len(queue) /\ queue'[i] = queue[m + i]
      BY <1>0, <2>1
  <2>4. \A i \in 1 .. Len(batch') : i \in 1 .. Len(queue) /\ batch'[i] = queue[i] /\ i <= m
      BY <1>0, <2>1
  <2>5. \A i \in 1 .. Len(queue) : queue[i].row <= rows /\ queue[i].row \in Nat
      BY RowFacts DEF RowsInOrder
  <2>6. \A i, j \in 1 .. Len(queue) : i < j => queue[i].row < queue[j].row BY DEF RowsInOrder
  <2>7. /\ \A i, j \in 1 .. Len(queue') : i < j => queue'[i].row < queue'[j].row
        /\ \A i \in 1 .. Len(queue') : queue'[i].row <= rows'
    <3>1. ASSUME NEW i \in 1 .. Len(queue'), NEW j \in 1 .. Len(queue'), i < j
          PROVE  queue'[i].row < queue'[j].row
      <4>1. m + i \in 1 .. Len(queue) /\ m + j \in 1 .. Len(queue) /\ m + i < m + j
          BY <1>0, <2>1, <2>3, <3>1
      <4>2. queue[m + i].row < queue[m + j].row BY <4>1, <2>6
      <4> QED BY <2>3, <4>2
    <3>2. ASSUME NEW i \in 1 .. Len(queue') PROVE queue'[i].row <= rows'
        BY <2>2, <2>3, <2>5
    <3> QED BY <3>1, <3>2
  <2>8. \A i, j \in 1 .. Len(batch') : i < j => batch'[i].row < batch'[j].row
      BY <2>4, <2>6
  <2>9. \A i \in 1 .. Len(batch') : /\ batch'[i].row <= rows'
                                    /\ \A j \in 1 .. Len(queue') : batch'[i].row < queue'[j].row
    <3> SUFFICES ASSUME NEW i \in 1 .. Len(batch')
                 PROVE  /\ batch'[i].row <= rows'
                        /\ \A j \in 1 .. Len(queue') : batch'[i].row < queue'[j].row
        OBVIOUS
    <3>1. i \in 1 .. Len(queue) /\ batch'[i] = queue[i] /\ i <= m BY <2>4
    <3>2. ASSUME NEW j \in 1 .. Len(queue') PROVE batch'[i].row < queue'[j].row
      <4>1. PICK y \in 1 .. Len(queue) : queue'[j] = queue[y] /\ i < y
          BY <2>3, <3>1
      <4> QED BY <3>1, <4>1, <2>6
    <3> QED BY <3>1, <3>2, <2>2, <2>5
  <2>10. ASSUME NEW q \in Names, NEW x \in 1 .. Len(logs'[q].data) PROVE Behind(q, x)'
    <3>1. Behind(q, x) /\ logs'[q].data[x] = logs[q].data[x] BY <1>0, <2>2
    <3> QED BY <2>2, <2>3, <2>4, <3>1
  <2> QED BY <2>7, <2>8, <2>9, <2>10 DEF RowsInOrder
<1>3. CASE Signal
  <2>1. /\ UNCHANGED <<logs, rows, queue, pc>> /\ pc = "signal"
      BY <1>3 DEF Signal, dvars, jvars
  <2>2. /\ Len(batch') \in Nat
        /\ \A i \in 1 .. Len(batch') : i + 1 \in 1 .. Len(batch) /\ batch'[i] = batch[i + 1]
      BY <1>0, <1>3, SignalFacts
  <2>3. \A i \in 1 .. Len(batch') : Written(i)' BY <2>1 DEF Written
  <2>4. /\ \A i, j \in 1 .. Len(batch) : i < j => batch[i].row < batch[j].row
        /\ \A i \in 1 .. Len(batch) : /\ batch[i].row <= rows
                                      /\ \A j \in 1 .. Len(queue) : batch[i].row < queue[j].row
      BY DEF RowsInOrder
  <2>5. \A i, j \in 1 .. Len(batch') : i < j => batch'[i].row < batch'[j].row
      BY <2>2, <2>4
  <2>6. \A i \in 1 .. Len(batch') : /\ batch'[i].row <= rows'
                                    /\ \A j \in 1 .. Len(queue') : batch'[i].row < queue'[j].row
      BY <2>1, <2>2, <2>4
  <2>7. ASSUME NEW q \in Names, NEW x \in 1 .. Len(logs'[q].data) PROVE Behind(q, x)'
    <3>1. Behind(q, x) /\ logs'[q].data[x] = logs[q].data[x] BY <1>0, <2>1
    <3> QED BY <2>1, <2>3, <3>1
  <2> QED BY <2>1, <2>5, <2>6, <2>7 DEF RowsInOrder
<1>4. CASE FlushDone
  <2>1. UNCHANGED <<logs, rows, queue, batch>> /\ batch = << >> BY <1>4 DEF FlushDone, dvars
  <2>2. \A i \in 1 .. Len(batch) : FALSE BY <2>1
  <2> QED BY <2>1, <2>2 DEF RowsInOrder
<1>5. CASE SegStep
  <2>1. UNCHANGED <<logs, rows, queue, batch>> BY <1>5, FrameOfSteps
  <2>2. \A i \in 1 .. Len(batch) : ~Written(i)
      BY <1>5 DEF SegStep, WalWriteSeg, OpenSegment, WriteFrame, SyncSegment, SyncSegmentDir, Written
  <2> QED BY <2>1, <2>2 DEF RowsInOrder
<1>6. CASE WriteLine
  <2>1. UNCHANGED <<rows, queue, batch>> /\ LogStep /\ pc = "lines" /\ pc' = "lines" /\ named' = named
      BY <1>6, FrameOfSteps DEF LogStep, WriteLine
  <2>2. \A i \in 1 .. Len(batch) : Written(i) => Written(i)' BY <2>1, LinesMove
  <2>3. PICK n \in Names :
            /\ n = batch[named].name /\ k' \in Lines /\ k' > k
            /\ Len(logs'[n].data) = Len(logs[n].data) + 1
            /\ \A x \in 1 .. Len(logs[n].data) : logs'[n].data[x] = logs[n].data[x]
            /\ logs'[n].data[Len(logs[n].data) + 1] = batch[k'].row
            /\ \A q \in Names \ {n} : logs'[q] = logs[q]
      BY <1>6, LineAdded
  <2>4. ASSUME NEW q \in Names, NEW x \in 1 .. Len(logs'[q].data) PROVE Behind(q, x)'
    <3>1. CASE q # n \/ x \in 1 .. Len(logs[n].data)
      <4>1. x \in 1 .. Len(logs[q].data) /\ logs'[q].data[x] = logs[q].data[x] BY <2>3, <3>1
      <4>2. Behind(q, x) BY <4>1, <1>0
      <4> QED BY <2>1, <2>2, <4>1, <4>2
    <3>2. CASE q = n /\ x \notin 1 .. Len(logs[n].data)
      <4>0. Len(logs[n].data) \in Nat /\ Len(logs'[q].data) = Len(logs[n].data) + 1
          BY <2>3, <3>2, FilesTyped, FileFacts
      <4>1. x = Len(logs[n].data) + 1 BY <2>4, <3>2, <4>0
      <4>2. logs'[q].data[x] = batch[k'].row /\ k' \in 1 .. Len(batch)
          BY <2>3, <3>2, <4>1 DEF Lines
      <4>3. ASSUME NEW i \in 1 .. Len(batch), batch[i].name = q
            PROVE  Written(i)' \/ batch[k'].row < batch[i].row
        <5>1. CASE i > k' BY <4>2, <5>1, <1>0 DEF RowsInOrder
        <5>2. CASE i <= k'
          <6>1. Named(i)'
            <7>1. named \in 1 .. named BY <2>1 DEF JanitorPlaced
            <7> QED BY <2>1, <2>3, <3>2, <4>3, <7>1 DEF Named
          <6> QED BY <2>1, <5>2, <6>1 DEF Written
        <5> QED BY <4>2, <5>1, <5>2, <1>0
      <4> QED BY <2>1, <4>2, <4>3 DEF RowsInOrder
    <3> QED BY <3>1, <3>2
  <2> QED BY <2>1, <2>4 DEF RowsInOrder
<1>7. CASE LogStep /\ ~WriteLine
  <2>1. UNCHANGED <<rows, queue, batch>> BY <1>7, FrameOfSteps
  <2>2. \A i \in 1 .. Len(batch) : Written(i) => Written(i)' BY <1>7, LinesMove
  <2>3. \A n \in Names : logs'[n].data = logs[n].data BY <1>7, SameLines
  <2> QED BY <2>1, <2>2, <2>3 DEF RowsInOrder
<1>8. CASE Crash
  <2>1. rows' = rows /\ queue' = << >> /\ batch' = << >> BY <1>8, FrameOfSteps
  <2>2. ASSUME NEW n \in Names, NEW x \in 1 .. Len(logs'[n].data)
        PROVE  logs'[n].data[x] <= rows
    <3>1. CASE Spares(logs[n], logs'[n])
      <4>1. x \in 1 .. Len(logs[n].data) /\ logs'[n].data[x] = logs[n].data[x]
        <5>1. Len(logs'[n].data) <= Len(logs[n].data) /\ Len(logs[n].data) \in Nat
              /\ Len(logs'[n].data) \in Nat
            BY <1>8, <3>1, FilesTyped, FileFacts, CrashFacts DEF Spares
        <5> QED BY <3>1, <5>1 DEF Spares
      <4> QED BY <4>1, <1>0
    <3>2. CASE logs'[n] = NoFile
      <4>1. logs'[n].data = << >> BY <3>2 DEF NoFile
      <4> QED BY <4>1
    <3> QED BY <3>1, <3>2, <1>8, CrashFacts
  <2>3. \A i \in 1 .. Len(<< >>) : FALSE OBVIOUS
  <2> QED BY <2>1, <2>2, <2>3 DEF RowsInOrder
<1> QED BY <1>1, <1>2, <1>3, <1>4, <1>5, <1>6, <1>7, <1>8, StepKinds DEF QuietStep

\* The lines of a log are in the order of the submissions.
LEMMA BindsStep ==
    ASSUME RecInv, Next
    PROVE  BindsInSubmitOrder'
<1> USE DEF RecInv
<1>1. CASE QuietStep \/ SegStep
  <2>1. logs' = logs BY <1>1, FrameOfSteps
  <2> QED BY <2>1 DEF BindsInSubmitOrder
<1>2. CASE LogStep /\ ~WriteLine
  <2>1. \A n \in Names : logs'[n].data = logs[n].data BY <1>2, SameLines
  <2> QED BY <2>1 DEF BindsInSubmitOrder
<1>3. CASE WriteLine
  <2>1. PICK n \in Names :
            /\ n = batch[named].name /\ k' \in Lines /\ k' > k
            /\ Len(logs'[n].data) = Len(logs[n].data) + 1
            /\ \A x \in 1 .. Len(logs[n].data) : logs'[n].data[x] = logs[n].data[x]
            /\ logs'[n].data[Len(logs[n].data) + 1] = batch[k'].row
            /\ \A q \in Names \ {n} : logs'[q] = logs[q]
      BY <1>3, LineAdded
  <2>2. ~Written(k')
    <3>1. pc = "lines" /\ k \in Nat BY <1>3 DEF WriteLine, RecTypes
    <3>2. k' \in 1 .. Len(batch) /\ Len(batch) \in Nat BY <2>1, RowFacts DEF Lines
    <3>3. k' > k /\ k' \in Lines BY <2>1
    <3>4. ~ (k' <= k) BY <3>1, <3>2, <3>3
    <3> HIDE DEF Lines
    <3> QED BY <3>1, <3>3, <3>4 DEF Written
  <2>3. k' \in 1 .. Len(batch) /\ batch[k'].name = n BY <2>1 DEF Lines
  <2>4. \A x \in 1 .. Len(logs[n].data) : logs[n].data[x] < batch[k'].row
      BY <2>2, <2>3 DEF RowsInOrder
  <2>5. ASSUME NEW q \in Names, NEW x \in 1 .. Len(logs'[q].data), NEW y \in 1 .. Len(logs'[q].data),
               x < y
        PROVE  logs'[q].data[x] < logs'[q].data[y]
    <3>1. Len(logs[n].data) \in Nat BY FilesTyped, FileFacts
    <3>2. CASE q # n BY <2>1, <2>5, <3>2 DEF BindsInSubmitOrder
    <3>3. CASE q = n /\ y \in 1 .. Len(logs[n].data)
      <4>1. x \in 1 .. Len(logs[n].data) BY <2>5, <3>1, <3>3
      <4> QED BY <2>1, <2>5, <3>3, <4>1 DEF BindsInSubmitOrder
    <3>4. CASE q = n /\ y \notin 1 .. Len(logs[n].data)
      <4>1. y = Len(logs[n].data) + 1 /\ x \in 1 .. Len(logs[n].data)
        <5>1. Len(logs'[q].data) = Len(logs[n].data) + 1 BY <2>1, <3>4
        <5> QED BY <2>5, <3>1, <3>4, <5>1
      <4> QED BY <2>1, <2>4, <3>4, <4>1
    <3> QED BY <3>2, <3>3, <3>4
  <2> QED BY <2>5 DEF BindsInSubmitOrder
<1>4. CASE Crash
  <2>1. ASSUME NEW n \in Names, NEW x \in 1 .. Len(logs'[n].data), NEW y \in 1 .. Len(logs'[n].data),
               x < y
        PROVE  logs'[n].data[x] < logs'[n].data[y]
    <3>1. CASE Spares(logs[n], logs'[n])
      <4>1. Len(logs'[n].data) <= Len(logs[n].data) /\ Len(logs[n].data) \in Nat
            /\ Len(logs'[n].data) \in Nat
          BY <1>4, <3>1, FilesTyped, FileFacts, CrashFacts DEF Spares
      <4>2. x \in 1 .. Len(logs[n].data) /\ y \in 1 .. Len(logs[n].data) BY <4>1
      <4> QED BY <2>1, <3>1, <4>2 DEF Spares, BindsInSubmitOrder
    <3>2. CASE logs'[n] = NoFile
      <4>1. logs'[n].data = << >> BY <3>2 DEF NoFile
      <4> QED BY <4>1
    <3> QED BY <3>1, <3>2, <1>4, CrashFacts
  <2> QED BY <2>1 DEF BindsInSubmitOrder
<1> QED BY <1>1, <1>2, <1>3, <1>4, StepKinds

-----------------------------------------------------------------------------
(* The segments *)

\* What a step on the segments changes of each.
LEMMA SegMove ==
    ASSUME RecTypes, JanitorPlaced, SegStep, NEW s \in Segments
    PROVE  /\ segs'[s].exists <=> (segs[s].exists \/ (WalWriteSeg /\ s = seq'))
           /\ segs'[s].data = IF WriteFrame /\ s = seq
                              THEN segs[s].data \o Frame(batch[k + 1].row)
                              ELSE segs[s].data
           /\ segs'[s].synced = IF SyncSegment /\ s = seq THEN Len(segs[s].data)
                                ELSE segs[s].synced
<1>0. /\ segs \in [Segments -> FileOf(Cell)] /\ segs[s] \in FileOf(Cell) /\ seq \in Segments
      /\ segs[s].exists \in BOOLEAN
    BY FileFacts DEF RecTypes
<1>1. CASE WalWriteSeg
  <2>1. PICK c \in Segments : seq' = c /\ segs' = [segs EXCEPT ![c] = Create(segs[c])]
      BY <1>1 DEF WalWriteSeg
  <2>2. ~WriteFrame /\ ~SyncSegment BY <1>1 DEF WalWriteSeg, WriteFrame, SyncSegment
  <2>3. CASE s = c
    <3>1. segs'[s] = Create(segs[s]) BY <1>0, <2>1, <2>3
    <3> QED BY <1>0, <1>1, <2>1, <2>2, <2>3, <3>1, CreateFacts
  <2>4. CASE s # c
    <3>1. segs'[s] = segs[s] BY <1>0, <2>1, <2>4
    <3> QED BY <1>0, <2>1, <2>2, <2>4, <3>1
  <2> QED BY <2>3, <2>4
<1>2. CASE OpenSegment
  <2>1. segs' = [segs EXCEPT ![seq] = Create(segs[seq])] /\ pc = "open" /\ segs[seq].exists
      BY <1>2 DEF OpenSegment, JanitorPlaced
  <2>2. ~WriteFrame /\ ~SyncSegment /\ ~WalWriteSeg
      BY <1>2 DEF WalWriteSeg, WriteFrame, SyncSegment, OpenSegment
  <2>3. CASE s = seq
    <3>1. segs'[s] = Create(segs[s]) BY <1>0, <2>1, <2>3
    <3> QED BY <1>0, <2>1, <2>2, <2>3, <3>1, CreateFacts
  <2>4. CASE s # seq
    <3>1. segs'[s] = segs[s] BY <1>0, <2>1, <2>4
    <3> QED BY <1>0, <2>2, <3>1
  <2> QED BY <2>3, <2>4
<1>3. CASE WriteFrame
  <2>1. segs' = [segs EXCEPT ![seq] = Write(segs[seq], Frame(batch[k + 1].row))]
      BY <1>3 DEF WriteFrame
  <2>2. ~SyncSegment /\ ~WalWriteSeg
    <3>1. k < Len(batch) /\ pc = "frames" /\ k \in Nat /\ Len(batch) \in Nat
        BY <1>3, RowFacts DEF WriteFrame, RecTypes
    <3> QED BY <3>1 DEF WalWriteSeg, SyncSegment
  <2>3. CASE s = seq
    <3>1. segs'[s] = Write(segs[s], Frame(batch[k + 1].row)) BY <1>0, <2>1, <2>3
    <3>2. batch[k + 1].row \in 1 .. MaxRows
      <4>1. k + 1 \in 1 .. Len(batch) BY <1>3, RowFacts DEF WriteFrame, RecTypes
      <4> QED BY <4>1, RowFacts
    <3>3. PICK f \in FileOf(Cell) : f = segs[s] BY <1>0
    <3>4. PICK r \in 1 .. MaxRows : r = batch[k + 1].row BY <3>2
    <3>5. /\ Write(f, Frame(r)).data = f.data \o Frame(r)
          /\ Write(f, Frame(r)).exists = f.exists /\ Write(f, Frame(r)).synced = f.synced
        BY FrameFacts, WriteFacts
    <3> QED BY <1>3, <2>2, <2>3, <3>1, <3>3, <3>4, <3>5
  <2>4. CASE s # seq
    <3>1. segs'[s] = segs[s] BY <1>0, <2>1, <2>4
    <3> QED BY <1>0, <2>2, <2>4, <3>1
  <2> QED BY <2>3, <2>4
<1>4. CASE SyncSegment
  <2>1. segs' = [segs EXCEPT ![seq] = Sync(segs[seq])] BY <1>4 DEF SyncSegment
  <2>2. ~WriteFrame /\ ~WalWriteSeg
    <3>1. k = Len(batch) /\ pc = "frames" /\ k \in Nat
        BY <1>4 DEF SyncSegment, RecTypes
    <3> QED BY <3>1 DEF WalWriteSeg, WriteFrame
  <2>3. CASE s = seq
    <3>1. segs'[s] = Sync(segs[s]) BY <1>0, <2>1, <2>3
    <3> QED BY <1>0, <1>4, <2>2, <2>3, <3>1, SyncFacts
  <2>4. CASE s # seq
    <3>1. segs'[s] = segs[s] BY <1>0, <2>1, <2>4
    <3> QED BY <1>0, <2>2, <2>4, <3>1
  <2> QED BY <2>3, <2>4
<1>5. CASE SyncSegmentDir
  <2>1. ~WriteFrame /\ ~SyncSegment /\ ~WalWriteSeg
      BY <1>5 DEF WalWriteSeg, WriteFrame, SyncSegment, SyncSegmentDir
  <2>2. /\ segs'[s].data = segs[s].data /\ segs'[s].synced = segs[s].synced
        /\ segs'[s].exists <=> segs[s].exists
    <3>1. CASE isNew BY <1>0, <1>5, <3>1, SyncDirFacts DEF SyncSegmentDir
    <3>2. CASE ~isNew BY <1>5, <3>2 DEF SyncSegmentDir
    <3> QED BY <3>1, <3>2
  <2> QED BY <1>0, <2>1, <2>2
<1> QED BY <1>1, <1>2, <1>3, <1>4, <1>5 DEF SegStep

\* The segment chosen is the highest, or comes right behind it.
LEMMA ChosenFacts ==
    ASSUME RecTypes, \A s \in Segments : segs[s].exists => \A u \in 0 .. s : segs[u].exists,
           NEW c \in Segments, Chosen(c)
    PROVE  /\ \A s \in Segments : segs[s].exists => s <= c
           /\ \A u \in 0 .. (c - 1) : segs[u].exists
<1>0. MaxRows \in Nat /\ c \in Nat /\ c <= MaxRows BY ReclogAssumption DEF Segments
<1>1. CASE c = 0 /\ ~Unbroken(0)
  <2>1. ~segs[0].exists BY <1>0, <1>1 DEF Unbroken, Segments
  <2>2. \A s \in Segments : 0 \in 0 .. s BY DEF Segments
  <2> QED BY <1>0, <1>1, <2>1, <2>2
<1>2. ASSUME NEW h \in Segments, Highest(h)
      PROVE  (\A s \in Segments : segs[s].exists => s <= h) /\ (\A u \in 0 .. h : segs[u].exists)
  <2>1. \A u \in 0 .. h : segs[u].exists BY <1>2 DEF Highest, Unbroken
  <2>2. ASSUME NEW s \in Segments, segs[s].exists, ~(s <= h) PROVE FALSE
    <3>1. s \in Nat /\ h \in Nat /\ h + 1 <= s /\ s <= MaxRows BY <1>0, <2>2 DEF Segments
    <3>2. h + 1 \in Segments BY <1>0, <3>1 DEF Segments
    <3>3. \A u \in 0 .. (h + 1) : u \in 0 .. s BY <3>1
    <3>4. Unbroken(h + 1) BY <2>2, <3>2, <3>3 DEF Unbroken
    <3> QED BY <1>2, <3>4 DEF Highest
  <2> QED BY <2>1, <2>2
<1>3. CASE Highest(c)
  <2>1. \A u \in 0 .. (c - 1) : u \in 0 .. c BY <1>0
  <2> QED BY <1>2, <1>3, <2>1
<1>4. CASE c > 0 /\ Highest(c - 1)
  <2>1. c - 1 \in Segments BY <1>0, <1>4 DEF Segments
  <2>2. PICK h \in Segments : h = c - 1 BY <2>1
  <2>3. /\ \A s \in Segments : segs[s].exists => s <= h
        /\ \A u \in 0 .. h : segs[u].exists
      BY <1>2, <1>4, <2>2
  <2>4. \A s \in Segments : s \in Nat /\ (s <= h => s <= c) BY <1>0, <2>2 DEF Segments
  <2> QED BY <2>2, <2>3, <2>4
<1> QED BY <1>1, <1>3, <1>4 DEF Chosen

\* The segments stay without a gap.
LEMMA SegmentsStep ==
    ASSUME RecInv, Next
    PROVE  SegmentsInOrder'
<1> USE DEF RecInv
<1>0. \A s \in Segments : s \in Nat /\ \A u \in 0 .. s : u \in Segments
    BY ReclogAssumption DEF Segments
<1>1. CASE QuietStep \/ LogStep
  <2>1. segs' = segs /\ seq' = seq /\ harm' = harm BY <1>1, FrameOfSteps
  <2>2. pc' \in {"open", "frames"} => pc = pc'
      BY <1>1 DEF QuietStep, Submit, Drain, Signal, FlushDone, LogStep, OpenName, WriteLine,
                  SyncName, SyncNamesDir, jvars
  <2> QED BY <2>1, <2>2 DEF SegmentsInOrder
<1>2. CASE SegStep
  <2> SUFFICES ASSUME "wal" \notin harm'
               PROVE  /\ \A s \in Segments : segs'[s].exists => \A u \in 0 .. s : segs'[u].exists
                      /\ pc' \in {"open", "frames"} =>
                           \A s \in Segments : segs'[s].exists => s <= seq'
      BY DEF SegmentsInOrder
  <2>1. harm' = harm BY <1>2, FrameOfSteps
  <2>2. \A s \in Segments : segs[s].exists => \A u \in 0 .. s : segs[u].exists
      BY <2>1 DEF SegmentsInOrder
  <2>3. \A s \in Segments :
            segs'[s].exists <=> (segs[s].exists \/ (WalWriteSeg /\ s = seq'))
      BY <1>2, SegMove
  <2>4. CASE WalWriteSeg
    <3>1. PICK c \in Segments : Chosen(c) /\ seq' = c BY <2>4 DEF WalWriteSeg
    <3>2. /\ \A s \in Segments : segs[s].exists => s <= c
          /\ \A u \in 0 .. (c - 1) : segs[u].exists
        BY <2>2, <3>1, ChosenFacts
    <3>3. ASSUME NEW s \in Segments, segs'[s].exists, NEW u \in 0 .. s PROVE segs'[u].exists
      <4>1. u \in Segments BY <1>0
      <4>2. CASE segs[s].exists BY <2>2, <2>3, <4>1, <4>2
      <4>3. CASE s = c
        <5>1. u = c \/ u \in 0 .. (c - 1) BY <1>0, <4>3
        <5> QED BY <2>3, <2>4, <3>1, <3>2, <4>1, <5>1
      <4> QED BY <2>3, <3>1, <3>3, <4>2, <4>3
    <3>4. ASSUME NEW s \in Segments, segs'[s].exists PROVE s <= c
      <4>1. segs[s].exists \/ s = c BY <2>3, <3>1, <3>4
      <4>2. s \in Nat /\ c \in Nat BY <1>0
      <4> QED BY <3>2, <4>1, <4>2
    <3> QED BY <3>1, <3>3, <3>4
  <2>5. CASE ~WalWriteSeg
    <3>1. \A s \in Segments : segs'[s].exists <=> segs[s].exists BY <2>3, <2>5
    <3>2. (pc \in {"open", "frames"} /\ seq' = seq) \/ pc' \notin {"open", "frames"}
        BY <1>2, <2>5 DEF SegStep, OpenSegment, WriteFrame, SyncSegment, SyncSegmentDir
    <3> QED BY <1>0, <2>1, <2>2, <3>1, <3>2 DEF SegmentsInOrder
  <2> QED BY <2>4, <2>5
<1>3. CASE Crash
  <2>1. pc' = "idle" BY <1>3, FrameOfSteps
  <2>2. "wal" \notin harm' => "wal" \notin harm /\ \A s \in Segments : segs'[s].exists <=> segs[s].exists
      BY <1>3, CrashFacts DEF Spares
  <2> QED BY <1>0, <2>1, <2>2 DEF SegmentsInOrder
<1> QED BY <1>1, <1>2, <1>3, StepKinds

\* Whole frames stay whole.
LEMMA WholeStep ==
    ASSUME RecInv, Next
    PROVE  WholeFrames'
<1> USE DEF RecInv
<1>1. CASE QuietStep \/ LogStep
  <2>1. segs' = segs /\ harm' = harm BY <1>1, FrameOfSteps
  <2> QED BY <2>1 DEF WholeFrames
<1> SUFFICES ASSUME SegStep \/ Crash, harm' \subseteq {"names"}, NEW s \in Segments
             PROVE  /\ CleanEnd(segs'[s].data)
                    /\ \E i \in 0 .. segs'[s].synced : segs'[s].synced = 2 * i
    BY <1>1, StepKinds DEF WholeFrames
<1>2. /\ CleanEnd(segs[s].data)
      /\ \E i \in 0 .. segs[s].synced : segs[s].synced = 2 * i
  <2>1. harm \subseteq {"names"} BY FrameOfSteps, CrashFacts
  <2> QED BY <2>1 DEF WholeFrames
<1>3. segs[s].data \in Seq(Cell) BY FilesTyped, FileFacts
<1>4. CASE SegStep
  <2>1. CleanEnd(segs'[s].data)
    <3>1. CASE WriteFrame /\ s = seq
      <4>1. k + 1 \in 1 .. Len(batch) BY <3>1, RowFacts DEF WriteFrame, RecTypes
      <4>2. PICK r \in 1 .. MaxRows : r = batch[k + 1].row BY <4>1, RowFacts
      <4>3. segs'[s].data = segs[s].data \o Frame(r) BY <1>4, <3>1, <4>2, SegMove
      <4>4. CleanEnd(segs[s].data \o Frame(r)) BY <1>2, <1>3, CleanWrite
      <4> QED BY <4>3, <4>4
    <3>2. CASE ~(WriteFrame /\ s = seq) BY <1>2, <1>4, <3>2, SegMove
    <3> QED BY <3>1, <3>2
  <2>2. \E i \in 0 .. segs'[s].synced : segs'[s].synced = 2 * i
    <3>1. CASE SyncSegment /\ s = seq
      <4>1. segs'[s].synced = Len(segs[s].data) BY <1>4, <3>1, SegMove
      <4>2. PICK i \in 0 .. Len(segs[s].data) : 2 * i = Len(segs[s].data)
          BY <1>2 DEF CleanEnd
      <4> QED BY <4>1, <4>2
    <3>2. CASE ~(SyncSegment /\ s = seq) BY <1>2, <1>4, <3>2, SegMove
    <3> QED BY <3>1, <3>2
  <2> QED BY <2>1, <2>2
<1>5. CASE Crash
  <2>1. Spares(segs[s], segs'[s]) /\ CutBy(segs[s], segs'[s], 2) BY <1>5, CrashFacts
  <2>2. segs'[s].data \in Seq(Cell)
    <3>1. segs'[s] \in FileOf(Cell) BY <1>5, CrashFacts
    <3> QED BY <3>1, FileFacts
  <2>3. CleanEnd(segs'[s].data) BY <1>2, <1>3, <2>1, <2>2, CleanCut DEF Spares, CutBy
  <2>4. segs'[s].synced = segs[s].synced BY <2>1 DEF Spares
  <2> QED BY <1>2, <2>3, <2>4
<1> QED BY <1>4, <1>5

-----------------------------------------------------------------------------
(* Content before lines *)

\* The rows the name logs bind.
LEMMA BoundFacts ==
    ASSUME RecTypes, NEW r
    PROVE  r \in Bound <=> \E n \in Names : \E x \in 1 .. Len(logs[n].data) : logs[n].data[x] = r
    BY DEF Bound

\* Every step leaves the synced part of every segment, unless a crash takes segments.
LEMMA SegmentsKept ==
    ASSUME RecInv, Next, "wal" \notin harm'
    PROVE  \A s \in Segments : Keeps(segs[s], segs'[s])
<1> USE DEF RecInv
<1>0. RecTypes' BY TypeStep
<1> SUFFICES ASSUME NEW s \in Segments PROVE Keeps(segs[s], segs'[s])
    OBVIOUS
<1>1. segs[s] \in FileOf(Cell) /\ segs'[s] \in FileOf(Cell) BY <1>0 DEF RecTypes
<1>2. CASE QuietStep \/ LogStep
  <2>1. segs' = segs BY <1>2, FrameOfSteps
  <2> QED BY <1>1, <2>1, FileFacts DEF Keeps
<1>3. CASE SegStep BY <1>1, <1>3, SegGrow, Keeping
<1>4. CASE Crash BY <1>1, <1>4, CrashFacts, Keeping
<1> QED BY <1>2, <1>3, <1>4, StepKinds

\* So the content of a row stays synced.
LEMMA ContentStays ==
    ASSUME RecInv, Next, "wal" \notin harm', NEW r, ContentSynced(r)
    PROVE  ContentSynced(r)'
<1>1. PICK s \in Segments : HasSyncedFrame(segs[s], r) BY DEF ContentSynced
<1>2. segs[s] \in FileOf(Cell) /\ segs'[s] \in FileOf(Cell) /\ Keeps(segs[s], segs'[s])
    BY TypeStep, SegmentsKept DEF RecInv, RecTypes
<1>3. HasSyncedFrame(segs'[s], r) BY <1>1, <1>2, SyncedFrameStays
<1> QED BY <1>3 DEF ContentSynced

\* Of the rows bound after a step only the one just written is new.
LEMMA BoundMoves ==
    ASSUME RecInv, Next, NEW r, r \in Bound'
    PROVE  r \in Bound \/ (WriteLine /\ \E i \in 1 .. Len(batch) : r = batch[i].row)
<1> USE DEF RecInv
<1>0. RecTypes' BY TypeStep
<1>1. PICK n \in Names : \E x \in 1 .. Len(logs'[n].data) : logs'[n].data[x] = r
    BY DEF Bound
<1>2. PICK x \in 1 .. Len(logs'[n].data) : logs'[n].data[x] = r BY <1>1
<1>3. CASE logs'[n].data = logs[n].data
  <2>1. r \in Bound BY <1>2, <1>3, BoundFacts
  <2> QED BY <2>1
<1>4. CASE WriteLine
  <2>1. PICK q \in Names :
            /\ k' \in Lines /\ Len(logs'[q].data) = Len(logs[q].data) + 1
            /\ \A y \in 1 .. Len(logs[q].data) : logs'[q].data[y] = logs[q].data[y]
            /\ logs'[q].data[Len(logs[q].data) + 1] = batch[k'].row
            /\ \A o \in Names \ {q} : logs'[o] = logs[o]
      BY <1>4, LineAdded
  <2>2. CASE n # q BY <1>3, <2>1, <2>2
  <2>3. CASE n = q /\ x \in 1 .. Len(logs[q].data)
    <3>1. logs[n].data[x] = r BY <1>2, <2>1, <2>3
    <3> QED BY <2>3, <3>1, BoundFacts
  <2>4. CASE n = q /\ x \notin 1 .. Len(logs[q].data)
    <3>1. Len(logs'[n].data) = Len(logs[q].data) + 1 /\ Len(logs[q].data) \in Nat
        BY <2>1, <2>4, FilesTyped, FileFacts
    <3>2. x = Len(logs[q].data) + 1 BY <1>2, <2>4, <3>1
    <3>3. r = batch[k'].row /\ k' \in 1 .. Len(batch) BY <1>2, <2>1, <2>4, <3>2 DEF Lines
    <3> QED BY <1>4, <3>3
  <2> QED BY <2>2, <2>3, <2>4
<1>5. CASE LogStep /\ ~WriteLine BY <1>3, <1>5, SameLines
<1>6. CASE QuietStep \/ SegStep BY <1>3, <1>6, FrameOfSteps
<1>7. CASE Crash
  <2>1. CASE Spares(logs[n], logs'[n])
    <3>1. /\ Len(logs'[n].data) <= Len(logs[n].data) /\ Len(logs[n].data) \in Nat
          /\ Len(logs'[n].data) \in Nat
        BY <1>0, <2>1, FilesTyped, FileFacts DEF Spares, RecTypes
    <3>2. x \in 1 .. Len(logs[n].data) /\ logs[n].data[x] = r
        BY <1>2, <2>1, <3>1 DEF Spares
    <3> QED BY <3>2, BoundFacts
  <2>2. CASE logs'[n] = NoFile
    <3>1. logs'[n].data = << >> BY <2>2 DEF NoFile
    <3> QED BY <1>2, <3>1
  <2> QED BY <1>7, <2>1, <2>2, CrashFacts
<1> QED BY <1>4, <1>5, <1>6, <1>7, StepKinds

\* Content is synced before its line is written and before it is acknowledged.
LEMMA ContentStep ==
    ASSUME RecInv, Next
    PROVE  ContentFirst'
<1> USE DEF RecInv
<1> SUFFICES ASSUME harm' \subseteq {"names"}
             PROVE  /\ pc' = "frames" => \A i \in 1 .. k' : HasFrame(segs[seq], batch[i].row)'
                    /\ pc' \in {"segdir", "names", "lines", "signal"} =>
                         \A i \in 1 .. Len(batch') : ContentSynced(batch[i].row)'
                    /\ \A r \in acked' \union Bound' : ContentSynced(r)'
    BY DEF ContentFirst
<1>0. /\ harm \subseteq {"names"} /\ "wal" \notin harm' /\ RecTypes'
      /\ Len(batch) \in Nat /\ k \in Nat /\ seq \in Segments
  <2>1. harm \subseteq harm'
    <3>1. CASE Crash BY <3>1, CrashFacts
    <3>2. CASE ~Crash BY <3>2, StepKinds, FrameOfSteps
    <3> QED BY <3>1, <3>2
  <2>2. RecTypes' BY TypeStep
  <2>3. Len(batch) \in Nat /\ k \in Nat /\ seq \in Segments BY RowFacts DEF RecTypes
  <2>4. "wal" \notin {"names"} OBVIOUS
  <2> QED BY <2>1, <2>2, <2>3, <2>4
<1>1. /\ pc = "frames" => \A i \in 1 .. k : HasFrame(segs[seq], batch[i].row)
      /\ pc \in {"segdir", "names", "lines", "signal"} =>
           \A i \in 1 .. Len(batch) : ContentSynced(batch[i].row)
      /\ \A r \in acked \union Bound : ContentSynced(r)
    BY <1>0 DEF ContentFirst
<1>2. \A r : ContentSynced(r) => ContentSynced(r)' BY <1>0, ContentStays
<1>3. pc' = "frames" => \A i \in 1 .. k' : HasFrame(segs[seq], batch[i].row)'
  <2> SUFFICES ASSUME pc' = "frames", NEW i \in 1 .. k'
               PROVE  HasFrame(segs'[seq'], batch'[i].row)
      OBVIOUS
  <2>1. CASE \E n \in Names : Submit(n)
    <3>1. UNCHANGED <<pc, k, batch, segs, seq>> BY <2>1 DEF Submit, dvars, jvars
    <3> QED BY <1>1, <3>1
  <2>2. CASE OpenSegment
    <3>1. k' = 0 BY <2>2 DEF OpenSegment, JanitorPlaced
    <3> QED BY <3>1
  <2>3. CASE WriteFrame
    <3>1. /\ pc = "frames" /\ k < Len(batch) /\ k' = k + 1 /\ batch' = batch /\ seq' = seq
          /\ SegStep
        BY <2>3 DEF WriteFrame, SegStep
    <3>2. segs[seq] \in FileOf(Cell) /\ segs'[seq] \in FileOf(Cell)
        BY <1>0 DEF RecTypes
    <3>3. CASE i \in 1 .. k
      <4>1. HasFrame(segs[seq], batch[i].row) BY <1>1, <3>1, <3>3
      <4> QED BY <1>0, <3>1, <3>2, <4>1, SegGrow, FrameGrows
    <3>4. CASE i \notin 1 .. k
      <4>1. i = k + 1 /\ i \in 1 .. Len(batch) BY <1>0, <3>1, <3>4
      <4>2. PICK r \in 1 .. MaxRows : r = batch[i].row BY <4>1, RowFacts
      <4>3. segs'[seq].data = segs[seq].data \o Frame(r) BY <1>0, <2>3, <3>1, <4>1, <4>2, SegMove
      <4>4. CleanEnd(segs[seq].data) /\ segs[seq].data \in Seq(Cell)
          BY <1>0, <3>2, FileFacts DEF WholeFrames
      <4>5. \E j \in 1 .. Len(segs'[seq].data) : FrameAt(segs'[seq].data, j, r)
          BY <4>3, <4>4, CleanWrite
      <4> QED BY <3>1, <4>2, <4>5 DEF HasFrame
    <3> QED BY <3>3, <3>4
  <2>4. ~Drain /\ ~Signal /\ ~FlushDone /\ ~WalWriteSeg /\ ~SyncSegment /\ ~SyncSegmentDir
        /\ ~LogStep /\ ~Crash
      BY DEF Drain, Signal, FlushDone, WalWriteSeg, SyncSegment, SyncSegmentDir, LogStep, OpenName,
             WriteLine, SyncName, SyncNamesDir, Crash, jvars
  <2> QED BY <2>1, <2>2, <2>3, <2>4, StepKinds DEF QuietStep, SegStep
<1>4. pc' \in {"segdir", "names", "lines", "signal"} =>
        \A i \in 1 .. Len(batch') : ContentSynced(batch[i].row)'
  <2> SUFFICES ASSUME pc' \in {"segdir", "names", "lines", "signal"}, NEW i \in 1 .. Len(batch')
               PROVE  ContentSynced(batch[i].row)'
      OBVIOUS
  <2>1. CASE (\E n \in Names : Submit(n)) \/ SyncSegmentDir \/ LogStep
    <3>1. batch' = batch /\ pc \in {"segdir", "names", "lines", "signal"}
        BY <2>1 DEF Submit, SyncSegmentDir, LogStep, OpenName, WriteLine, SyncName, SyncNamesDir, jvars
    <3>2. PICK r : r = batch[i].row OBVIOUS
    <3>3. ContentSynced(r)' BY <1>1, <1>2, <3>1, <3>2
    <3> QED BY <3>1, <3>2, <3>3
  <2>2. CASE Signal
    <3>1. pc = "signal" BY <2>2 DEF Signal
    <3>2. i + 1 \in 1 .. Len(batch) /\ batch'[i] = batch[i + 1] BY <1>0, <2>2, SignalFacts
    <3>3. PICK r : r = batch[i + 1].row OBVIOUS
    <3>4. ContentSynced(r)' BY <1>1, <1>2, <3>1, <3>2, <3>3
    <3> QED BY <3>2, <3>3, <3>4
  <2>3. CASE SyncSegment
    <3>1. /\ pc = "frames" /\ k = Len(batch) /\ batch' = batch
          /\ segs' = [segs EXCEPT ![seq] = Sync(segs[seq])]
        BY <2>3 DEF SyncSegment
    <3>2. PICK r : r = batch[i].row OBVIOUS
    <3>3. HasFrame(segs[seq], r) /\ segs[seq].exists /\ segs[seq] \in FileOf(Cell)
        BY <1>0, <1>1, <3>1, <3>2, FilesTyped DEF JanitorPlaced
    <3>4. HasSyncedFrame(Sync(segs[seq]), r) BY <3>3, FrameSynced
    <3>5. segs'[seq] = Sync(segs[seq]) BY <1>0, <3>1 DEF RecTypes
    <3>6. ContentSynced(r)' BY <1>0, <3>4, <3>5 DEF ContentSynced
    <3> QED BY <3>1, <3>2, <3>6
  <2>4. ~Drain /\ ~FlushDone /\ ~WalWriteSeg /\ ~OpenSegment /\ ~WriteFrame /\ ~Crash
      BY DEF Drain, FlushDone, WalWriteSeg, OpenSegment, WriteFrame, Crash
  <2> QED BY <2>1, <2>2, <2>3, <2>4, StepKinds DEF QuietStep, SegStep
<1>5. ASSUME NEW r \in acked' \union Bound' PROVE ContentSynced(r)'
  <2>1. r \in acked' => r \in acked \/ (Signal /\ r = batch[1].row)
    <3>1. CASE Signal BY <3>1, SignalFacts
    <3>2. CASE ~Signal
      <4>1. acked' = acked
          BY <3>2, StepKinds, FrameOfSteps DEF QuietStep, Submit, Drain, FlushDone
      <4> QED BY <4>1
    <3> QED BY <3>1, <3>2
  <2>2. CASE r \in acked \union Bound BY <1>1, <1>2, <2>2
  <2>3. CASE Signal /\ r = batch[1].row
    <3>1. pc = "signal" /\ 1 \in 1 .. Len(batch) BY <1>0, <2>3, SignalFacts DEF Signal
    <3> QED BY <1>1, <1>2, <2>3, <3>1
  <2>4. CASE WriteLine /\ \E i \in 1 .. Len(batch) : r = batch[i].row
    <3>1. pc = "lines" BY <2>4 DEF WriteLine
    <3> QED BY <1>1, <1>2, <2>4, <3>1
  <2> QED BY <1>5, <2>1, <2>2, <2>3, <2>4, BoundMoves
<1> QED BY <1>3, <1>4, <1>5

-----------------------------------------------------------------------------
(* Lines, and what is acknowledged *)

\* The logs after a step, by what was done to them.
LEMMA LogsKept ==
    ASSUME RecInv, Next, NEW n \in Names
    PROVE  /\ logs[n] \in FileOf(1 .. MaxRows) /\ logs'[n] \in FileOf(1 .. MaxRows)
           /\ ~Crash => Grows(logs[n], logs'[n])
           /\ "names" \notin harm' \/ logs[n].entry => Keeps(logs[n], logs'[n])
<1> USE DEF RecInv
<1>0. RecTypes' BY TypeStep
<1>1. logs[n] \in FileOf(1 .. MaxRows) /\ logs'[n] \in FileOf(1 .. MaxRows)
    BY <1>0 DEF RecTypes
<1>2. CASE QuietStep \/ SegStep
  <2>1. logs' = logs BY <1>2, FrameOfSteps
  <2>2. Grows(logs[n], logs'[n]) BY <1>1, <2>1, FileFacts DEF Grows
  <2> QED BY <1>1, <2>2, Keeping
<1>3. CASE LogStep
  <2>1. Grows(logs[n], logs'[n]) BY <1>3, LogGrow
  <2> QED BY <1>1, <2>1, Keeping
<1>4. CASE Crash
  <2>1. "names" \notin harm' \/ logs[n].entry => Spares(logs[n], logs'[n])
      BY <1>4, CrashFacts
  <2> QED BY <1>1, <1>4, <2>1, Keeping
<1> QED BY <1>2, <1>3, <1>4, StepKinds

\* A line written is in its log, a line fsynced in its synced part, and so are
\* the lines of rows acknowledged.
LEMMA LinesStep ==
    ASSUME RecInv, Next
    PROVE  LinesWritten'
<1> USE DEF RecInv
<1> DEFINE In(f, r) == \E x \in 1 .. Len(f.data) : f.data[x] = r
<1>0. Len(batch) \in Nat /\ RecTypes' BY RowFacts, TypeStep
<1>1. \A i \in 1 .. Len(batch) : /\ Written(i) => In(logs[batch[i].name], batch[i].row)
                                 /\ LineSynced(i) => HasLine(logs[batch[i].name], batch[i].row)
    BY DEF LinesWritten
<1>2. ASSUME ~Crash, NEW n \in Names, NEW r
      PROVE  /\ In(logs[n], r) => In(logs'[n], r)
             /\ HasLine(logs[n], r) => HasLine(logs'[n], r)
  <2>1. PICK f \in FileOf(1 .. MaxRows) : f = logs[n] BY LogsKept
  <2>2. PICK g \in FileOf(1 .. MaxRows) : g = logs'[n] BY LogsKept
  <2>3. Grows(f, g) BY <1>2, <2>1, <2>2, LogsKept
  <2>4. In(f, r) => In(g, r) BY <2>3, FileFacts DEF Grows
  <2>5. HasLine(f, r) => HasLine(g, r) BY <2>3, Keeping, LineStays
  <2> QED BY <2>1, <2>2, <2>4, <2>5
<1>3. ASSUME NEW i \in 1 .. Len(batch')
      PROVE  /\ Written(i)' => In(logs'[batch'[i].name], batch'[i].row)
             /\ LineSynced(i)' => HasLine(logs'[batch'[i].name], batch'[i].row)
  <2>1. CASE LogStep
    <3>1. batch' = batch /\ ~Crash /\ i \in 1 .. Len(batch)
        BY <2>1, FrameOfSteps DEF LogStep, OpenName, WriteLine, SyncName, SyncNamesDir, Crash
    <3>2. PICK n \in Names : n = batch[i].name BY <3>1, RowFacts
    <3>3. PICK r : r = batch[i].row OBVIOUS
    <3>4. Written(i) => In(logs'[n], r) BY <1>1, <1>2, <3>1, <3>2, <3>3, ZenonT(30)
    <3>5. LineSynced(i) => HasLine(logs'[n], r) BY <1>1, <1>2, <3>1, <3>2, <3>3
    <3>6. ASSUME WriteLine, i = k' PROVE In(logs'[n], r)
      <4>1. PICK q \in Names :
                /\ q = batch[named].name /\ k' \in Lines
                /\ Len(logs'[q].data) = Len(logs[q].data) + 1
                /\ logs'[q].data[Len(logs[q].data) + 1] = batch[k'].row
          BY <3>6, LineAdded
      <4>2. n = q BY <3>2, <3>6, <4>1 DEF Lines
      <4>3. Len(logs[q].data) \in Nat BY FilesTyped, FileFacts
      <4>4. Len(logs[q].data) + 1 \in 1 .. Len(logs'[q].data) BY <4>1, <4>3
      <4> QED BY <3>3, <3>6, <4>1, <4>2, <4>4
    <3>7. ASSUME SyncName, Written(i), i \in Lines PROVE HasLine(logs'[n], r)
      <4>1. logs' = [logs EXCEPT ![n] = Sync(logs[n])] BY <3>2, <3>7 DEF SyncName, Lines
      <4>2. PICK f \in FileOf(1 .. MaxRows) : f = logs[n] BY FilesTyped
      <4>3. logs'[n] = Sync(f) BY <4>1, <4>2 DEF RecTypes
      <4>4. Sync(f).data = f.data /\ Sync(f).synced = Len(f.data) BY SyncFacts
      <4>5. In(f, r) BY <1>1, <3>1, <3>2, <3>3, <3>7, <4>2
      <4> QED BY <4>3, <4>4, <4>5 DEF HasLine
    <3> HIDE DEF In
    <3>8. Written(i)' => In(logs'[n], r) BY <2>1, <3>1, <3>4, <3>6, LinesMove
    <3>9. LineSynced(i)' => HasLine(logs'[n], r) BY <2>1, <3>1, <3>5, <3>7, LinesMove
    <3> QED BY <3>1, <3>2, <3>3, <3>8, <3>9
  <2>2. CASE \E n \in Names : Submit(n)
    <3>1. UNCHANGED <<batch, logs, pc, named, k>> BY <2>2 DEF Submit, dvars, jvars
    <3>2. (Written(i)' <=> Written(i)) /\ (LineSynced(i)' <=> LineSynced(i))
        BY <3>1 DEF Written, LineSynced, Named, Lines
    <3> QED BY <1>1, <3>1, <3>2
  <2>3. CASE Signal
    <3>1. /\ pc = "signal" /\ logs' = logs BY <2>3 DEF Signal, dvars
    <3>2. i + 1 \in 1 .. Len(batch) /\ batch'[i] = batch[i + 1] BY <1>0, <2>3, SignalFacts
    <3>3. Written(i + 1) /\ LineSynced(i + 1) BY <3>1 DEF Written, LineSynced
    <3> QED BY <1>1, <3>1, <3>2, <3>3
  <2>4. CASE FlushDone
    <3>1. batch' = << >> BY <2>4 DEF FlushDone
    <3> QED BY <3>1
  <2>5. CASE Crash
    <3>1. batch' = << >> BY <2>5, FrameOfSteps
    <3> QED BY <3>1
  <2>6. CASE Drain
    <3>1. pc' = "segment" BY <2>6 DEF Drain
    <3> QED BY <3>1 DEF Written, LineSynced
  <2>7. CASE SegStep
    <3>1. /\ batch' = batch /\ named' = named /\ named = 0
          /\ pc' \in {"open", "frames", "segdir", "names"}
        BY <2>7, FrameOfSteps DEF SegStep, WalWriteSeg, OpenSegment, WriteFrame, SyncSegment,
                                  SyncSegmentDir, JanitorPlaced
    <3>2. ~Named(i)' BY <3>1 DEF Named
    <3> QED BY <3>1, <3>2 DEF Written, LineSynced
  <2> QED BY <2>1, <2>2, <2>3, <2>4, <2>5, <2>6, <2>7, StepKinds DEF QuietStep
<1>4. ASSUME "names" \notin harm', NEW r \in acked' PROVE \E n \in Names : HasLine(logs'[n], r)
  <2>1. \A n \in Names : HasLine(logs[n], r) => HasLine(logs'[n], r)
    <3> SUFFICES ASSUME NEW n \in Names, HasLine(logs[n], r) PROVE HasLine(logs'[n], r)
        OBVIOUS
    <3>1. /\ logs[n] \in FileOf(1 .. MaxRows) /\ logs'[n] \in FileOf(1 .. MaxRows)
          /\ Keeps(logs[n], logs'[n])
        BY <1>4, LogsKept
    <3> QED BY <3>1, LineStays
  <2>2. CASE r \in acked
    <3>1. "names" \notin harm
      <4>1. CASE Crash BY <1>4, <4>1, CrashFacts
      <4>2. CASE ~Crash BY <1>4, <4>2, StepKinds, FrameOfSteps
      <4> QED BY <4>1, <4>2
    <3> QED BY <2>1, <2>2, <3>1 DEF LinesWritten
  <2>3. CASE r \notin acked
    <3>1. Signal
      <4>1. ~Signal => acked' = acked
          BY StepKinds, FrameOfSteps DEF QuietStep, Submit, Drain, FlushDone
      <4> QED BY <1>4, <2>3, <4>1
    <3>2. r = batch[1].row /\ 1 \in 1 .. Len(batch) BY <1>0, <2>3, <1>4, <3>1, SignalFacts
    <3>3. LineSynced(1) BY <3>1 DEF LineSynced, Signal
    <3>4. batch[1].name \in Names /\ HasLine(logs[batch[1].name], r) BY <1>1, <3>2, <3>3, RowFacts
    <3> QED BY <2>1, <3>4
  <2> QED BY <2>2, <2>3
<1> QED BY <1>3, <1>4 DEF LinesWritten

-----------------------------------------------------------------------------
(* The first life of the process *)

\* What a step on the logs changes of each.
LEMMA LogMove ==
    ASSUME RecTypes, JanitorPlaced, LogStep, NEW n \in Names
    PROVE  /\ logs'[n].exists <=> (logs[n].exists \/ (OpenName /\ n = batch[named'].name))
           /\ logs'[n].entry <=> IF SyncNamesDir /\ anyNew THEN logs[n].exists ELSE logs[n].entry
<1> DEFINE L == 1 .. MaxRows
<1>0. /\ logs \in [Names -> FileOf(L)] /\ logs[n] \in FileOf(L)
      /\ logs[n].exists \in BOOLEAN /\ logs[n].entry \in BOOLEAN
    BY FileFacts DEF RecTypes
<1>1. CASE OpenName
  <2>1. PICK i \in 1 .. Len(batch) :
            named' = i /\ logs' = [logs EXCEPT ![batch[i].name] = Create(logs[batch[i].name])]
      BY <1>1 DEF OpenName
  <2>2. ~SyncNamesDir BY <1>1 DEF OpenName, SyncNamesDir, Turn
  <2>3. CASE n = batch[i].name
    <3>1. logs'[n] = Create(logs[n]) BY <1>0, <2>1, <2>3
    <3> QED BY <1>0, <1>1, <2>1, <2>2, <2>3, <3>1, CreateFacts
  <2>4. CASE n # batch[i].name
    <3>1. logs'[n] = logs[n] BY <1>0, <2>1, <2>4
    <3> QED BY <1>0, <2>1, <2>2, <2>4, <3>1
  <2> QED BY <2>3, <2>4
<1>2. CASE WriteLine
  <2>1. PICK i \in 1 .. Len(batch) :
            logs' = [logs EXCEPT ![batch[named].name] = Write(logs[batch[named].name], <<batch[i].row>>)]
      BY <1>2 DEF WriteLine
  <2>2. ~SyncNamesDir /\ ~OpenName BY <1>2 DEF OpenName, SyncNamesDir, WriteLine
  <2>3. CASE n = batch[named].name
    <3>1. logs'[n] = Write(logs[n], <<batch[i].row>>) BY <1>0, <2>1, <2>3
    <3>2. PICK cells \in Seq(L) : cells = <<batch[i].row>>
      <4>1. PICK r \in L : r = batch[i].row BY RowFacts
      <4>2. <<r>> \in Seq(L) OBVIOUS
      <4> QED BY <4>1, <4>2
    <3>3. PICK f \in FileOf(L) : f = logs[n] BY <1>0
    <3> HIDE DEF L
    <3>4. Write(f, cells).exists = f.exists /\ Write(f, cells).entry = f.entry BY WriteFacts
    <3> QED BY <1>0, <2>2, <3>1, <3>2, <3>3, <3>4
  <2>4. CASE n # batch[named].name
    <3>1. logs'[n] = logs[n] BY <1>0, <2>1, <2>4
    <3> QED BY <1>0, <2>2, <3>1
  <2> QED BY <2>3, <2>4
<1>3. CASE SyncName
  <2>1. logs' = [logs EXCEPT ![batch[named].name] = Sync(logs[batch[named].name])]
      BY <1>3 DEF SyncName
  <2>2. ~SyncNamesDir /\ ~OpenName BY <1>3 DEF OpenName, SyncNamesDir, SyncName
  <2>3. CASE n = batch[named].name
    <3>1. logs'[n] = Sync(logs[n]) BY <1>0, <2>1, <2>3
    <3> QED BY <1>0, <2>2, <3>1, SyncFacts
  <2>4. CASE n # batch[named].name
    <3>1. logs'[n] = logs[n] BY <1>0, <2>1, <2>4
    <3> QED BY <1>0, <2>2, <3>1
  <2> QED BY <2>3, <2>4
<1>4. CASE SyncNamesDir
  <2>1. ~OpenName BY <1>4 DEF OpenName, SyncNamesDir
  <2>2. CASE anyNew
    <3>1. logs' = SyncDir(logs) BY <1>4, <2>2 DEF SyncNamesDir
    <3> QED BY <1>0, <1>4, <2>1, <2>2, <3>1, SyncDirFacts
  <2>3. CASE ~anyNew
    <3>1. logs' = logs BY <1>4, <2>3 DEF SyncNamesDir
    <3> QED BY <1>0, <2>1, <2>3, <3>1
  <2> QED BY <2>2, <2>3
<1> QED BY <1>1, <1>2, <1>3, <1>4 DEF LogStep

\* Until the first crash what exists is synced.
LEMMA FirstStep ==
    ASSUME RecInv, Next
    PROVE  FirstLife'
<1> USE DEF RecInv
<1> SUFFICES ASSUME crashes' = 0
             PROVE  /\ harm' = {} /\ old' = acked'
                    /\ \A s \in Segments :
                         segs'[s].synced = Len(segs'[s].data) \/ (pc' = "frames" /\ s = seq')
                    /\ \A n \in Names : logs'[n].exists =>
                         logs'[n].entry \/ (pc' \in {"names", "lines"} /\ anyNew')
                    /\ \A i \in 1 .. Len(batch') : Opened(i)' => logs'[batch'[i].name].exists
    BY DEF FirstLife
<1>0. ~Crash /\ crashes = 0 /\ harm' = harm /\ Len(batch) \in Nat
  <2>1. crashes \in Nat BY DEF RecTypes
  <2>2. ~Crash BY <2>1, FrameOfSteps
  <2> QED BY <2>2, StepKinds, FrameOfSteps, RowFacts
<1>1. /\ harm = {} /\ old = acked
      /\ \A s \in Segments : segs[s].synced = Len(segs[s].data) \/ (pc = "frames" /\ s = seq)
      /\ \A n \in Names : logs[n].exists => logs[n].entry \/ (pc \in {"names", "lines"} /\ anyNew)
      /\ \A i \in 1 .. Len(batch) : Opened(i) => logs[batch[i].name].exists
    BY <1>0 DEF FirstLife
<1>2. ASSUME NEW s \in Segments
      PROVE  segs'[s].synced = Len(segs'[s].data) \/ (pc' = "frames" /\ s = seq')
  <2>1. CASE QuietStep \/ LogStep
    <3>1. segs' = segs /\ seq' = seq BY <2>1, FrameOfSteps
    <3>2. pc = "frames" => pc' = "frames"
        BY <2>1 DEF QuietStep, Submit, Drain, Signal, FlushDone, LogStep, OpenName, WriteLine,
                    SyncName, SyncNamesDir, jvars
    <3> QED BY <1>1, <3>1, <3>2
  <2>2. CASE SegStep
    <3>1. /\ segs'[s].data = IF WriteFrame /\ s = seq THEN segs[s].data \o Frame(batch[k + 1].row)
                             ELSE segs[s].data
          /\ segs'[s].synced = IF SyncSegment /\ s = seq THEN Len(segs[s].data) ELSE segs[s].synced
        BY <2>2, SegMove
    <3>2. CASE WriteFrame
      <4>1. pc' = "frames" /\ pc = "frames" /\ seq' = seq /\ k # Len(batch)
        <5>1. k \in Nat BY DEF RecTypes
        <5> QED BY <1>0, <3>2, <5>1 DEF WriteFrame
      <4>2. ~SyncSegment BY <4>1 DEF SyncSegment
      <4> QED BY <1>1, <3>1, <4>1, <4>2
    <3>3. CASE SyncSegment
      <4>1. pc = "frames" /\ k = Len(batch) /\ k \in Nat BY <3>3 DEF SyncSegment, RecTypes
      <4>2. ~WriteFrame BY <4>1 DEF WriteFrame
      <4> QED BY <1>1, <3>1, <3>3, <4>2
    <3>4. CASE ~WriteFrame /\ ~SyncSegment
      <4>1. pc # "frames" BY <2>2, <3>4 DEF SegStep, WalWriteSeg, OpenSegment, SyncSegmentDir
      <4> QED BY <1>1, <3>1, <3>4, <4>1
    <3> QED BY <3>2, <3>3, <3>4
  <2> QED BY <1>0, <2>1, <2>2, StepKinds
<1>3. ASSUME NEW n \in Names, logs'[n].exists
      PROVE  logs'[n].entry \/ (pc' \in {"names", "lines"} /\ anyNew')
  <2>1. CASE \E q \in Names : Submit(q)
    <3>1. UNCHANGED <<logs, pc, anyNew>> BY <2>1 DEF Submit, dvars, jvars
    <3> QED BY <1>1, <1>3, <3>1
  <2>2. CASE Drain \/ Signal \/ FlushDone \/ SegStep
    <3>1. logs' = logs BY <2>2, FrameOfSteps DEF QuietStep
    <3>2. pc \notin {"names", "lines"}
        BY <2>2 DEF Drain, Signal, FlushDone, SegStep, WalWriteSeg, OpenSegment, WriteFrame,
                    SyncSegment, SyncSegmentDir
    <3> QED BY <1>1, <1>3, <3>1, <3>2
  <2>3. CASE LogStep
    <3>1. /\ logs'[n].exists <=> (logs[n].exists \/ (OpenName /\ n = batch[named'].name))
          /\ logs'[n].entry <=> IF SyncNamesDir /\ anyNew THEN logs[n].exists ELSE logs[n].entry
        BY <2>3, LogMove
    <3>2. CASE OpenName
      <4>1. ~SyncNamesDir BY <3>2 DEF OpenName, SyncNamesDir
      <4>2. pc' = "lines" /\ anyNew' = (anyNew \/ ~logs[batch[named'].name].exists)
          BY <3>2 DEF OpenName
      <4> QED BY <1>1, <1>3, <3>1, <4>1, <4>2
    <3>3. CASE WriteLine \/ SyncName
      <4>1. ~SyncNamesDir /\ ~OpenName BY <3>3 DEF OpenName, SyncNamesDir, WriteLine, SyncName
      <4>2. pc' \in {"names", "lines"} /\ anyNew' = anyNew BY <3>3 DEF WriteLine, SyncName
      <4> QED BY <1>1, <1>3, <3>1, <4>1, <4>2
    <3>4. CASE SyncNamesDir
      <4>1. ~OpenName BY <3>4 DEF OpenName, SyncNamesDir
      <4> QED BY <1>1, <1>3, <3>1, <3>4, <4>1
    <3> QED BY <2>3, <3>2, <3>3, <3>4 DEF LogStep
  <2> QED BY <1>0, <2>1, <2>2, <2>3, StepKinds DEF QuietStep
<1>4. ASSUME NEW i \in 1 .. Len(batch'), Opened(i)'
      PROVE  logs'[batch'[i].name].exists
  <2>1. CASE \E q \in Names : Submit(q)
    <3>1. UNCHANGED <<logs, pc, named, batch>> BY <2>1 DEF Submit, dvars, jvars
    <3>2. Opened(i) BY <1>4, <3>1 DEF Opened, Named
    <3> QED BY <1>1, <3>1, <3>2
  <2>2. CASE Drain \/ FlushDone
    <3>1. pc' \in {"segment", "idle"} BY <2>2 DEF Drain, FlushDone
    <3> QED BY <1>4, <3>1 DEF Opened
  <2>3. CASE Signal
    <3>1. pc = "signal" /\ logs' = logs BY <2>3 DEF Signal, dvars
    <3>2. i + 1 \in 1 .. Len(batch) /\ batch'[i] = batch[i + 1] BY <1>0, <2>3, SignalFacts
    <3>3. Opened(i + 1) BY <3>1 DEF Opened
    <3> QED BY <1>1, <3>1, <3>2, <3>3
  <2>4. CASE SegStep
    <3>1. named' = 0 /\ pc' # "signal"
        BY <2>4, FrameOfSteps DEF SegStep, WalWriteSeg, OpenSegment, WriteFrame, SyncSegment,
                                  SyncSegmentDir, JanitorPlaced
    <3>2. ~Named(i)' BY <3>1 DEF Named
    <3> QED BY <1>4, <3>1, <3>2 DEF Opened
  <2>5. CASE LogStep
    <3>1. batch' = batch /\ i \in 1 .. Len(batch) BY <2>5, FrameOfSteps
    <3>2. PICK n \in Names : n = batch[i].name BY <3>1, RowFacts
    <3>3. logs'[n].exists <=> (logs[n].exists \/ (OpenName /\ n = batch[named'].name))
        BY <2>5, LogMove
    <3>4. Opened(i) \/ (OpenName /\ n = batch[named'].name)
      <4>1. CASE OpenName
        <5>1. pc = "names" /\ pc' = "lines" BY <4>1 DEF OpenName
        <5>2. Named(i)' <=> Named(i) \/ batch[i].name = batch[named'].name
            BY <3>1, <4>1, NamedOpens
        <5> QED BY <1>4, <3>2, <4>1, <5>1, <5>2 DEF Opened
      <4>2. CASE WriteLine \/ SyncName
        <5>1. pc = "lines" /\ pc' \in {"lines", "names"} /\ named' = named
            BY <4>2 DEF WriteLine, SyncName
        <5> QED BY <1>4, <3>1, <5>1 DEF Opened, Named
      <4>3. CASE SyncNamesDir
        <5>1. pc = "names" /\ Named(i) BY <3>1, <4>3, AllNamed DEF SyncNamesDir
        <5> QED BY <5>1 DEF Opened
      <4> QED BY <2>5, <4>1, <4>2, <4>3 DEF LogStep
    <3> QED BY <1>1, <3>1, <3>2, <3>3, <3>4
  <2> QED BY <1>0, <2>1, <2>2, <2>3, <2>4, <2>5, StepKinds DEF QuietStep
<1>5. old' = acked'
  <2>1. CASE Signal BY <1>0, <2>1 DEF Signal
  <2>2. CASE ~Signal
    <3>1. old' = old /\ acked' = acked
        BY <1>0, <2>2, StepKinds, FrameOfSteps DEF QuietStep, Submit, Drain, FlushDone, avars
    <3> QED BY <1>1, <3>1
  <2> QED BY <2>1, <2>2
<1> QED BY <1>0, <1>1, <1>2, <1>3, <1>4, <1>5

-----------------------------------------------------------------------------
(* What is kept of the first life *)

\* Harm is never forgotten.
LEMMA HarmGrows ==
    ASSUME RecInv, Next
    PROVE  harm \subseteq harm'
<1>1. CASE Crash BY <1>1, CrashFacts DEF RecInv
<1>2. CASE ~Crash BY <1>2, StepKinds, FrameOfSteps
<1> QED BY <1>1, <1>2

\* A segment that is synced and has one behind it stays as it is.
LEMMA LowerStays ==
    ASSUME RecInv, Next, "wal" \notin harm', NEW s \in Segments, segs[s].exists,
           NEW u \in Segments, u < s, segs[u].synced = Len(segs[u].data)
    PROVE  segs'[u].data = segs[u].data /\ segs'[u].synced = segs[u].synced
<1> USE DEF RecInv
<1>0. RecTypes' BY TypeStep
<1>1. CASE QuietStep \/ LogStep BY <1>1, FrameOfSteps
<1>2. CASE SegStep
  <2>1. /\ segs'[u].data = IF WriteFrame /\ u = seq THEN segs[u].data \o Frame(batch[k + 1].row)
                           ELSE segs[u].data
        /\ segs'[u].synced = IF SyncSegment /\ u = seq THEN Len(segs[u].data) ELSE segs[u].synced
      BY <1>2, SegMove
  <2>2. WriteFrame => u # seq
    <3>1. SUFFICES ASSUME WriteFrame PROVE u # seq OBVIOUS
    <3>2. pc = "frames" /\ "wal" \notin harm BY <3>1, HarmGrows DEF WriteFrame
    <3>3. s <= seq BY <3>2 DEF SegmentsInOrder
    <3>4. s \in Nat /\ u \in Nat BY ReclogAssumption DEF Segments
    <3> QED BY <3>3, <3>4
  <2> QED BY <2>1, <2>2
<1>3. CASE Crash
  <2>1. PICK f \in FileOf(Cell) : f = segs[u] BY FilesTyped
  <2>2. PICK g \in FileOf(Cell) : g = segs'[u] BY <1>0 DEF RecTypes
  <2>3. Spares(f, g) BY <1>3, <2>1, <2>2, CrashFacts
  <2>4. f.data \in Seq(Cell) /\ g.data \in Seq(Cell) /\ Len(f.data) \in Nat /\ Len(g.data) \in Nat
      BY FileFacts
  <2>5. Len(g.data) = Len(f.data) /\ g.synced = f.synced BY <2>1, <2>3, <2>4 DEF Spares
  <2>6. g.data = f.data
    <3>1. \A i \in 1 .. Len(g.data) : g.data[i] = f.data[i] BY <2>3 DEF Spares
    <3> HIDE DEF Cell
    <3> QED BY <2>4, <2>5, <3>1, SeqEqual
  <2> QED BY <2>1, <2>2, <2>5, <2>6
<1> QED BY <1>1, <1>2, <1>3, StepKinds

\* What a rebuild cannot miss it cannot miss after a step either.
LEMMA ReachedStays ==
    ASSUME RecInv, Next, "wal" \notin harm', NEW r, ContentReached(r)
    PROVE  ContentReached(r)'
<1>1. PICK s \in Segments :
        /\ segs[s].exists
        /\ \E i \in 1 .. segs[s].synced :
            /\ 2 * i <= segs[s].synced
            /\ Parsed(segs[s].data, i) /\ FrameAt(segs[s].data, i, r)
        /\ \A u \in 0 .. (s - 1) :
            /\ segs[u].exists /\ segs[u].synced = Len(segs[u].data)
            /\ CleanEnd(segs[u].data)
    BY DEF ContentReached
<1>2. PICK f \in FileOf(Cell) : f = segs[s] BY FilesTyped DEF RecInv
<1>3. PICK g \in FileOf(Cell) : g = segs'[s] BY TypeStep DEF RecTypes
<1>4. Keeps(f, g) BY <1>2, <1>3, SegmentsKept
<1>5. PICK i \in 1 .. f.synced : 2 * i <= f.synced /\ Parsed(f.data, i) /\ FrameAt(f.data, i, r)
    BY <1>1, <1>2
<1>6. /\ f.synced \in Nat /\ g.synced \in Nat /\ f.synced <= g.synced /\ g.synced <= Len(g.data)
      /\ Len(g.data) \in Nat /\ \A x \in 1 .. f.synced : g.data[x] = f.data[x]
      /\ f.exists => g.exists
    BY <1>4, FileFacts DEF Keeps
<1>7. /\ i \in Nat \ {0} /\ 2 * i <= Len(g.data) /\ i \in 1 .. g.synced /\ 2 * i <= g.synced
      /\ \A x \in 1 .. 2 * i : g.data[x] = f.data[x]
    BY <1>5, <1>6
<1>8. FrameAt(g.data, i, r) BY <1>5, <1>7, FrameStays
<1>9. Parsed(g.data, i) BY <1>5, <1>6, <1>7, ParsedStays
<1>10. ASSUME NEW u \in 0 .. (s - 1)
       PROVE  /\ segs'[u].exists /\ segs'[u].synced = Len(segs'[u].data)
              /\ CleanEnd(segs'[u].data)
  <2>1. u \in Segments /\ u < s BY ReclogAssumption DEF Segments
  <2>2. segs'[u].data = segs[u].data /\ segs'[u].synced = segs[u].synced
      BY <1>1, <2>1, LowerStays
  <2>3. segs'[u].exists BY <1>1, <2>1, SegmentsKept DEF Keeps
  <2> QED BY <1>1, <2>2, <2>3
<1>11. /\ segs'[s].exists
       /\ \E j \in 1 .. segs'[s].synced :
            /\ 2 * j <= segs'[s].synced
            /\ Parsed(segs'[s].data, j) /\ FrameAt(segs'[s].data, j, r)
    BY <1>1, <1>2, <1>3, <1>6, <1>7, <1>8, <1>9
<1> QED BY <1>10, <1>11 DEF ContentReached

\* At the end of a flush of the first life a rebuild cannot miss what is synced.
LEMMA FirstReached ==
    ASSUME RecInv, crashes = 0, pc = "signal", NEW r, ContentSynced(r)
    PROVE  ContentReached(r)
<1> USE DEF RecInv
<1>1. PICK s \in Segments : HasSyncedFrame(segs[s], r) BY DEF ContentSynced
<1>2. PICK f \in FileOf(Cell) : f = segs[s] BY FilesTyped
<1>3. PICK i \in 1 .. f.synced : 2 * i <= f.synced /\ FrameAt(f.data, i, r)
    BY <1>1, <1>2 DEF HasSyncedFrame
<1>4. harm = {} /\ \A u \in Segments : segs[u].synced = Len(segs[u].data) BY DEF FirstLife
<1>5. \A u \in Segments : CleanEnd(segs[u].data) BY <1>4 DEF WholeFrames
<1>6. segs[s].exists /\ \A u \in 0 .. s : segs[u].exists
    BY <1>1, <1>4 DEF HasSyncedFrame, SegmentsInOrder
<1>7. Parsed(f.data, i)
  <2>1. PICK m \in 0 .. Len(f.data) : 2 * m = Len(f.data) /\ Parsed(f.data, m)
      BY <1>2, <1>5 DEF CleanEnd
  <2>2. f.synced \in Nat /\ Len(f.data) \in Nat /\ f.synced = Len(f.data) BY <1>2, <1>4, FileFacts
  <2>3. \A j \in 1 .. i : j \in 1 .. m BY <1>3, <2>1, <2>2
  <2> QED BY <2>1, <2>3 DEF Parsed
<1>8. ASSUME NEW u \in 0 .. (s - 1)
      PROVE  /\ segs[u].exists /\ segs[u].synced = Len(segs[u].data)
             /\ CleanEnd(segs[u].data)
  <2>1. u \in Segments /\ u \in 0 .. s BY ReclogAssumption DEF Segments
  <2> QED BY <1>4, <1>5, <1>6, <2>1
<1> QED BY <1>2, <1>3, <1>6, <1>7, <1>8 DEF ContentReached

\* What was acknowledged before the first crash stays within reach.
LEMMA OldStep ==
    ASSUME RecInv, Next
    PROVE  OldKept'
<1> USE DEF RecInv
<1> DEFINE Lined(n, r) == logs[n].exists /\ logs[n].entry /\ HasLine(logs[n], r)
<1> SUFFICES ASSUME "wal" \notin harm', NEW r \in old'
             PROVE  ContentReached(r)' /\ \E n \in Names : Lined(n, r)'
    BY DEF OldKept
<1>1. "wal" \notin harm BY HarmGrows
<1>2. CASE r \in old
  <2>1. ContentReached(r) /\ \E n \in Names : Lined(n, r) BY <1>1, <1>2 DEF OldKept
  <2>2. ContentReached(r)' BY <2>1, ReachedStays
  <2>3. PICK n \in Names : Lined(n, r) BY <2>1
  <2>4. PICK f \in FileOf(1 .. MaxRows) : f = logs[n] BY LogsKept
  <2>5. PICK g \in FileOf(1 .. MaxRows) : g = logs'[n] BY LogsKept
  <2>6. Keeps(f, g) BY <2>3, <2>4, <2>5, LogsKept
  <2>7. HasLine(g, r) BY <2>3, <2>4, <2>6, LineStays
  <2>8. g.exists /\ g.entry BY <2>3, <2>4, <2>6 DEF Keeps
  <2> QED BY <2>2, <2>5, <2>7, <2>8
<1>3. CASE r \notin old
  <2>1. Signal
    <3>1. ~Signal => old' = old BY StepKinds, FrameOfSteps DEF QuietStep, Submit, Drain, FlushDone, avars
    <3> QED BY <1>3, <3>1
  <2>2. crashes = 0 /\ r \in acked' BY <1>3, <2>1 DEF Signal
  <2>3. /\ segs' = segs /\ logs' = logs /\ pc = "signal" BY <2>1 DEF Signal, dvars
  <2>4. r = batch[1].row /\ 1 \in 1 .. Len(batch)
    <3>1. old = acked BY <2>2 DEF FirstLife
    <3>2. acked' = acked \union {batch[1].row} /\ Len(batch) > 0 /\ Len(batch) \in Nat
        BY <2>1, SignalFacts, RowFacts
    <3> QED BY <1>3, <2>2, <3>1, <3>2
  <2>5. ContentReached(r)
    <3>1. harm \subseteq {"names"} BY <2>2 DEF FirstLife
    <3>2. ContentSynced(r) BY <2>3, <2>4, <3>1 DEF ContentFirst
    <3> QED BY <2>2, <2>3, <3>2, FirstReached
  <2>6. PICK n \in Names : n = batch[1].name BY <2>4, RowFacts
  <2>7. Lined(n, r)
    <3>1. LineSynced(1) /\ Opened(1) BY <2>3 DEF LineSynced, Opened
    <3>2. HasLine(logs[n], r) BY <2>4, <2>6, <3>1 DEF LinesWritten
    <3>3. logs[n].exists BY <2>2, <2>4, <2>6, <3>1 DEF FirstLife
    <3>4. logs[n].entry BY <2>2, <2>3, <3>3 DEF FirstLife
    <3> QED BY <3>2, <3>3, <3>4
  <2>8. ContentReached(r)' BY <2>3, <2>5 DEF ContentReached
  <2> QED BY <2>3, <2>7, <2>8
<1> QED BY <1>2, <1>3

-----------------------------------------------------------------------------
(* The invariant *)

\* It holds at the start.
LEMMA RecInit ==
    ASSUME Init
    PROVE  RecInv
<1>0. MaxRows \in Nat /\ BatchCap \in Nat /\ MaxCrashes \in Nat BY ReclogAssumption
<1>1. /\ segs = [s \in Segments |-> NoFile] /\ logs = [n \in Names |-> NoFile]
      /\ rows = 0 /\ acked = {} /\ old = {} /\ harm = {} /\ crashes = 0
      /\ queue = << >> /\ batch = << >>
      /\ pc = "idle" /\ seq = 0 /\ isNew = FALSE /\ k = 0 /\ named = 0 /\ anyNew = FALSE
    BY DEF Init
<1>2. /\ NoFile.exists = FALSE /\ NoFile.data = << >> /\ NoFile.synced = 0 /\ NoFile.entry = FALSE
      /\ Len(NoFile.data) = 0
    BY DEF NoFile
<1>3. \A s \in Segments : segs[s] = NoFile BY <1>1
<1>4. \A n \in Names : logs[n] = NoFile BY <1>1
<1>5. Len(queue) = 0 /\ Len(batch) = 0 BY <1>1
<1>6. Bound = {} BY <1>2, <1>4 DEF Bound
<1>7. RecTypes
  <2>1. ASSUME NEW C PROVE NoFile \in FileOf(C)
    <3>1. << >> \in Seq(C) OBVIOUS
    <3> QED BY <3>1 DEF NoFile, FileOf
  <2>2. segs \in [Segments -> FileOf(Cell)] /\ logs \in [Names -> FileOf(1 .. MaxRows)]
      BY <1>1, <2>1
  <2>3. queue \in Seq(Items) /\ batch \in Seq(Items) BY <1>1
  <2>4. seq \in Segments BY <1>0, <1>1 DEF Segments
  <2>5. rows \in 0 .. MaxRows /\ crashes \in 0 .. MaxCrashes /\ k \in 0 .. BatchCap
        /\ named \in 0 .. BatchCap
      BY <1>0, <1>1
  <2> HIDE DEF Items
  <2> QED BY <1>1, <2>2, <2>3, <2>4, <2>5 DEF RecTypes
<1>8. JanitorPlaced BY <1>0, <1>1, <1>5 DEF JanitorPlaced
<1>9. RowsInOrder BY <1>2, <1>4, <1>5 DEF RowsInOrder
<1>10. BindsInSubmitOrder BY <1>2, <1>4 DEF BindsInSubmitOrder
<1>11. SegmentsInOrder BY <1>1, <1>2, <1>3 DEF SegmentsInOrder
<1>12. WholeFrames
  <2>1. CleanEnd(NoFile.data)
    <3>1. Parsed(NoFile.data, 0) BY DEF Parsed
    <3> QED BY <1>2, <3>1 DEF CleanEnd
  <2> QED BY <1>2, <1>3, <2>1 DEF WholeFrames
<1>13. ContentFirst BY <1>1, <1>6 DEF ContentFirst
<1>14. LinesWritten BY <1>1, <1>5 DEF LinesWritten
<1>15. FirstLife BY <1>1, <1>2, <1>3, <1>4, <1>5 DEF FirstLife
<1>16. OldKept BY <1>1 DEF OldKept
<1> QED BY <1>7, <1>8, <1>9, <1>10, <1>11, <1>12, <1>13, <1>14, <1>15, <1>16 DEF RecInv

\* A step that changes nothing preserves it.
LEMMA RecStutter ==
    ASSUME RecInv, UNCHANGED vars
    PROVE  RecInv'
<1>0. UNCHANGED <<segs, logs, rows, queue, batch, pc, seq, isNew, k, named, anyNew, acked, old,
                  harm, crashes>>
    BY DEF vars, dvars, jvars, avars
<1>1. RecTypes' BY <1>0 DEF RecInv, RecTypes
<1>2. JanitorPlaced' /\ SegmentsInOrder' /\ WholeFrames'
    BY <1>0 DEF RecInv, JanitorPlaced, SegmentsInOrder, WholeFrames
<1>3. BindsInSubmitOrder' BY <1>0 DEF RecInv, BindsInSubmitOrder
<1>4. ASSUME NEW i
      PROVE  (Written(i)' <=> Written(i)) /\ (LineSynced(i)' <=> LineSynced(i))
             /\ (Opened(i)' <=> Opened(i))
    BY <1>0 DEF Written, LineSynced, Opened, Named, Lines
<1>5. RowsInOrder' BY <1>0, <1>4 DEF RecInv, RowsInOrder
<1>6. LinesWritten' BY <1>0, <1>4 DEF RecInv, LinesWritten
<1>7. FirstLife' BY <1>0, <1>4 DEF RecInv, FirstLife
<1>8. ASSUME NEW r
      PROVE  (ContentSynced(r)' <=> ContentSynced(r)) /\ (ContentReached(r)' <=> ContentReached(r))
    BY <1>0 DEF ContentSynced, ContentReached
<1>9. OldKept' BY <1>0, <1>8 DEF RecInv, OldKept
<1>10. ContentFirst'
  <2>1. Bound' = Bound BY <1>0 DEF Bound
  <2>2. ASSUME NEW i PROVE ContentSynced(batch[i].row)' <=> ContentSynced(batch[i].row)
      BY <1>0 DEF ContentSynced
  <2> QED BY <1>0, <1>8, <2>1, <2>2 DEF RecInv, ContentFirst
<1> QED BY <1>1, <1>2, <1>3, <1>5, <1>6, <1>7, <1>9, <1>10 DEF RecInv

\* So the invariant is one.
LEMMA RecStep ==
    ASSUME RecInv, [Next]_vars
    PROVE  RecInv'
<1>1. CASE Next
    BY <1>1, TypeStep, PlacedStep, OrderStep, BindsStep, SegmentsStep, WholeStep, ContentStep,
       LinesStep, FirstStep, OldStep DEF RecInv
<1>2. CASE UNCHANGED vars BY <1>2, RecStutter
<1> QED BY <1>1, <1>2

-----------------------------------------------------------------------------
(* What it implies *)

\* Synced content is found by a rebuild if no tail was torn and no segment taken.
LEMMA ContentFound ==
    ASSUME RecInv, harm \subseteq {"names"}, NEW r \in 1 .. MaxRows, ContentSynced(r)
    PROVE  r \in WalkFrames
<1> USE DEF RecInv
<1>1. PICK s \in Segments : HasSyncedFrame(segs[s], r) BY DEF ContentSynced
<1>2. PICK f \in FileOf(Cell) : f = segs[s] BY FilesTyped
<1>3. PICK i \in 1 .. f.synced : 2 * i <= f.synced /\ FrameAt(f.data, i, r)
    BY <1>1, <1>2 DEF HasSyncedFrame
<1>4. \A u \in Segments : CleanEnd(segs[u].data) BY DEF WholeFrames
<1>5. f.synced \in Nat /\ Len(f.data) \in Nat /\ f.synced <= Len(f.data) BY FileFacts
<1>6. Parsed(f.data, i)
  <2>1. PICK m \in 0 .. Len(f.data) : 2 * m = Len(f.data) /\ Parsed(f.data, m)
      BY <1>2, <1>4 DEF CleanEnd
  <2>2. \A j \in 1 .. i : j \in 1 .. m BY <1>3, <1>5, <2>1
  <2> QED BY <2>1, <2>2 DEF Parsed
<1>7. Visited(s)
  <2>1. "wal" \notin harm /\ segs[s].exists BY <1>1 DEF HasSyncedFrame
  <2>2. \A u \in 0 .. s : segs[u].exists BY <2>1 DEF SegmentsInOrder
  <2>3. \A u \in 0 .. (s - 1) : u \in Segments BY ReclogAssumption DEF Segments
  <2> QED BY <1>4, <2>2, <2>3 DEF Visited
<1>8. i \in 1 .. Len(f.data) BY <1>3, <1>5
<1> QED BY <1>2, <1>3, <1>6, <1>7, <1>8 DEF WalkFrames

\* What a rebuild cannot miss it finds.
LEMMA ReachedFound ==
    ASSUME RecTypes, NEW r \in 1 .. MaxRows, ContentReached(r)
    PROVE  r \in WalkFrames
<1>1. PICK s \in Segments :
        /\ segs[s].exists
        /\ \E i \in 1 .. segs[s].synced :
            /\ 2 * i <= segs[s].synced
            /\ Parsed(segs[s].data, i) /\ FrameAt(segs[s].data, i, r)
        /\ \A u \in 0 .. (s - 1) :
            /\ segs[u].exists /\ segs[u].synced = Len(segs[u].data)
            /\ CleanEnd(segs[u].data)
    BY DEF ContentReached
<1>2. PICK f \in FileOf(Cell) : f = segs[s] BY FilesTyped
<1>3. PICK i \in 1 .. f.synced : Parsed(f.data, i) /\ FrameAt(f.data, i, r) BY <1>1, <1>2
<1>4. i \in 1 .. Len(f.data) BY <1>3, FileFacts
<1>5. Visited(s)
  <2>1. \A u \in 0 .. s : u = s \/ u \in 0 .. (s - 1) BY ReclogAssumption DEF Segments
  <2> QED BY <1>1, <2>1 DEF Visited
<1> QED BY <1>2, <1>3, <1>4, <1>5 DEF WalkFrames

\* A synced line is bound.
LEMMA LineBound ==
    ASSUME RecTypes, NEW n \in Names, NEW r, HasLine(logs[n], r)
    PROVE  r \in Bound
<1>1. PICK f \in FileOf(1 .. MaxRows) : f = logs[n] BY FilesTyped
<1>2. PICK x \in 1 .. f.synced : f.data[x] = r BY <1>1 DEF HasLine
<1>3. x \in 1 .. Len(f.data) BY <1>2, FileFacts
<1> QED BY <1>1, <1>2, <1>3, BoundFacts

\* The invariant gives every promise of write_batch_fused.
LEMMA RecPromises ==
    ASSUME RecInv
    PROVE  LogsKeepAcks
<1> USE DEF RecInv
<1>0. acked \subseteq 1 .. MaxRows /\ old \subseteq 1 .. MaxRows
    BY ReclogAssumption DEF RecTypes
<1>1. TypeOK
  <2>0. ASSUME NEW C, NEW f \in FileOf(C) PROVE FileOK(f, C)
      BY FileFacts DEF FileOK
  <2>1. \A s \in Segments :
            FileOK(segs[s], [row : 1 .. MaxRows, part : {"header", "payload"}])
      BY <2>0, FilesTyped DEF Cell
  <2>2. \A n \in Names : FileOK(logs[n], 1 .. MaxRows) BY <2>0, FilesTyped
  <2> QED BY <2>1, <2>2 DEF RecTypes, TypeOK
<1>2. AcksSurviveCrashes
  <2> SUFFICES ASSUME harm = {}, NEW r \in acked PROVE r \in WalkFrames /\ r \in Bound
      BY DEF AcksSurviveCrashes, EveryAckRecoverable
  <2>1. r \in WalkFrames BY <1>0, ContentFound DEF ContentFirst
  <2>2. r \in Bound BY LineBound DEF LinesWritten
  <2> QED BY <2>1, <2>2
<1>3. FirstLifeAcksRecoverable
  <2> SUFFICES ASSUME "wal" \notin harm, NEW r \in old PROVE r \in WalkFrames /\ r \in Bound
      BY DEF FirstLifeAcksRecoverable
  <2>1. ContentReached(r) /\ \E n \in Names : HasLine(logs[n], r) BY DEF OldKept
  <2> QED BY <1>0, <2>1, ReachedFound, LineBound
<1>4. BindNeverDangles
  <2> SUFFICES ASSUME harm \subseteq {"names"}, NEW r \in Bound PROVE r \in WalkFrames
      BY DEF BindNeverDangles
  <2>1. r \in 1 .. MaxRows
    <3>1. PICK n \in Names : \E x \in 1 .. Len(logs[n].data) : logs[n].data[x] = r
        BY BoundFacts
    <3>2. PICK f \in FileOf(1 .. MaxRows) : f = logs[n] BY FilesTyped
    <3>3. \A x \in 1 .. Len(f.data) : f.data[x] \in 1 .. MaxRows BY FileFacts
    <3> QED BY <3>1, <3>2, <3>3
  <2> QED BY <2>1, ContentFound DEF ContentFirst
<1> QED BY <1>1, <1>2, <1>3, <1>4 DEF LogsKeepAcks

\* reclog.rs: "the ack implies the row's content AND its PK binding are both
\* durable".  Whatever crashes follow, as long as they leave whole frames and
\* take no file, every acknowledged row is found again; torn tails and lost name
\* logs spare what the first life acknowledged; a line never outlives its
\* content while no tail is torn; the lines of a name are in the order of the
\* submissions.
THEOREM AcksKept == Spec => []LogsKeepAcks
<1>1. Init => RecInv BY RecInit
<1>2. RecInv /\ [Next]_vars => RecInv' BY RecStep
<1>3. RecInv => LogsKeepAcks BY RecPromises
<1> QED BY <1>1, <1>2, <1>3, PTL DEF Spec
=============================================================================
