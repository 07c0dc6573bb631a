---------------------------- MODULE StorageProofs ----------------------------
(***************************************************************************)
(* Proofs about the two writers of files that hold many records: ObjSeg,   *)
(* whose rows point at their objects and whose appends never overlap, for  *)
(* any number of threads, objects, puts, crashes and any size of segments  *)
(* and blocks; and SlabLock, for any block and record size and any number  *)
(* of records and deaths.                                                  *)
(***************************************************************************)
EXTENDS ObjSeg, SlabLock, Integers, FiniteSetTheorems, SequenceTheorems, TLAPS

-----------------------------------------------------------------------------
(* Object segments: the invariant *)

\* The SEG_WRITER lock is held from the reservation to the advance of the
\* cursor, the connection while a statement waits for its reply.
Holding == {"write", "sync", "advance"}
Done == {"commit", "reply"}

\* A range of n cells from pointer x lies behind the writer's position.
Behind(x, n) ==
    \/ x.seg < writer.seg
    \/ x.seg = writer.seg /\ x.off + n <= writer.cursor

\* Two ranges of cells have none in common.
Apart(x, n, y, m) == x.seg # y.seg \/ x.off + n <= y.off \/ y.off + m <= x.off

\* Locks and positions agree, one thread holds each lock, and before the
\* writer's position is recovered nobody has used it.
Positions ==
    /\ lock = {t \in Threads : pc[t] \in Holding}
    /\ conn = {t \in Threads : pc[t] = "reply"}
    /\ \A t, u \in Threads : pc[t] \in Holding /\ pc[u] \in Holding => t = u
    /\ \A t, u \in Threads : pc[t] = "reply" /\ pc[u] = "reply" => t = u
    /\ ~writer.known => \A t \in Threads : pc[t] \in {"idle", "lock"}
    /\ \A t \in Threads : pc[t] # "idle" => block[t] \in Packings

\* A statement that Postgres has not executed is that of the thread that waits.
StatementsKnown ==
    \A c \in sent : \E t \in Threads :
        pc[t] = "reply" /\ c = [block |-> block[t], base |-> base[t]]

\* Every roll to a next segment has a put of its own.
Waiting == {t \in Threads : pc[t] = "lock"}
SegsCounted ==
    /\ IsFiniteSet(Waiting)
    /\ writer.seg + Cardinality(Waiting) <= puts
    /\ \A a \in Addrs : rows[a] # NoRow => rows[a].seg + Cardinality(Waiting) <= puts

\* A range ends inside its segment.
RoomLeft ==
    /\ \A t \in Threads : pc[t] \in Holding => writer.cursor + Len(block[t]) <= SegCap + MaxBlock
    /\ \A t \in Threads : pc[t] \in Done => base[t].off + Len(block[t]) <= SegCap + MaxBlock
    /\ \A a \in Addrs : rows[a] # NoRow => rows[a].off + 1 <= SegCap + MaxBlock

\* So does the range of a statement whose client is dead, and its segment is counted.
LateFits ==
    \A c \in late : /\ c.base.seg + Cardinality(Waiting) <= puts
                     /\ c.base.off + Len(c.block) <= SegCap + MaxBlock

\* What has been appended, and was not committed late, lies behind the writer's
\* position.
AppendsBehind ==
    /\ writer.known => \A a \in Addrs \ doubtful : rows[a] # NoRow => Behind(rows[a], 1)
    /\ \A t \in Threads : pc[t] \in Done => Behind(base[t], Len(block[t]))

\* The row of object a is the one the statement of thread t has for it.
RowOf(t, a) ==
    \E i \in 1 .. Len(block[t]) :
        block[t][i] = a /\ rows[a] = [seg |-> base[t].seg, off |-> base[t].off + i - 1]

\* Ranges on their way to a commit are apart, and no row points into one of
\* them unless its own statement has put it there, or it was committed late.
AppendsApart ==
    /\ \A t, u \in Threads : pc[t] \in Done /\ pc[u] \in Done /\ t # u =>
            Apart(base[t], Len(block[t]), base[u], Len(block[u]))
    /\ \A t \in Threads, a \in Addrs \ doubtful : pc[t] \in Done /\ rows[a] # NoRow =>
            Apart(base[t], Len(block[t]), rows[a], 1) \/ (pc[t] = "reply" /\ RowOf(t, a))

\* The cell at an offset of a segment holds object a, unless it is spoilt.
HoldsAt(s, o, a) == disk[s][o] = a \/ [seg |-> s, off |-> o] \in spoilt

\* The cells hold what was written, for ranges on their way and for rows, and
\* only the append in front of its fsync has cells that a crash can take.
CellsHold ==
    /\ \A t \in Threads : pc[t] \in Done => \A i \in 1 .. Len(block[t]) :
            HoldsAt(base[t].seg, base[t].off + i - 1, block[t][i])
    /\ \A t \in Threads : pc[t] \in {"sync", "advance"} => \A i \in 1 .. Len(block[t]) :
            HoldsAt(writer.seg, writer.cursor + i - 1, block[t][i])
    /\ \A a \in Addrs \ doubtful : rows[a] # NoRow => HoldsAt(rows[a].seg, rows[a].off, a)
DirtyAhead ==
    \A d \in dirty : /\ d.seg = writer.seg /\ d.off >= writer.cursor
                     /\ \E t \in Threads : pc[t] = "sync"

SegInv ==
    /\ TypeOK /\ Positions /\ StatementsKnown /\ SegsCounted /\ RoomLeft /\ LateFits
    /\ AppendsBehind /\ AppendsApart /\ CellsHold /\ DirtyAhead

-----------------------------------------------------------------------------
(* Numbers, blocks and positions *)

\* A block is a sequence of one to MaxBlock distinct objects.
LEMMA PackingFacts ==
    ASSUME NEW b \in Packings
    PROVE  /\ b \in Seq(Addrs) /\ Len(b) \in Nat /\ 1 <= Len(b) /\ Len(b) <= MaxBlock
           /\ \A i \in 1 .. Len(b) : b[i] \in Addrs
           /\ \A i, j \in 1 .. Len(b) : b[i] = b[j] => i = j
  <1>1. PICK n \in 1 .. MaxBlock : /\ b \in [1 .. n -> Addrs]
                                   /\ \A i, j \in 1 .. n : i # j => b[i] # b[j]
    BY DEF Packings
  <1>2. MaxBlock \in Nat
    BY ObjSegAssumption
  <1>3. n \in Nat /\ 1 <= n /\ n <= MaxBlock
    BY <1>2
  <1>4. b \in Seq(Addrs) /\ Len(b) = n
    BY <1>1, <1>3
  <1>. QED BY <1>1, <1>3, <1>4

\* The numbers of a well-typed state.
LEMMA Numbers ==
    ASSUME TypeOK
    PROVE  /\ SegCap \in Nat /\ MaxBlock \in Nat /\ MaxPuts \in Nat /\ puts \in Nat
           /\ writer.seg \in Nat /\ writer.cursor \in Nat /\ writer.known \in BOOLEAN
           /\ writer = [known |-> writer.known, seg |-> writer.seg, cursor |-> writer.cursor]
           /\ writer.cursor <= SegCap + MaxBlock
           /\ \A t \in Threads : /\ base[t].seg \in Nat /\ base[t].off \in Nat
                                 /\ base[t] = [seg |-> base[t].seg, off |-> base[t].off]
                                 /\ Len(block[t]) \in Nat
           /\ \A a \in Addrs : rows[a] # NoRow =>
                /\ rows[a].seg \in Nat /\ rows[a].off \in Nat
                /\ rows[a] = [seg |-> rows[a].seg, off |-> rows[a].off]
           /\ \A c \in sent \union late :
                /\ c.base.seg \in Nat /\ c.base.off \in Nat /\ Len(c.block) \in Nat
                /\ c.block \in Packings /\ c.base \in Pointers
  <1>1. SegCap \in Nat /\ MaxBlock \in Nat /\ MaxPuts \in Nat
    BY ObjSegAssumption
  <1>2. \A x \in Pointers : x.seg \in Nat /\ x.off \in Nat /\ x = [seg |-> x.seg, off |-> x.off]
    BY <1>1 DEF Pointers, Segs, Offs
  <1>3. \A t \in Threads : base[t] \in Pointers /\ block[t] \in Packings \union {<< >>}
    BY DEF TypeOK
  <1>4. \A t \in Threads : Len(block[t]) \in Nat
    BY <1>3, PackingFacts
  <1>5. \A a \in Addrs : rows[a] # NoRow => rows[a] \in Pointers
    BY DEF TypeOK
  <1>6. /\ writer.seg \in Nat /\ writer.cursor \in Nat /\ writer.known \in BOOLEAN
        /\ writer = [known |-> writer.known, seg |-> writer.seg, cursor |-> writer.cursor]
        /\ writer.cursor <= SegCap + MaxBlock
    BY <1>1 DEF TypeOK, Segs, Offs
  <1>7. puts \in Nat
    BY <1>1 DEF TypeOK
  <1>8. \A c \in sent \union late :
            c.block \in Packings /\ c.base \in Pointers /\ Len(c.block) \in Nat
    BY PackingFacts DEF TypeOK
  <1>. QED BY <1>1, <1>2, <1>3, <1>4, <1>5, <1>6, <1>7, <1>8

\* A pointer is a segment and an offset inside the bounds.
LEMMA PointerBounds ==
    ASSUME NEW s \in Nat, NEW o \in Nat, s <= MaxPuts, o <= SegCap + MaxBlock
    PROVE  [seg |-> s, off |-> o] \in Pointers
  BY ObjSegAssumption DEF Pointers, Segs, Offs

\* One thread moves.
LEMMA Moves ==
    ASSUME TypeOK, NEW t \in Threads, NEW l, GoTo(t, l)
    PROVE  /\ pc'[t] = l
           /\ \A u \in Threads : u # t => pc'[u] = pc[u]
  BY DEF TypeOK, GoTo

\* Where no cell, row or position changes, the cells hold what they held.
LEMMA CellsKept ==
    ASSUME CellsHold, UNCHANGED <<disk, spoilt, rows, doubtful, writer>>,
           \A u \in Threads : /\ pc'[u] \in Done =>
                                 pc[u] \in Done /\ block'[u] = block[u] /\ base'[u] = base[u]
                              /\ pc'[u] \in {"sync", "advance"} =>
                                 pc[u] \in {"sync", "advance"} /\ block'[u] = block[u]
    PROVE  CellsHold'
  BY DEF CellsHold, HoldsAt

\* Where no thread comes to wait, dead clients' statements still fit.
LEMMA LateKept ==
    ASSUME LateFits, late' = late, puts' = puts, IsFiniteSet(Waiting), Waiting' \subseteq Waiting,
           TypeOK
    PROVE  LateFits'
  <1>1. Cardinality(Waiting') \in Nat /\ Cardinality(Waiting) \in Nat /\ Cardinality(Waiting') <= Cardinality(Waiting)
    BY FS_Subset, FS_CardinalityType
  <1>2. puts \in Nat /\ \A c \in late : c.base.seg \in Nat
    BY ObjSegAssumption DEF TypeOK, Pointers, Segs
  <1>3. ASSUME NEW c \in late PROVE c.base.seg + Cardinality(Waiting') <= puts
    <2>1. c.base.seg + Cardinality(Waiting) <= puts /\ c.base.seg \in Nat
      BY <1>2 DEF LateFits
    <2>. QED BY ONLY <1>1, <1>2, <2>1
  <1>. QED BY <1>3 DEF LateFits

\* Where no range joins those on their way and no row comes, they stay apart.
LEMMA ApartKept ==
    ASSUME AppendsApart, rows' = rows, doubtful' = doubtful,
           \A u \in Threads : pc'[u] \in Done =>
             /\ pc[u] \in Done /\ (pc[u] = "reply" => pc'[u] = "reply")
             /\ block'[u] = block[u] /\ base'[u] = base[u]
    PROVE  AppendsApart'
  <1>1. ASSUME NEW t \in Threads, NEW u \in Threads, pc'[t] \in Done, pc'[u] \in Done, t # u
        PROVE  Apart(base[t], Len(block[t]), base[u], Len(block[u]))'
    BY <1>1 DEF AppendsApart, Apart
  <1>2. ASSUME NEW t \in Threads, NEW a \in Addrs \ doubtful, pc'[t] \in Done, rows'[a] # NoRow
        PROVE  Apart(base[t], Len(block[t]), rows[a], 1)' \/ (pc'[t] = "reply" /\ RowOf(t, a)')
    <2>1. Apart(base[t], Len(block[t]), rows[a], 1) \/ (pc[t] = "reply" /\ RowOf(t, a))
      BY <1>2 DEF AppendsApart
    <2>2. Apart(base[t], Len(block[t]), rows[a], 1)' <=> Apart(base[t], Len(block[t]), rows[a], 1)
      BY <1>2 DEF Apart
    <2>3. RowOf(t, a)' <=> RowOf(t, a)
      BY <1>2 DEF RowOf
    <2>. QED BY <1>2, <2>1, <2>2, <2>3
  <1>. QED BY <1>1, <1>2 DEF AppendsApart

-----------------------------------------------------------------------------
(* The first state *)

\* A fresh store: no rows, no position, nobody appending.
LEMMA SegInit == Init => SegInv
  <1>. SUFFICES ASSUME Init PROVE SegInv
    OBVIOUS
  <1>1. {SegCap, MaxBlock, MaxPuts, MaxShort, MaxCrashes} \subseteq Nat
    BY ObjSegAssumption
  <1>2. TypeOK
    <2>1. 0 \in Segs /\ 0 \in Offs /\ 0 \in 0 .. MaxPuts /\ 0 \in 0 .. MaxShort /\ 0 \in 0 .. MaxCrashes
      BY <1>1 DEF Segs, Offs
    <2>2. Nowhere \in Pointers /\ writer \in [known : BOOLEAN, seg : Segs, cursor : Offs]
      BY <2>1 DEF Init, Nowhere, NoWriter, Pointers
    <2>. QED BY <2>1, <2>2 DEF Init, TypeOK
  <1>3. Waiting = {}
    BY DEF Init, Waiting
  <1>4. SegsCounted
    BY <1>3, FS_EmptySet DEF Init, SegsCounted, NoWriter
  <1>5. Positions /\ StatementsKnown
    BY DEF Init, Positions, StatementsKnown, Holding, NoWriter
  <1>6. RoomLeft /\ LateFits /\ AppendsBehind /\ AppendsApart /\ CellsHold /\ DirtyAhead
    BY DEF Init, RoomLeft, LateFits, AppendsBehind, AppendsApart, CellsHold, DirtyAhead, Holding, Done
  <1>. QED BY <1>2, <1>4, <1>5, <1>6 DEF SegInv

-----------------------------------------------------------------------------
(* The steps *)

\* pg_bytes_put or pg_obj_block_put is called: one more thread, and one more put.
LEMMA PutStep ==
    ASSUME SegInv, NEW t \in Threads, Put(t)
    PROVE  SegInv'
  <1>. USE DEF SegInv, media, segNames, pgvars
  <1>1. /\ pc[t] = "idle" /\ pc'[t] = "lock"
        /\ \A u \in Threads : u # t => pc'[u] = pc[u] /\ block'[u] = block[u]
        /\ block'[t] \in Packings
        /\ UNCHANGED <<media, segNames, pgvars, writer, lock, conn, base, shorts, crashes>>
    BY Moves DEF Put, TypeOK
  <1>2. TypeOK'
    <2>1. block' \in [Threads -> Packings \union {<< >>}]
      BY DEF Put, TypeOK
    <2>2. puts' \in 0 .. MaxPuts
      BY Numbers DEF Put
    <2>3. pc' \in [Threads -> {"idle", "lock", "write", "sync", "advance", "commit", "reply"}]
      BY DEF Put, GoTo, TypeOK
    <2>. QED BY <1>1, <2>1, <2>2, <2>3 DEF TypeOK
  <1>3. Positions'
    BY <1>1 DEF Positions, Holding
  <1>4. StatementsKnown'
    BY <1>1 DEF StatementsKnown
  <1>5. SegsCounted' /\ LateFits'
    <2>1. Waiting' = Waiting \union {t} /\ t \notin Waiting
      BY <1>1 DEF Waiting
    <2>2. /\ IsFiniteSet(Waiting') /\ Cardinality(Waiting') = Cardinality(Waiting) + 1
          /\ Cardinality(Waiting) \in Nat
      BY <2>1, FS_AddElement, FS_CardinalityType DEF SegsCounted
    <2>3. puts' = puts + 1
      BY DEF Put
    <2>4. writer.seg + Cardinality(Waiting') <= puts'
      BY <2>2, <2>3, Numbers DEF SegsCounted
    <2>5. ASSUME NEW a \in Addrs, rows[a] # NoRow PROVE rows[a].seg + Cardinality(Waiting') <= puts'
      <3>1. rows[a].seg \in Nat /\ puts \in Nat /\ rows[a].seg + Cardinality(Waiting) <= puts
        BY <2>5, Numbers DEF SegsCounted
      <3>. QED BY ONLY <2>2, <2>3, <3>1
    <2>6. ASSUME NEW c \in late PROVE c.base.seg + Cardinality(Waiting') <= puts'
      <3>1. c.base.seg \in Nat /\ puts \in Nat /\ c.base.seg + Cardinality(Waiting) <= puts
        BY Numbers DEF LateFits
      <3>. QED BY ONLY <2>2, <2>3, <3>1
    <2>. QED BY <1>1, <2>2, <2>4, <2>5, <2>6 DEF SegsCounted, LateFits
  <1>6. RoomLeft' /\ AppendsBehind' /\ DirtyAhead'
    BY <1>1 DEF RoomLeft, AppendsBehind, Behind, DirtyAhead, Holding, Done
  <1>7. AppendsApart'
    BY <1>1, ApartKept DEF Done
  <1>8. CellsHold'
    BY <1>1, CellsKept DEF Done
  <1>. QED BY <1>2, <1>3, <1>4, <1>5, <1>6, <1>7, <1>8

\* A bounded set of numbers has a maximum: among the finite sets of the numbers
\* above each of them one is smallest.
LEMMA MaxFacts ==
    ASSUME NEW S \in SUBSET Nat, S # {}, NEW b \in Nat, \A x \in S : x <= b
    PROVE  Max(S) \in S /\ \A y \in S : y <= Max(S)
  <1>. DEFINE F == {(x + 1) .. b : x \in S}
              R == StrictSubsetOrdering(Nat)
              U == FiniteSubsetsOf(Nat)
  <1>1. IsWellFoundedOn(R, U)
    BY FS_StrictSubsetOrderingWellFounded
  <1>2. F \subseteq U /\ F # {}
    <2>1. \A x \in S : IsFiniteSet((x + 1) .. b) /\ (x + 1) .. b \subseteq Nat
      BY FS_Interval
    <2>. QED BY <2>1 DEF FiniteSubsetsOf
  <1>3. PICK s \in F : \A t \in F : ~ (<<t, s>> \in R)
    <2>. HIDE DEF R, U, F
    <2>. QED BY <1>1, <1>2, WFMin
  <1>4. PICK m \in S : s = (m + 1) .. b
    OBVIOUS
  <1>5. ASSUME NEW y \in S PROVE y <= m
    <2>1. <<(y + 1) .. b, (m + 1) .. b>> \notin R
      BY <1>3, <1>4
    <2>2. ASSUME m < y PROVE FALSE
      <3>1. (y + 1) .. b \subseteq (m + 1) .. b /\ y \in (m + 1) .. b /\ y \notin (y + 1) .. b
        BY <2>2
      <3>2. (y + 1) .. b # (m + 1) .. b
        BY <3>1
      <3>3. (y + 1) .. b \in SUBSET Nat /\ (m + 1) .. b \in SUBSET Nat
        OBVIOUS
      <3>. QED BY <2>1, <3>1, <3>2, <3>3 DEF StrictSubsetOrdering
    <2>. QED BY <2>2
  <1>6. \A y \in S : m >= y
    BY <1>5
  <1>. HIDE DEF F, R, U
  <1>7. Max(S) \in S /\ \A y \in S : Max(S) >= y
    BY <1>6 DEF Max
  <1>. QED BY <1>7

\* recover_seg_writer: the position it finds is inside the bounds and behind no row.
LEMMA RecoveredFacts ==
    ASSUME TypeOK, RoomLeft, SegsCounted
    PROVE  /\ Recovered.known = TRUE /\ Recovered \in [known : BOOLEAN, seg : Segs, cursor : Offs]
           /\ Recovered.seg + Cardinality(Waiting) <= puts
           /\ \A a \in Addrs : rows[a] # NoRow =>
                \/ rows[a].seg < Recovered.seg
                \/ rows[a].seg = Recovered.seg /\ rows[a].off + 1 <= Recovered.cursor
  <1>. DEFINE held == {rows[a] : a \in {x \in Addrs : rows[x] # NoRow}}
              segs == {x.seg : x \in held}
              last == Max(segs)
              ends == {x.off + 1 : x \in {y \in held : y.seg = last}}
  <1>1. /\ MaxPuts \in Nat /\ SegCap \in Nat /\ MaxBlock \in Nat
        /\ puts \in Nat /\ puts <= MaxPuts /\ Cardinality(Waiting) \in Nat
    BY Numbers, FS_CardinalityType DEF TypeOK, SegsCounted
  <1>2. CASE held = {}
    <2>1. Recovered = [known |-> TRUE, seg |-> 0, cursor |-> 0]
      BY <1>2 DEF Recovered, NoWriter
    <2>2. \A a \in Addrs : rows[a] = NoRow
      BY <1>2
    <2>3. 0 \in Segs /\ 0 \in Offs
      BY <1>1 DEF Segs, Offs
    <2>4. 0 + Cardinality(Waiting) <= puts
      BY <1>1, Numbers DEF SegsCounted
    <2>. QED BY <2>1, <2>2, <2>3, <2>4
  <1>3. CASE held # {}
    <2>1. Recovered = [known |-> TRUE, seg |-> last, cursor |-> Max(ends)]
      BY <1>3 DEF Recovered
    <2>2. \A x \in held : \E a \in Addrs : rows[a] # NoRow /\ x = rows[a]
      OBVIOUS
    <2>3. \A x \in held : /\ x.seg \in Nat /\ x.off \in Nat /\ x.seg <= puts
                          /\ x.off + 1 <= SegCap + MaxBlock /\ x.seg + Cardinality(Waiting) <= puts
      <3>1. SUFFICES ASSUME NEW a \in Addrs, rows[a] # NoRow
                     PROVE  /\ rows[a].seg \in Nat /\ rows[a].off \in Nat /\ rows[a].seg <= puts
                            /\ rows[a].off + 1 <= SegCap + MaxBlock
                            /\ rows[a].seg + Cardinality(Waiting) <= puts
        BY <2>2
      <3>2. rows[a].seg \in Nat /\ rows[a].off \in Nat
        BY <3>1, Numbers
      <3>3. rows[a].off + 1 <= SegCap + MaxBlock /\ rows[a].seg + Cardinality(Waiting) <= puts
        BY <3>1 DEF SegsCounted, RoomLeft
      <3>. QED BY ONLY <1>1, <3>2, <3>3
    <2>. HIDE DEF held
    <2>4. last \in segs /\ \A y \in segs : y <= last
      <3>1. segs \in SUBSET Nat /\ segs # {} /\ \A x \in segs : x <= puts
        BY <1>3, <2>3
      <3>. HIDE DEF segs
      <3>. QED BY <1>1, <3>1, MaxFacts
    <2>5. PICK z \in held : z.seg = last
      BY <2>4
    <2>. HIDE DEF last
    <2>6. Max(ends) \in ends /\ \A y \in ends : y <= Max(ends)
      <3>1. ends \in SUBSET Nat /\ ends # {} /\ \A x \in ends : x <= SegCap + MaxBlock
        BY <2>3, <2>5
      <3>2. SegCap + MaxBlock \in Nat
        BY <1>1
      <3>. HIDE DEF ends
      <3>. QED BY <3>1, <3>2, MaxFacts
    <2>7. last \in Segs /\ Max(ends) \in Offs /\ last + Cardinality(Waiting) <= puts
      <3>1. last \in Nat /\ last <= puts /\ last + Cardinality(Waiting) <= puts
        BY <2>3, <2>5
      <3>2. Max(ends) \in Nat /\ Max(ends) <= SegCap + MaxBlock
        BY <2>3, <2>6
      <3>. QED BY <1>1, <3>1, <3>2 DEF Segs, Offs
    <2>8. ASSUME NEW a \in Addrs, rows[a] # NoRow
          PROVE  rows[a].seg < last \/ (rows[a].seg = last /\ rows[a].off + 1 <= Max(ends))
      <3>1. rows[a] \in held
        BY <2>8 DEF held
      <3>2. rows[a].seg <= last /\ rows[a].seg \in Nat /\ last \in Nat
        BY <2>3, <2>4, <2>5, <3>1
      <3>3. ASSUME rows[a].seg = last PROVE rows[a].off + 1 <= Max(ends)
        BY <2>6, <3>1, <3>3
      <3>. QED BY <3>2, <3>3
    <2>. QED BY <2>1, <2>7, <2>8
  <1>. QED BY <1>2, <1>3

\* RecoverSegWriter: nobody has appended since the start, and the position
\* found is behind every row.
LEMMA RecoverStep ==
    ASSUME SegInv, NEW t \in Threads, RecoverSegWriter(t)
    PROVE  SegInv'
  <1>. USE DEF SegInv, media, segNames, pgvars
  <1>1. /\ writer' = Recovered /\ segFiles' = segFiles \union {Recovered.seg}
        /\ fresh' = fresh \union ({Recovered.seg} \ segFiles)
        /\ UNCHANGED <<media, pgvars, lock, conn, pc, block, base, puts, shorts, crashes>>
    BY DEF RecoverSegWriter, Prealloc, tvars
  <1>2. \A u \in Threads : pc[u] \notin Holding /\ pc[u] \notin Done /\ pc[u] # "sync"
    BY DEF RecoverSegWriter, Positions, Holding, Done
  <1>3. dirty = {}
    BY <1>2 DEF DirtyAhead
  <1>4. TypeOK'
    BY <1>1, RecoveredFacts DEF TypeOK
  <1>5. Positions' /\ StatementsKnown'
    BY <1>1, RecoveredFacts DEF Positions, StatementsKnown
  <1>6. SegsCounted' /\ LateFits'
    <2>1. Waiting' = Waiting
      BY <1>1 DEF Waiting
    <2>. QED BY <1>1, <2>1, RecoveredFacts DEF SegsCounted, LateFits
  <1>7. RoomLeft' /\ AppendsBehind' /\ DirtyAhead'
    BY <1>1, <1>2, <1>3, RecoveredFacts DEF RoomLeft, AppendsBehind, Behind, DirtyAhead
  <1>8. AppendsApart'
    BY <1>1, ApartKept
  <1>9. CellsHold'
    BY <1>1, <1>2 DEF CellsHold, HoldsAt, Holding
  <1>. QED BY <1>4, <1>5, <1>6, <1>7, <1>8, <1>9

\* Reserve: the lock is free, and a roll moves the position forward to a
\* segment that this put has counted.
LEMMA ReserveStep ==
    ASSUME SegInv, NEW t \in Threads, Reserve(t)
    PROVE  SegInv'
  <1>. USE DEF SegInv, media, segNames, pgvars
  <1>1. /\ pc[t] = "lock" /\ writer.known /\ lock = {} /\ lock' = {t} /\ pc'[t] = "write"
        /\ \A u \in Threads : u # t => pc'[u] = pc[u]
        /\ UNCHANGED <<media, pgvars, conn, block, base, puts, shorts, crashes>>
        /\ \/ UNCHANGED segNames
           \/ /\ segFiles' = segFiles \union {writer'.seg}
              /\ fresh' = fresh \union ({writer'.seg} \ segFiles)
    BY Moves DEF Reserve, Prealloc
  <1>2. \A u \in Threads : pc[u] \notin Holding
    BY <1>1 DEF Positions
  <1>3. block[t] \in Packings
    BY <1>1 DEF Positions
  <1>4. Len(block[t]) \in Nat /\ Len(block[t]) <= MaxBlock
    BY <1>3, PackingFacts
  <1>5. /\ IsFiniteSet(Waiting') /\ Cardinality(Waiting') = Cardinality(Waiting) - 1
        /\ Cardinality(Waiting) \in Nat /\ Cardinality(Waiting') \in Nat
    <2>1. Waiting' = Waiting \ {t} /\ t \in Waiting
      BY <1>1 DEF Waiting
    <2>2. IsFiniteSet(Waiting)
      BY DEF SegsCounted
    <2>. QED BY <2>1, <2>2, FS_RemoveElement, FS_CardinalityType
  <1>6. /\ writer.seg + Cardinality(Waiting) <= puts /\ puts \in Nat /\ puts <= MaxPuts
        /\ SegCap \in Nat /\ MaxBlock \in Nat /\ MaxPuts \in Nat
        /\ writer.seg \in Nat /\ writer.cursor \in Nat /\ writer.cursor <= SegCap + MaxBlock
    BY Numbers DEF SegsCounted, TypeOK
  <1>7. PICK s \in Nat, k \in Nat :
           /\ writer' = [known |-> TRUE, seg |-> s, cursor |-> k]
           /\ \/ s = writer.seg + 1 /\ k = 0
              \/ s = writer.seg /\ k = writer.cursor
           /\ k = 0 \/ k + Len(block[t]) <= SegCap
    <2>1. CASE writer.cursor > 0 /\ writer.cursor + Len(block[t]) > SegCap
      <3>1. writer' = [known |-> TRUE, seg |-> writer.seg + 1, cursor |-> 0]
        BY <1>1, <2>1, Numbers DEF Reserve
      <3>2. writer.seg + 1 \in Nat /\ 0 \in Nat
        BY <1>6
      <3>. QED BY <3>1, <3>2
    <2>2. CASE ~(writer.cursor > 0 /\ writer.cursor + Len(block[t]) > SegCap)
      <3>1. writer' = [known |-> TRUE, seg |-> writer.seg, cursor |-> writer.cursor]
        BY <1>1, <2>2, Numbers DEF Reserve
      <3>2. writer.cursor = 0 \/ writer.cursor + Len(block[t]) <= SegCap
        BY <1>4, <1>6, <2>2
      <3>. QED BY <1>6, <3>1, <3>2
    <2>. QED BY <2>1, <2>2
  <1>8. writer'.known = TRUE /\ writer'.seg = s /\ writer'.cursor = k
    BY <1>7
  <1>9. s + Cardinality(Waiting') <= puts /\ s <= MaxPuts
    BY <1>5, <1>6, <1>7
  <1>10. k + Len(block[t]) <= SegCap + MaxBlock /\ k <= SegCap + MaxBlock
    BY ONLY <1>4, <1>6, <1>7
  <1>11. TypeOK'
    <2>1. writer' \in [known : BOOLEAN, seg : Segs, cursor : Offs]
      BY <1>6, <1>7, <1>9, <1>10 DEF Segs, Offs
    <2>2. pc' \in [Threads -> {"idle", "lock", "write", "sync", "advance", "commit", "reply"}]
      BY DEF Reserve, GoTo, TypeOK
    <2>3. writer'.seg \in Segs
      BY <2>1
    <2>4. {segFiles, fresh}' \subseteq SUBSET Segs
      BY <1>1, <2>3 DEF TypeOK
    <2>. QED BY <1>1, <2>1, <2>2, <2>4 DEF TypeOK
  <1>12. Positions'
    BY <1>1, <1>2, <1>3, <1>8 DEF Positions, Holding
  <1>13. StatementsKnown'
    BY <1>1 DEF StatementsKnown
  <1>14. SegsCounted'
    <2>1. ASSUME NEW a \in Addrs, rows[a] # NoRow PROVE rows[a].seg + Cardinality(Waiting') <= puts
      <3>1. rows[a].seg + Cardinality(Waiting) <= puts /\ rows[a].seg \in Nat
        BY <2>1, Numbers DEF SegsCounted
      <3>. QED BY ONLY <1>5, <1>6, <3>1
    <2>. QED BY <1>1, <1>5, <1>8, <1>9, <2>1 DEF SegsCounted
  <1>15. RoomLeft' /\ LateFits'
    <2>1. Waiting' \subseteq Waiting
      BY <1>1 DEF Waiting
    <2>2. LateFits'
      BY <1>1, <2>1, LateKept DEF SegsCounted
    <2>. QED BY <1>1, <1>2, <1>8, <1>10, <2>2 DEF RoomLeft, Holding, Done
  <1>16. AppendsBehind'
    <2>1. ASSUME NEW x, NEW n, x.seg \in Nat, Behind(x, n) PROVE Behind(x, n)'
      BY <1>6, <1>7, <1>8, <2>1 DEF Behind
    <2>2. ASSUME NEW a \in Addrs \ doubtful, rows[a] # NoRow PROVE Behind(rows[a], 1)'
      BY <1>1, <2>1, <2>2, Numbers DEF AppendsBehind
    <2>3. ASSUME NEW u \in Threads, pc'[u] \in Done PROVE Behind(base[u], Len(block[u]))'
      BY <1>1, <2>1, <2>3, Numbers DEF AppendsBehind, Done
    <2>. QED BY <1>1, <2>2, <2>3 DEF AppendsBehind
  <1>17. AppendsApart'
    BY <1>1, ApartKept DEF Done
  <1>18. CellsHold'
    BY <1>1, <1>2 DEF CellsHold, HoldsAt, Done, Holding
  <1>19. DirtyAhead'
    BY <1>1, <1>2 DEF DirtyAhead, Holding
  <1>. QED BY <1>11, <1>12, <1>13, <1>14, <1>15, <1>16, <1>17, <1>18, <1>19

\* A step of a thread at or past its reservation does not change who waits.
LEMMA CountKept ==
    ASSUME SegsCounted, LateFits, late' = late, NEW t \in Threads, pc[t] # "lock", pc'[t] # "lock",
           \A u \in Threads : u # t => pc'[u] = pc[u],
           writer'.seg = writer.seg, rows' = rows, puts' = puts
    PROVE  SegsCounted' /\ LateFits'
  <1>1. Waiting' = Waiting
    BY DEF Waiting
  <1>. QED BY <1>1 DEF SegsCounted, LateFits

\* SyncData: what was dirty is the append of the thread that syncs.
LEMMA SyncStep ==
    ASSUME SegInv, NEW t \in Threads, SyncData(t)
    PROVE  SegInv'
  <1>. USE DEF SegInv, media, segNames, pgvars
  <1>1. /\ pc[t] = "sync" /\ pc'[t] = "advance"
        /\ \A u \in Threads : u # t => pc'[u] = pc[u]
        /\ UNCHANGED <<disk, spoilt, segNames, pgvars, writer, lock, conn, block, base, puts, shorts, crashes>>
    BY Moves DEF SyncData
  <1>2. dirty' = {}
    BY DEF SyncData, DirtyAhead
  <1>3. TypeOK'
    <2>1. pc' \in [Threads -> {"idle", "lock", "write", "sync", "advance", "commit", "reply"}]
      BY DEF SyncData, GoTo, TypeOK
    <2>. QED BY <1>1, <1>2, <2>1 DEF TypeOK
  <1>4. Positions'
    BY <1>1 DEF Positions, Holding
  <1>5. StatementsKnown' /\ SegsCounted' /\ LateFits' /\ DirtyAhead'
    BY <1>1, <1>2, CountKept DEF StatementsKnown, DirtyAhead
  <1>6. RoomLeft' /\ AppendsBehind'
    BY <1>1 DEF RoomLeft, AppendsBehind, Behind, Holding, Done
  <1>7. AppendsApart'
    BY <1>1, ApartKept DEF Done
  <1>8. CellsHold'
    BY <1>1, CellsKept DEF Done
  <1>. QED BY <1>3, <1>4, <1>5, <1>6, <1>7, <1>8

\* SendCommit: the connection is free, so no other statement is on its way.
LEMMA SendStep ==
    ASSUME SegInv, NEW t \in Threads, SendCommit(t)
    PROVE  SegInv'
  <1>. USE DEF SegInv, media, segNames, pgvars
  <1>1. /\ pc[t] = "commit" /\ pc'[t] = "reply" /\ conn = {} /\ conn' = {t}
        /\ \A u \in Threads : u # t => pc'[u] = pc[u]
        /\ sent' = sent \union {[block |-> block[t], base |-> base[t]]}
        /\ UNCHANGED <<media, segNames, rows, late, doubtful, writer, lock, block, base, puts, shorts, crashes>>
    BY Moves DEF SendCommit
  <1>2. block[t] \in Packings /\ base[t] \in Pointers
    BY <1>1 DEF Positions, TypeOK
  <1>3. TypeOK'
    <2>1. pc' \in [Threads -> {"idle", "lock", "write", "sync", "advance", "commit", "reply"}]
      BY DEF SendCommit, GoTo, TypeOK
    <2>. QED BY <1>1, <1>2, <2>1 DEF TypeOK
  <1>4. Positions'
    BY <1>1 DEF Positions, Holding
  <1>5. StatementsKnown' /\ SegsCounted' /\ LateFits'
    BY <1>1, CountKept DEF StatementsKnown
  <1>6. RoomLeft' /\ AppendsBehind' /\ DirtyAhead'
    BY <1>1 DEF RoomLeft, AppendsBehind, Behind, DirtyAhead, Holding, Done
  <1>7. AppendsApart'
    BY <1>1, ApartKept DEF Done
  <1>8. CellsHold'
    BY <1>1, CellsKept DEF Done
  <1>. QED BY <1>3, <1>4, <1>5, <1>6, <1>7, <1>8

\* Reply: the statement that was waited for is the only one there was.
LEMMA ReplyStep ==
    ASSUME SegInv, NEW t \in Threads, Reply(t)
    PROVE  SegInv'
  <1>. USE DEF SegInv, media, segNames, pgvars
  <1>1. /\ pc[t] = "reply" /\ pc'[t] = "idle" /\ conn' = {}
        /\ [block |-> block[t], base |-> base[t]] \notin sent
        /\ \A u \in Threads : u # t => pc'[u] = pc[u]
        /\ UNCHANGED <<media, segNames, pgvars, writer, lock, block, base, puts, shorts, crashes>>
    BY Moves DEF Reply
  <1>3. TypeOK'
    <2>1. pc' \in [Threads -> {"idle", "lock", "write", "sync", "advance", "commit", "reply"}]
      BY DEF Reply, GoTo, TypeOK
    <2>. QED BY <1>1, <2>1 DEF TypeOK
  <1>4. Positions'
    BY <1>1 DEF Positions, Holding
  <1>5. StatementsKnown' /\ SegsCounted' /\ LateFits'
    BY <1>1, CountKept DEF StatementsKnown
  <1>6. RoomLeft' /\ AppendsBehind' /\ DirtyAhead'
    BY <1>1 DEF RoomLeft, AppendsBehind, Behind, DirtyAhead, Holding, Done
  <1>7. AppendsApart'
    BY <1>1, ApartKept DEF Done
  <1>8. CellsHold'
    BY <1>1, CellsKept DEF Done
  <1>. QED BY <1>3, <1>4, <1>5, <1>6, <1>7, <1>8

\* Cells(at, n) is a range of offsets in one segment.
LEMMA CellsFacts ==
    ASSUME NEW s \in Nat, NEW k \in Nat, NEW n \in Nat
    PROVE  /\ \A x \in Cells([seg |-> s, off |-> k], n) :
                /\ x.seg = s /\ x.off \in Nat /\ k <= x.off /\ x.off < k + n
                /\ x = [seg |-> x.seg, off |-> x.off]
           /\ \A o \in Nat : k <= o /\ o < k + n =>
                [seg |-> s, off |-> o] \in Cells([seg |-> s, off |-> k], n)
  <1>1. \A x \in Cells([seg |-> s, off |-> k], n) :
            \E i \in 0 .. (n - 1) : x = [seg |-> s, off |-> k + i]
    BY DEF Cells
  <1>2. ASSUME NEW o \in Nat, k <= o, o < k + n
        PROVE  [seg |-> s, off |-> o] \in Cells([seg |-> s, off |-> k], n)
    <2>1. o - k \in 0 .. (n - 1) /\ k + (o - k) = o
      BY <1>2
    <2>. QED BY <2>1 DEF Cells
  <1>. QED BY <1>1, <1>2

\* WriteAt: the block, or the first objects of it, land at the writer's
\* position, in front of which nothing changes.
LEMMA WriteFacts ==
    ASSUME SegInv, NEW t \in Threads, WriteAt(t)
    PROVE  /\ disk' \in [Segs -> [Offs -> Addrs \union {Garbage}]]
           /\ {dirty, spoilt}' \subseteq SUBSET Pointers /\ shorts' \in 0 .. MaxShort
           /\ \A x \in dirty' : x.seg = writer.seg /\ x.off >= writer.cursor
           /\ \A s \in Segs, o \in Offs : s # writer.seg \/ o < writer.cursor =>
                /\ disk'[s][o] = disk[s][o]
                /\ [seg |-> s, off |-> o] \in spoilt' <=> [seg |-> s, off |-> o] \in spoilt
           /\ \A i \in 1 .. Len(block[t]) : HoldsAt(writer.seg, writer.cursor + i - 1, block[t][i])'
  <1>. USE DEF SegInv
  <1>. DEFINE n == Len(block[t])
              at == [seg |-> writer.seg, off |-> writer.cursor]
              all == Cells(at, n)
              new(m) == [o \in Offs |-> IF [seg |-> at.seg, off |-> o] \in Cells(at, m)
                                        THEN block[t][o - at.off + 1] ELSE disk[writer.seg][o]]
  <1>1. /\ n \in Nat /\ block[t] \in Packings
        /\ \A i \in 1 .. n : block[t][i] \in Addrs
    BY PackingFacts DEF WriteAt, Positions
  <1>2. /\ writer.seg \in Nat /\ writer.cursor \in Nat /\ SegCap \in Nat /\ MaxBlock \in Nat
        /\ MaxPuts \in Nat /\ writer.cursor + n <= SegCap + MaxBlock
    BY Numbers DEF WriteAt, RoomLeft, Holding
  <1>3. writer.seg \in Segs /\ writer.seg <= MaxPuts
    BY <1>2 DEF TypeOK, Segs
  <1>4. PICK m \in 1 .. n : /\ disk' = [disk EXCEPT ![writer.seg] = new(m)]
                            /\ dirty' = dirty \union Cells(at, m)
                            /\ spoilt' = (spoilt \ all) \union (all \ Cells(at, m))
                            /\ \/ shorts' = shorts
                               \/ shorts < MaxShort /\ shorts' = shorts + 1
    BY DEF WriteAt
  <1>nat. n \in Nat /\ m \in Nat /\ m <= n /\ writer.seg \in Nat /\ writer.cursor \in Nat
    BY <1>1, <1>2
  <1>5. \A x \in all : /\ x.seg = writer.seg /\ x.off \in Nat /\ writer.cursor <= x.off
                       /\ x.off < writer.cursor + n /\ x = [seg |-> x.seg, off |-> x.off]
    BY <1>nat, CellsFacts
  <1>6. \A o \in Nat : writer.cursor <= o /\ o < writer.cursor + n =>
            [seg |-> writer.seg, off |-> o] \in all
    BY <1>nat, CellsFacts
  <1>sub. Cells(at, m) \subseteq all
    <2>1. 0 .. (m - 1) \subseteq 0 .. (n - 1)
      BY <1>nat
    <2>. QED BY <2>1 DEF Cells
  <1>. HIDE DEF at, n, all
  <1>ptr. all \subseteq Pointers
    <2>1. SUFFICES ASSUME NEW x \in all PROVE x \in Pointers
      OBVIOUS
    <2>2. x.off <= SegCap + MaxBlock /\ x.off \in Nat
      BY <1>1, <1>2, <1>5, <2>1
    <2>3. [seg |-> x.seg, off |-> x.off] \in Pointers
      BY <1>2, <1>3, <1>5, <2>1, <2>2, PointerBounds
    <2>. QED BY <1>5, <2>1, <2>3
  <1>7. {dirty, spoilt}' \subseteq SUBSET Pointers
    BY <1>4, <1>sub, <1>ptr DEF TypeOK
  <1>sh. shorts' \in 0 .. MaxShort
    BY <1>4, ObjSegAssumption DEF TypeOK
  <1>8. \A x \in dirty' : x.seg = writer.seg /\ x.off >= writer.cursor
    BY <1>2, <1>4, <1>5, <1>sub DEF DirtyAhead
  <1>9. \A o \in Offs : o \in Nat
    BY <1>2 DEF Offs
  <1>10. disk'[writer.seg] = new(m) /\ \A s \in Segs : s # writer.seg => disk'[s] = disk[s]
    BY <1>3, <1>4 DEF TypeOK
  <1>11. ASSUME NEW o \in Offs PROVE new(m)[o] \in Addrs \union {Garbage}
    <2>1. CASE [seg |-> writer.seg, off |-> o] \in Cells(at, m)
      <3>1. writer.cursor <= o /\ o < writer.cursor + n /\ o \in Nat
        BY <1>5, <1>9, <1>sub, <2>1
      <3>2. o - writer.cursor + 1 \in 1 .. n
        BY <1>1, <1>2, <3>1
      <3>3. new(m)[o] = block[t][o - writer.cursor + 1]
        BY <2>1 DEF at
      <3>. QED BY <1>1, <3>2, <3>3
    <2>2. CASE [seg |-> writer.seg, off |-> o] \notin Cells(at, m)
      <3>1. new(m)[o] = disk[writer.seg][o]
        BY <2>2 DEF at
      <3>. QED BY <1>3, <3>1 DEF TypeOK
    <2>. QED BY <2>1, <2>2
  <1>12. disk' \in [Segs -> [Offs -> Addrs \union {Garbage}]]
    <2>1. new(m) \in [Offs -> Addrs \union {Garbage}]
      BY <1>11
    <2>. HIDE DEF new
    <2>. QED BY <1>4, <2>1 DEF TypeOK
  <1>13. ASSUME NEW s \in Segs, NEW o \in Offs, s # writer.seg \/ o < writer.cursor
         PROVE  /\ disk'[s][o] = disk[s][o]
                /\ [seg |-> s, off |-> o] \in spoilt' <=> [seg |-> s, off |-> o] \in spoilt
    <2>1. [seg |-> s, off |-> o] \notin all
      <3>1. CASE s # writer.seg
        BY <1>5, <3>1
      <3>2. CASE s = writer.seg
        <4>1. ~ (writer.cursor <= o)
          BY <1>2, <1>9, <1>13, <3>2
        <4>. QED BY <1>5, <4>1
      <3>. QED BY <3>1, <3>2
    <2>2. CASE s # writer.seg
      BY <1>4, <1>10, <2>1, <2>2
    <2>3. CASE s = writer.seg
      <3>1. new(m)[o] = disk[writer.seg][o]
        BY <1>sub, <2>1, <2>3 DEF at
      <3>. QED BY <1>4, <1>10, <2>1, <2>3, <3>1
    <2>. QED BY <2>2, <2>3
  <1>14. ASSUME NEW i \in 1 .. n
         PROVE  \/ disk'[writer.seg][writer.cursor + i - 1] = block[t][i]
                \/ [seg |-> writer.seg, off |-> writer.cursor + i - 1] \in spoilt'
    <2>1. PICK o \in Nat : o = writer.cursor + i - 1
      BY <1>1, <1>2
    <2>2. writer.cursor <= o /\ o < writer.cursor + n /\ o \in Offs /\ o - writer.cursor + 1 = i
      BY <1>1, <1>2, <2>1 DEF Offs
    <2>3. [seg |-> writer.seg, off |-> o] \in all
      BY <1>6, <2>2
    <2>4. CASE [seg |-> writer.seg, off |-> o] \in Cells(at, m)
      <3>1. new(m)[o] = block[t][o - writer.cursor + 1]
        BY <2>2, <2>4 DEF at
      <3>. QED BY <1>10, <2>1, <2>2, <3>1
    <2>5. CASE [seg |-> writer.seg, off |-> o] \notin Cells(at, m)
      BY <1>4, <2>1, <2>3, <2>5
    <2>. QED BY <2>4, <2>5
  <1>15. writer' = writer /\ block' = block
    BY DEF WriteAt
  <1>. QED BY <1>7, <1>sh, <1>8, <1>12, <1>13, <1>14, <1>15 DEF n, HoldsAt

\* A cell of a range behind the writer's position is a cell in front of it.
LEMMA BehindIsBefore ==
    ASSUME TypeOK, NEW x \in Pointers, NEW n \in Nat, Behind(x, n), NEW i \in 1 .. n,
           x.off + n <= SegCap + MaxBlock
    PROVE  /\ x.seg \in Segs /\ x.off + i - 1 \in Offs
           /\ x.seg # writer.seg \/ x.off + i - 1 < writer.cursor
  <1>1. x.seg \in Nat /\ x.off \in Nat /\ x.seg \in Segs
    BY ObjSegAssumption DEF Pointers, Segs, Offs
  <1>2. writer.seg \in Nat /\ writer.cursor \in Nat /\ SegCap \in Nat /\ MaxBlock \in Nat
    BY Numbers
  <1>. QED BY <1>1, <1>2 DEF Behind, Offs

\* WriteAt keeps the invariant: rows and ranges on their way lie in front.
LEMMA WriteStep ==
    ASSUME SegInv, NEW t \in Threads, WriteAt(t)
    PROVE  SegInv'
  <1>. USE DEF SegInv, media, segNames, pgvars
  <1>1. /\ pc[t] = "write" /\ pc'[t] = "sync"
        /\ \A u \in Threads : u # t => pc'[u] = pc[u]
        /\ UNCHANGED <<segNames, pgvars, writer, lock, conn, block, base, puts, crashes>>
    BY Moves DEF WriteAt
  <1>2. \A u \in Threads : u # t => pc[u] \notin Holding
    BY <1>1 DEF Positions, Holding
  <1>3. TypeOK'
    <2>1. pc' \in [Threads -> {"idle", "lock", "write", "sync", "advance", "commit", "reply"}]
      BY DEF WriteAt, GoTo, TypeOK
    <2>. QED BY <1>1, <2>1, WriteFacts DEF TypeOK
  <1>4. Positions'
    BY <1>1 DEF Positions, Holding
  <1>5. StatementsKnown' /\ SegsCounted' /\ LateFits'
    BY <1>1, CountKept DEF StatementsKnown
  <1>6. RoomLeft' /\ AppendsBehind' /\ DirtyAhead'
    BY <1>1, WriteFacts DEF RoomLeft, AppendsBehind, Behind, DirtyAhead, Holding, Done
  <1>7. AppendsApart'
    BY <1>1, ApartKept DEF Done
  <1>8. CellsHold'
    <2>1. ASSUME NEW u \in Threads, pc'[u] \in Done, NEW i \in 1 .. Len(block[u])
          PROVE  HoldsAt(base[u].seg, base[u].off + i - 1, block[u][i])'
      <3>1. pc[u] \in Done
        BY <1>1, <2>1 DEF Done
      <3>2. /\ Behind(base[u], Len(block[u])) /\ base[u].off + Len(block[u]) <= SegCap + MaxBlock
            /\ HoldsAt(base[u].seg, base[u].off + i - 1, block[u][i])
            /\ base[u] \in Pointers /\ Len(block[u]) \in Nat
        BY <2>1, <3>1, Numbers DEF AppendsBehind, RoomLeft, CellsHold, TypeOK
      <3>3. /\ base[u].seg \in Segs /\ base[u].off + i - 1 \in Offs
            /\ base[u].seg # writer.seg \/ base[u].off + i - 1 < writer.cursor
        BY <2>1, <3>2, BehindIsBefore
      <3>4. /\ disk'[base[u].seg][base[u].off + i - 1] = disk[base[u].seg][base[u].off + i - 1]
            /\ [seg |-> base[u].seg, off |-> base[u].off + i - 1] \in spoilt' <=>
                    [seg |-> base[u].seg, off |-> base[u].off + i - 1] \in spoilt
        BY <3>3, WriteFacts
      <3>. QED BY <1>1, <3>2, <3>4 DEF HoldsAt
    <2>2. ASSUME NEW a \in Addrs \ doubtful, rows[a] # NoRow
          PROVE  HoldsAt(rows[a].seg, rows[a].off, a)'
      <3>1. writer.known
        BY <1>1 DEF Positions
      <3>2. /\ Behind(rows[a], 1) /\ rows[a].off + 1 <= SegCap + MaxBlock /\ rows[a] \in Pointers
            /\ HoldsAt(rows[a].seg, rows[a].off, a) /\ rows[a].off \in Nat
        BY <2>2, <3>1, Numbers DEF AppendsBehind, RoomLeft, CellsHold, TypeOK
      <3>3. /\ rows[a].seg \in Segs /\ rows[a].off + 1 - 1 \in Offs
            /\ rows[a].seg # writer.seg \/ rows[a].off + 1 - 1 < writer.cursor
        BY <3>2, BehindIsBefore
      <3>4. rows[a].off + 1 - 1 = rows[a].off
        BY <3>2
      <3>5. /\ disk'[rows[a].seg][rows[a].off] = disk[rows[a].seg][rows[a].off]
            /\ [seg |-> rows[a].seg, off |-> rows[a].off] \in spoilt' <=>
                    [seg |-> rows[a].seg, off |-> rows[a].off] \in spoilt
        BY <3>3, <3>4, WriteFacts
      <3>. QED BY <1>1, <3>2, <3>5 DEF HoldsAt
    <2>3. ASSUME NEW u \in Threads, pc'[u] \in {"sync", "advance"}, NEW i \in 1 .. Len(block[u])
          PROVE  HoldsAt(writer.seg, writer.cursor + i - 1, block[u][i])'
      <3>1. u = t
        BY <1>1, <1>2, <2>3 DEF Holding
      <3>. QED BY <2>3, <3>1, WriteFacts
    <2>. QED BY <1>1, <2>1, <2>2, <2>3 DEF CellsHold
  <1>. QED BY <1>3, <1>4, <1>5, <1>6, <1>7, <1>8

\* Advance: the range of the thread joins those on their way, behind the new
\* position and apart from all that were behind the old one.
LEMMA AdvanceStep ==
    ASSUME SegInv, NEW t \in Threads, Advance(t)
    PROVE  SegInv'
  <1>. USE DEF SegInv, media, segNames, pgvars
  <1>. DEFINE n == Len(block[t])
              at == [seg |-> writer.seg, off |-> writer.cursor]
  <1>1. /\ pc[t] = "advance" /\ pc'[t] = "commit" /\ lock' = {} /\ base'[t] = at
        /\ \A u \in Threads : u # t => pc'[u] = pc[u] /\ base'[u] = base[u]
        /\ UNCHANGED <<media, segNames, pgvars, conn, block, puts, shorts, crashes>>
    BY Moves DEF Advance, TypeOK
  <1>2. \A u \in Threads : u # t => pc[u] \notin Holding
    BY <1>1 DEF Positions, Holding
  <1>3. /\ n \in Nat /\ writer.seg \in Nat /\ writer.cursor \in Nat /\ writer.known = TRUE
        /\ SegCap \in Nat /\ MaxBlock \in Nat /\ MaxPuts \in Nat
        /\ writer.cursor + n <= SegCap + MaxBlock
    BY <1>1, Numbers DEF RoomLeft, Holding, Positions
  <1>4. /\ writer' = [known |-> TRUE, seg |-> writer.seg, cursor |-> writer.cursor + n]
        /\ writer'.known = TRUE /\ writer'.seg = writer.seg /\ writer'.cursor = writer.cursor + n
    BY <1>3, Numbers DEF Advance
  <1>5. dirty = {}
    BY <1>1, <1>2 DEF DirtyAhead, Holding
  <1>6. TypeOK'
    <2>1. pc' \in [Threads -> {"idle", "lock", "write", "sync", "advance", "commit", "reply"}]
      BY DEF Advance, GoTo, TypeOK
    <2>2. at \in Pointers
      BY <1>3 DEF TypeOK, Pointers
    <2>3. base' \in [Threads -> Pointers]
      BY <2>2 DEF Advance, TypeOK
    <2>4. writer.seg \in Segs /\ writer.cursor + n \in Offs
      BY <1>3 DEF TypeOK, Offs
    <2>5. writer' \in [known : BOOLEAN, seg : Segs, cursor : Offs]
      BY <1>4, <2>4
    <2>. QED BY <1>1, <2>1, <2>3, <2>5 DEF TypeOK
  <1>7. Positions'
    BY <1>1, <1>2, <1>4 DEF Positions, Holding
  <1>8. StatementsKnown'
    BY <1>1 DEF StatementsKnown
  <1>9. SegsCounted' /\ LateFits'
    BY <1>1, <1>4, CountKept
  <1>10. RoomLeft'
    BY <1>1, <1>2, <1>3 DEF RoomLeft, Holding, Done
  <1>11. DirtyAhead'
    BY <1>1, <1>5 DEF DirtyAhead
  <1>12. AppendsBehind'
    <2>1. ASSUME NEW x, NEW m \in Nat, x.seg \in Nat, x.off \in Nat, Behind(x, m)
          PROVE  Behind(x, m)'
      BY <1>3, <1>4, <2>1 DEF Behind
    <2>2. ASSUME NEW a \in Addrs \ doubtful, rows[a] # NoRow PROVE Behind(rows[a], 1)'
      BY <1>1, <1>3, <2>1, <2>2, Numbers DEF AppendsBehind
    <2>3. ASSUME NEW u \in Threads, pc'[u] \in Done
          PROVE  /\ base'[u].seg < writer'.seg \/
                    (base'[u].seg = writer'.seg /\ base'[u].off + Len(block[u]) <= writer'.cursor)
      <3>1. CASE u = t
        BY <1>1, <1>3, <1>4, <3>1
      <3>2. CASE u # t
        <4>1. Len(block[u]) \in Nat /\ base[u].seg \in Nat /\ base[u].off \in Nat
          BY Numbers
        <4>2. \/ base[u].seg < writer.seg
              \/ base[u].seg = writer.seg /\ base[u].off + Len(block[u]) <= writer.cursor
          BY <1>1, <2>3, <3>2 DEF AppendsBehind, Behind
        <4>3. base'[u] = base[u]
          BY <1>1, <3>2
        <4>. QED BY ONLY <1>3, <1>4, <4>1, <4>2, <4>3
      <3>. QED BY <3>1, <3>2
    <2>. QED BY <1>1, <2>2, <2>3 DEF AppendsBehind, Behind
  <1>13. AppendsApart'
    <2>1. ASSUME NEW u \in Threads, pc'[u] \in Done, u # t
          PROVE  /\ Apart(at, n, base[u], Len(block[u])) /\ Apart(base[u], Len(block[u]), at, n)
      <3>1. Behind(base[u], Len(block[u])) /\ Len(block[u]) \in Nat
            /\ base[u].seg \in Nat /\ base[u].off \in Nat
        BY <1>1, <2>1, Numbers DEF AppendsBehind
      <3>. QED BY <1>3, <3>1 DEF Behind, Apart
    <2>2. ASSUME NEW u \in Threads, NEW v \in Threads, pc'[u] \in Done, pc'[v] \in Done, u # v
          PROVE  Apart(base[u], Len(block[u]), base[v], Len(block[v]))'
      <3>1. CASE u = t
        BY <1>1, <2>1, <2>2, <3>1 DEF Apart
      <3>2. CASE v = t
        BY <1>1, <2>1, <2>2, <3>2 DEF Apart
      <3>3. CASE u # t /\ v # t
        BY <1>1, <2>2, <3>3 DEF Apart, AppendsApart
      <3>. QED BY <3>1, <3>2, <3>3
    <2>3. ASSUME NEW u \in Threads, NEW a \in Addrs \ doubtful, pc'[u] \in Done, rows[a] # NoRow
          PROVE  Apart(base[u], Len(block[u]), rows[a], 1)' \/ (pc'[u] = "reply" /\ RowOf(u, a)')
      <3>1. CASE u = t
        <4>1. Behind(rows[a], 1) /\ rows[a].seg \in Nat /\ rows[a].off \in Nat
          BY <1>3, <2>3, Numbers DEF AppendsBehind
        <4>2. Apart(at, n, rows[a], 1)
          BY <1>3, <4>1 DEF Behind, Apart
        <4>. QED BY <1>1, <3>1, <4>2 DEF Apart
      <3>2. CASE u # t
        <4>1. pc[u] \in Done /\ pc'[u] = pc[u] /\ base'[u] = base[u]
          BY <1>1, <2>3, <3>2
        <4>2. Apart(base[u], Len(block[u]), rows[a], 1) \/ (pc[u] = "reply" /\ RowOf(u, a))
          BY <2>3, <4>1 DEF AppendsApart
        <4>3. Apart(base[u], Len(block[u]), rows[a], 1) => Apart(base[u], Len(block[u]), rows[a], 1)'
          BY <1>1, <4>1 DEF Apart
        <4>4. RowOf(u, a) => RowOf(u, a)'
          BY <1>1, <4>1 DEF RowOf
        <4>. QED BY <4>1, <4>2, <4>3, <4>4
      <3>. QED BY <3>1, <3>2
    <2>. QED BY <1>1, <2>2, <2>3 DEF AppendsApart
  <1>14. CellsHold'
    <2>1. ASSUME NEW u \in Threads, pc'[u] \in Done, NEW i \in 1 .. Len(block[u])
          PROVE  HoldsAt(base'[u].seg, base'[u].off + i - 1, block[u][i])
      <3>1. CASE u = t
        <4>1. HoldsAt(writer.seg, writer.cursor + i - 1, block[t][i])
          BY <1>1, <2>1, <3>1 DEF CellsHold
        <4>. QED BY <1>1, <3>1, <4>1
      <3>2. CASE u # t
        BY <1>1, <2>1, <3>2 DEF CellsHold
      <3>. QED BY <3>1, <3>2
    <2>2. \A u \in Threads : pc'[u] \notin {"sync", "advance"}
      BY <1>1, <1>2 DEF Holding
    <2>. QED BY <1>1, <2>1, <2>2 DEF CellsHold, HoldsAt
  <1>. QED BY <1>6, <1>7, <1>8, <1>9, <1>10, <1>11, <1>12, <1>13, <1>14

\* The row a statement has for its i-th object.
LEMMA RowForFacts ==
    ASSUME NEW b \in Packings, NEW x \in Pointers, NEW i \in 1 .. Len(b)
    PROVE  RowFor([block |-> b, base |-> x], b[i]) = [seg |-> x.seg, off |-> x.off + i - 1]
  <1>1. (CHOOSE j \in 1 .. Len(b) : b[j] = b[i]) = i
    BY PackingFacts
  <1>2. x = [seg |-> x.seg, off |-> x.off] /\ x.off \in Nat
    BY ObjSegAssumption DEF Pointers, Offs
  <1>3. RowFor([block |-> b, base |-> x], b[i]) = [x EXCEPT !.off = @ + i - 1]
    BY <1>1 DEF RowFor
  <1>. QED BY <1>2, <1>3

\* PgCommit: the rows that come point into the range of the thread that waits
\* for the statement, cell by cell.
LEMMA CommitStep ==
    ASSUME SegInv, NEW c \in sent, PgCommit(c)
    PROVE  SegInv'
  <1>. USE DEF SegInv, media, segNames, pgvars
  <1>1. PICK t \in Threads : pc[t] = "reply" /\ c = [block |-> block[t], base |-> base[t]]
    BY DEF StatementsKnown
  <1>2. /\ sent' = sent \ {c}
        /\ UNCHANGED <<media, segNames, late, doubtful, writer, lock, conn, pc, block, base, puts, shorts, crashes>>
    BY DEF PgCommit, tvars
  <1>3. /\ block[t] \in Packings /\ base[t] \in Pointers /\ writer.known
        /\ c.block = block[t] /\ c.base = base[t]
    BY <1>1 DEF Positions, TypeOK
  <1>4. /\ Len(block[t]) \in Nat /\ base[t].seg \in Nat /\ base[t].off \in Nat
        /\ SegCap \in Nat /\ MaxBlock \in Nat /\ MaxPuts \in Nat /\ puts \in Nat /\ puts <= MaxPuts
        /\ writer.seg \in Nat /\ writer.cursor \in Nat
        /\ base[t].off + Len(block[t]) <= SegCap + MaxBlock
        /\ Behind(base[t], Len(block[t]))
    BY <1>1, Numbers DEF TypeOK, RoomLeft, AppendsBehind, Done
  <1>5. base[t].seg <= writer.seg /\ base[t].seg <= MaxPuts
    BY <1>3, <1>4 DEF Behind, Pointers, Segs
  <1>6. ASSUME NEW a \in Addrs
        PROVE  \/ rows'[a] = rows[a]
               \/ /\ rows[a] = NoRow
                  /\ \E i \in 1 .. Len(block[t]) :
                        /\ block[t][i] = a
                        /\ rows'[a] = [seg |-> base[t].seg, off |-> base[t].off + i - 1]
    <2>1. rows' = [x \in Addrs |->
                    IF rows[x] = NoRow /\ \E i \in 1 .. Len(block[t]) : block[t][i] = x
                    THEN RowFor(c, x) ELSE rows[x]]
      BY <1>3 DEF PgCommit, Insert, NewIn
    <2>2. CASE rows[a] = NoRow /\ \E i \in 1 .. Len(block[t]) : block[t][i] = a
      <3>1. PICK i \in 1 .. Len(block[t]) : block[t][i] = a
        BY <2>2
      <3>2. rows'[a] = RowFor(c, a)
        BY <2>1, <2>2
      <3>3. RowFor(c, a) = [seg |-> base[t].seg, off |-> base[t].off + i - 1]
        BY <1>1, <1>3, <3>1, RowForFacts
      <3>. QED BY <2>2, <3>1, <3>2, <3>3
    <2>3. CASE ~(rows[a] = NoRow /\ \E i \in 1 .. Len(block[t]) : block[t][i] = a)
      BY <2>1, <2>3
    <2>. QED BY <2>2, <2>3
  <1>7. rows' = [a \in Addrs |-> rows'[a]]
    BY DEF PgCommit, Insert
  \* A row that comes, as numbers.
  <1>8. ASSUME NEW a \in Addrs, rows'[a] # NoRow, rows'[a] # rows[a]
        PROVE  \E i \in 1 .. Len(block[t]) :
                 /\ block[t][i] = a /\ i \in Nat /\ 1 <= i /\ i <= Len(block[t])
                 /\ rows'[a] = [seg |-> base[t].seg, off |-> base[t].off + i - 1]
                 /\ rows'[a].seg = base[t].seg /\ rows'[a].off = base[t].off + i - 1
                 /\ rows'[a].off \in Nat
    <2>1. PICK i \in 1 .. Len(block[t]) :
             block[t][i] = a /\ rows'[a] = [seg |-> base[t].seg, off |-> base[t].off + i - 1]
      BY <1>6, <1>8
    <2>2. i \in Nat /\ 1 <= i /\ i <= Len(block[t]) /\ base[t].off + i - 1 \in Nat
      BY <1>4
    <2>3. rows'[a].seg = base[t].seg /\ rows'[a].off = base[t].off + i - 1
      BY <2>1
    <2>. QED BY ONLY <2>1, <2>2, <2>3
  <1>9. TypeOK'
    <2>1. ASSUME NEW a \in Addrs PROVE rows'[a] \in Pointers \union {NoRow}
      <3>1. CASE rows'[a] = rows[a]
        BY <3>1 DEF TypeOK
      <3>2. CASE rows'[a] # rows[a] /\ rows'[a] # NoRow
        <4>1. PICK i \in 1 .. Len(block[t]) :
                 /\ i \in Nat /\ 1 <= i /\ i <= Len(block[t])
                 /\ rows'[a] = [seg |-> base[t].seg, off |-> base[t].off + i - 1]
          BY <1>8, <3>2
        <4>2. base[t].off + i - 1 \in Nat /\ base[t].off + i - 1 <= SegCap + MaxBlock
          BY <1>4, <4>1
        <4>. QED BY <1>4, <1>5, <4>1, <4>2, PointerBounds
      <3>. QED BY <3>1, <3>2
    <2>2. rows' \in [Addrs -> Pointers \union {NoRow}]
      BY <1>7, <2>1
    <2>. QED BY <1>2, <2>2 DEF TypeOK
  <1>10. Positions' /\ StatementsKnown' /\ DirtyAhead'
    BY <1>2 DEF Positions, StatementsKnown, DirtyAhead
  <1>11. SegsCounted' /\ LateFits'
    <2>1. Waiting' = Waiting
      BY <1>2 DEF Waiting
    <2>2. /\ IsFiniteSet(Waiting) /\ Cardinality(Waiting) \in Nat
          /\ writer.seg + Cardinality(Waiting) <= puts
      BY FS_CardinalityType DEF SegsCounted
    <2>3. ASSUME NEW a \in Addrs, rows'[a] # NoRow PROVE rows'[a].seg + Cardinality(Waiting) <= puts
      <3>1. CASE rows'[a] = rows[a]
        BY <2>3, <3>1 DEF SegsCounted
      <3>2. CASE rows'[a] # rows[a]
        <4>1. rows'[a].seg = base[t].seg
          BY <1>8, <2>3, <3>2
        <4>. QED BY <1>4, <1>5, <2>2, <4>1
      <3>. QED BY <3>1, <3>2
    <2>. QED BY <1>2, <2>1, <2>2, <2>3 DEF SegsCounted, LateFits
  <1>12. RoomLeft'
    <2>1. ASSUME NEW a \in Addrs, rows'[a] # NoRow PROVE rows'[a].off + 1 <= SegCap + MaxBlock
      <3>1. CASE rows'[a] = rows[a]
        BY <2>1, <3>1 DEF RoomLeft
      <3>2. CASE rows'[a] # rows[a]
        <4>1. PICK i \in Nat : i <= Len(block[t]) /\ rows'[a].off = base[t].off + i - 1
          BY <1>8, <2>1, <3>2
        <4>. QED BY ONLY <1>4, <4>1
      <3>. QED BY <3>1, <3>2
    <2>. QED BY <1>2, <2>1 DEF RoomLeft
  <1>13. AppendsBehind'
    <2>1. ASSUME NEW a \in Addrs \ doubtful, rows'[a] # NoRow PROVE Behind(rows'[a], 1)
      <3>1. CASE rows'[a] = rows[a]
        BY <1>3, <2>1, <3>1 DEF AppendsBehind
      <3>2. CASE rows'[a] # rows[a]
        <4>1. PICK i \in Nat : /\ i <= Len(block[t]) /\ rows'[a].seg = base[t].seg
                               /\ rows'[a].off = base[t].off + i - 1
          BY <1>8, <2>1, <3>2
        <4>. QED BY ONLY <1>4, <4>1 DEF Behind
      <3>. QED BY <3>1, <3>2
    <2>. QED BY <1>2, <2>1 DEF AppendsBehind, Behind
  <1>14. AppendsApart'
    <2>1. ASSUME NEW u \in Threads, NEW a \in Addrs \ doubtful, pc[u] \in Done, rows'[a] # NoRow
          PROVE  Apart(base[u], Len(block[u]), rows'[a], 1) \/ (pc[u] = "reply" /\ RowOf(u, a)')
      <3>1. CASE rows'[a] = rows[a]
        <4>1. RowOf(u, a) => RowOf(u, a)'
          BY <1>2, <3>1 DEF RowOf
        <4>. QED BY <2>1, <3>1, <4>1 DEF AppendsApart
      <3>2. CASE rows'[a] # rows[a] /\ u = t
        <4>1. RowOf(t, a)'
          BY <1>2, <1>8, <2>1, <3>2 DEF RowOf
        <4>. QED BY <1>1, <3>2, <4>1
      <3>3. CASE rows'[a] # rows[a] /\ u # t
        <4>1. /\ Apart(base[u], Len(block[u]), base[t], Len(block[t]))
              /\ base[u].seg \in Nat /\ base[u].off \in Nat /\ Len(block[u]) \in Nat
          BY <1>1, <2>1, <3>3, Numbers DEF AppendsApart, Done
        <4>2. PICK i \in Nat : /\ 1 <= i /\ i <= Len(block[t])
                               /\ rows'[a].seg = base[t].seg /\ rows'[a].off = base[t].off + i - 1
          BY <1>8, <2>1, <3>3
        <4>3. \/ base[u].seg # base[t].seg
              \/ base[u].off + Len(block[u]) <= base[t].off
              \/ base[t].off + Len(block[t]) <= base[u].off
          BY <4>1 DEF Apart
        <4>4. PICK o \in Nat : o = rows'[a].off /\ o = base[t].off + i - 1
          BY <1>4, <4>2
        <4>5. base[t].off <= o /\ o + 1 <= base[t].off + Len(block[t])
          BY ONLY <1>4, <4>2, <4>4
        <4>6. \/ base[u].seg # rows'[a].seg
              \/ base[u].off + Len(block[u]) <= o \/ o + 1 <= base[u].off
          <5>nat. /\ base[u].off \in Nat /\ Len(block[u]) \in Nat /\ o \in Nat
                /\ base[t].off \in Nat /\ Len(block[t]) \in Nat
            BY <1>4, <4>1
          <5>1. ASSUME base[u].off + Len(block[u]) <= base[t].off
                PROVE  base[u].off + Len(block[u]) <= o
            BY ONLY <5>1, <5>nat, <4>5
          <5>2. ASSUME base[t].off + Len(block[t]) <= base[u].off
                PROVE  o + 1 <= base[u].off
            BY ONLY <5>2, <5>nat, <4>5
          <5>. QED BY <4>2, <4>3, <5>1, <5>2
        <4>. QED BY <4>4, <4>6 DEF Apart
      <3>. QED BY <3>1, <3>2, <3>3
    <2>. QED BY <1>2, <2>1 DEF AppendsApart, Apart
  <1>15. CellsHold'
    <2>1. ASSUME NEW a \in Addrs \ doubtful, rows'[a] # NoRow
          PROVE  HoldsAt(rows'[a].seg, rows'[a].off, a)
      <3>1. CASE rows'[a] = rows[a]
        BY <2>1, <3>1 DEF CellsHold
      <3>2. CASE rows'[a] # rows[a]
        <4>1. PICK i \in 1 .. Len(block[t]) :
                 block[t][i] = a /\ rows'[a].seg = base[t].seg /\ rows'[a].off = base[t].off + i - 1
          BY <1>8, <2>1, <3>2
        <4>. QED BY <1>1, <4>1 DEF CellsHold, Done
      <3>. QED BY <3>1, <3>2
    <2>. QED BY <1>2, <2>1 DEF CellsHold, HoldsAt
  <1>. QED BY <1>9, <1>10, <1>11, <1>12, <1>13, <1>14, <1>15

\* PgCommitLate: the rows that come are doubtful from then on, and their range
\* fits.
LEMMA CommitLateStep ==
    ASSUME SegInv, NEW c \in late, PgCommitLate(c)
    PROVE  SegInv'
  <1>. USE DEF SegInv, media, segNames
  <1>1. /\ late' = late \ {c} /\ doubtful' = doubtful \union NewIn(c)
        /\ rows' = [a \in Addrs |-> IF a \in NewIn(c) THEN RowFor(c, a) ELSE rows[a]]
        /\ UNCHANGED <<media, segNames, sent, writer, lock, conn, pc, block, base, puts, shorts, crashes>>
    BY DEF PgCommitLate, Insert, tvars
  <1>2. /\ c.block \in Packings /\ c.base \in Pointers /\ Len(c.block) \in Nat
        /\ c.base.seg \in Nat /\ c.base.off \in Nat
        /\ SegCap \in Nat /\ MaxBlock \in Nat /\ MaxPuts \in Nat /\ puts \in Nat /\ puts <= MaxPuts
        /\ c.base.off + Len(c.block) <= SegCap + MaxBlock
    BY Numbers DEF TypeOK, LateFits
  <1>3. /\ IsFiniteSet(Waiting) /\ Cardinality(Waiting) \in Nat /\ Waiting' = Waiting
        /\ c.base.seg + Cardinality(Waiting) <= puts
    BY <1>1, FS_CardinalityType DEF SegsCounted, LateFits, Waiting
  <1>4. \A a \in Addrs \ doubtful' : rows'[a] = rows[a]
    BY <1>1
  <1>5. ASSUME NEW a \in Addrs, rows'[a] # rows[a]
        PROVE  /\ rows'[a] \in Pointers /\ rows'[a].seg = c.base.seg
               /\ rows'[a].off + 1 <= SegCap + MaxBlock
    <2>1. PICK i \in 1 .. Len(c.block) : c.block[i] = a
      BY <1>1, <1>5 DEF NewIn
    <2>2. rows'[a] = RowFor(c, a)
      BY <1>1, <1>5
    <2>3. (CHOOSE j \in 1 .. Len(c.block) : c.block[j] = a) = i
      BY <1>2, <2>1, PackingFacts
    <2>4. c.base = [seg |-> c.base.seg, off |-> c.base.off]
      BY <1>2 DEF Pointers
    <2>5. rows'[a] = [seg |-> c.base.seg, off |-> c.base.off + i - 1]
      BY <2>2, <2>3, <2>4 DEF RowFor
    <2>6. c.base.off + i - 1 \in Nat /\ c.base.off + i - 1 + 1 <= SegCap + MaxBlock
      BY <1>2
    <2>7. c.base.seg <= MaxPuts
      BY <1>2, <1>3
    <2>8. c.base.off + i - 1 <= SegCap + MaxBlock
      BY <1>2, <2>6
    <2>9. rows'[a] \in Pointers
      BY <1>2, <2>5, <2>6, <2>7, <2>8, PointerBounds
    <2>. QED BY <2>5, <2>6, <2>9
  <1>6. TypeOK'
    <2>1. rows' \in [Addrs -> Pointers \union {NoRow}]
      <3>1. ASSUME NEW a \in Addrs PROVE rows'[a] \in Pointers \union {NoRow}
        BY <1>5 DEF TypeOK
      <3>2. rows' = [a \in Addrs |-> rows'[a]]
        BY <1>1
      <3>. QED BY <3>1, <3>2
    <2>2. doubtful' \subseteq Addrs
      BY <1>1 DEF TypeOK, NewIn
    <2>. QED BY <1>1, <2>1, <2>2 DEF TypeOK
  <1>7. Positions' /\ StatementsKnown' /\ DirtyAhead'
    BY <1>1 DEF Positions, StatementsKnown, DirtyAhead
  <1>8. SegsCounted' /\ LateFits'
    <2>1. ASSUME NEW a \in Addrs, rows'[a] # NoRow PROVE rows'[a].seg + Cardinality(Waiting) <= puts
      BY <1>3, <1>5, <2>1 DEF SegsCounted
    <2>. QED BY <1>1, <1>3, <2>1 DEF SegsCounted, LateFits
  <1>9. RoomLeft'
    <2>1. ASSUME NEW a \in Addrs, rows'[a] # NoRow PROVE rows'[a].off + 1 <= SegCap + MaxBlock
      BY <1>5, <2>1 DEF RoomLeft
    <2>. QED BY <1>1, <2>1 DEF RoomLeft
  <1>10. AppendsBehind'
    <2>1. ASSUME NEW x, NEW n PROVE Behind(x, n)' <=> Behind(x, n)
      BY <1>1 DEF Behind
    <2>. QED BY <1>1, <1>4 DEF AppendsBehind, Behind
  <1>11. AppendsApart'
    <2>1. ASSUME NEW t \in Threads, NEW a \in Addrs \ doubtful', pc[t] \in Done, rows'[a] # NoRow
          PROVE  Apart(base[t], Len(block[t]), rows'[a], 1) \/ (pc[t] = "reply" /\ RowOf(t, a)')
      <3>1. a \notin doubtful /\ rows'[a] = rows[a]
        BY <1>1, <1>4
      <3>2. RowOf(t, a)' <=> RowOf(t, a)
        BY <1>1, <3>1 DEF RowOf
      <3>. QED BY <2>1, <3>1, <3>2 DEF AppendsApart
    <2>. QED BY <1>1, <2>1 DEF AppendsApart, Apart
  <1>12. CellsHold'
    BY <1>1, <1>4 DEF CellsHold, HoldsAt
  <1>. QED BY <1>6, <1>7, <1>8, <1>9, <1>10, <1>11, <1>12

\* No row points at a cell that is not synced, unless it was committed late.
LEMMA RowsClean == SegInv => \A a \in Addrs \ doubtful : rows[a] # NoRow => rows[a] \notin dirty
  <1>. SUFFICES ASSUME SegInv, NEW a \in Addrs \ doubtful, rows[a] # NoRow, rows[a] \in dirty
                PROVE  FALSE
    OBVIOUS
  <1>. USE DEF SegInv
  <1>1. /\ rows[a].seg = writer.seg /\ rows[a].off >= writer.cursor
        /\ \E t \in Threads : pc[t] = "sync"
    BY DEF DirtyAhead
  <1>2. writer.known
    BY <1>1 DEF Positions
  <1>3. Behind(rows[a], 1)
    BY <1>2 DEF AppendsBehind
  <1>4. rows[a].seg \in Nat /\ rows[a].off \in Nat /\ writer.seg \in Nat /\ writer.cursor \in Nat
    BY Numbers
  <1>. QED BY ONLY <1>1, <1>3, <1>4 DEF Behind

\* Crash: only dirty cells and the cells of files whose name is lost go, no row
\* points at a dirty one, and what is sent fits its range.
LEMMA CrashStep ==
    ASSUME SegInv, Crash
    PROVE  SegInv'
  <1>. USE DEF SegInv
  <1>1. /\ dirty' = {} /\ sent' = {} /\ writer' = NoWriter /\ lock' = {} /\ conn' = {}
        /\ late' = late \union sent
        /\ \A t \in Threads : pc'[t] = "idle"
        /\ UNCHANGED <<rows, doubtful, puts, shorts>>
    BY DEF Crash
  <1>2. PICK lost \in SUBSET dirty, gone \in SUBSET fresh :
           /\ disk' = [s \in Segs |-> [o \in Offs |->
                        IF s \in gone \/ [seg |-> s, off |-> o] \in lost THEN Garbage ELSE disk[s][o]]]
           /\ segFiles' = segFiles \ gone
           /\ fresh' = IF lost = {} /\ gone = {} THEN fresh ELSE {}
           /\ spoilt' = spoilt \union {x \in Pointers : x.seg \in gone}
    BY DEF Crash
  <1>3. SegCap \in Nat /\ MaxBlock \in Nat /\ MaxPuts \in Nat /\ MaxCrashes \in Nat /\ puts \in Nat
    BY Numbers, ObjSegAssumption
  <1>4. TypeOK'
    <2>1. 0 \in Segs /\ 0 \in Offs
      BY <1>3 DEF Segs, Offs
    <2>2. Nowhere \in Pointers /\ NoWriter \in [known : BOOLEAN, seg : Segs, cursor : Offs]
      BY <2>1 DEF Nowhere, NoWriter, Pointers
    <2>3. disk' \in [Segs -> [Offs -> Addrs \union {Garbage}]]
      BY <1>2 DEF TypeOK
    <2>4. crashes' \in 0 .. MaxCrashes
      BY <1>3 DEF Crash, TypeOK
    <2>5. /\ pc' \in [Threads -> {"idle", "lock", "write", "sync", "advance", "commit", "reply"}]
          /\ block' \in [Threads -> Packings \union {<< >>}] /\ base' \in [Threads -> Pointers]
      BY <2>2 DEF Crash
    <2>6. {dirty, spoilt}' \subseteq SUBSET Pointers /\ {segFiles, fresh}' \subseteq SUBSET Segs
      BY <1>1, <1>2 DEF TypeOK
    <2>. QED BY <1>1, <2>2, <2>3, <2>4, <2>5, <2>6 DEF TypeOK
  <1>5. Positions' /\ StatementsKnown' /\ DirtyAhead'
    BY <1>1 DEF Positions, StatementsKnown, DirtyAhead, Holding, NoWriter
  <1>6. SegsCounted' /\ LateFits'
    <2>1. Waiting' = {}
      BY <1>1 DEF Waiting
    <2>2. IsFiniteSet(Waiting') /\ Cardinality(Waiting') = 0
      BY <2>1, FS_EmptySet
    <2>w. Cardinality(Waiting) \in Nat
      BY FS_CardinalityType DEF SegsCounted
    <2>3. ASSUME NEW a \in Addrs, rows[a] # NoRow PROVE rows[a].seg + 0 <= puts
      <3>1. rows[a].seg \in Nat /\ rows[a].seg + Cardinality(Waiting) <= puts
        BY <2>3, Numbers DEF SegsCounted
      <3>. QED BY ONLY <1>3, <2>w, <3>1
    <2>4. writer'.seg = 0
      BY <1>1 DEF NoWriter
    <2>5. ASSUME NEW c \in late PROVE c.base.seg + 0 <= puts /\ c.base.off + Len(c.block) <= SegCap + MaxBlock
      <3>1. c.base.seg \in Nat /\ c.base.seg + Cardinality(Waiting) <= puts
        BY <2>5, Numbers DEF LateFits
      <3>. QED BY <1>3, <2>5, <2>w, <3>1 DEF LateFits
    <2>6. ASSUME NEW c \in sent PROVE c.base.seg + 0 <= puts /\ c.base.off + Len(c.block) <= SegCap + MaxBlock
      <3>1. PICK t \in Threads : pc[t] = "reply" /\ c = [block |-> block[t], base |-> base[t]]
        BY DEF StatementsKnown
      <3>2. Behind(base[t], Len(block[t])) /\ base[t].off + Len(block[t]) <= SegCap + MaxBlock
        BY <3>1 DEF AppendsBehind, RoomLeft, Done
      <3>3. base[t].seg \in Nat /\ writer.seg \in Nat /\ writer.seg + Cardinality(Waiting) <= puts
        BY Numbers DEF SegsCounted
      <3>4. base[t].seg <= writer.seg
        BY <3>2, <3>3 DEF Behind
      <3>5. base[t].seg + 0 <= puts
        BY ONLY <1>3, <2>w, <3>3, <3>4
      <3>. QED BY <3>1, <3>2, <3>5
    <2>. QED BY <1>1, <1>3, <2>2, <2>3, <2>4, <2>5, <2>6 DEF SegsCounted, LateFits
  <1>7. RoomLeft' /\ AppendsBehind' /\ AppendsApart'
    BY <1>1 DEF RoomLeft, AppendsBehind, AppendsApart, Holding, Done, NoWriter
  <1>8. CellsHold'
    <2>1. ASSUME NEW a \in Addrs \ doubtful, rows[a] # NoRow PROVE HoldsAt(rows[a].seg, rows[a].off, a)'
      <3>1. rows[a] \notin dirty
        BY <2>1, RowsClean
      <3>2. /\ rows[a].seg \in Segs /\ rows[a].off \in Offs /\ rows[a] \in Pointers
            /\ rows[a] = [seg |-> rows[a].seg, off |-> rows[a].off]
        BY <2>1 DEF TypeOK, Pointers
      <3>3. CASE rows[a].seg \in gone
        BY <1>1, <1>2, <3>2, <3>3 DEF HoldsAt
      <3>4. CASE rows[a].seg \notin gone
        <4>1. disk'[rows[a].seg][rows[a].off] = disk[rows[a].seg][rows[a].off]
          BY <1>2, <3>1, <3>2, <3>4
        <4>2. HoldsAt(rows[a].seg, rows[a].off, a)
          BY <2>1 DEF CellsHold
        <4>. QED BY <1>1, <1>2, <4>1, <4>2 DEF HoldsAt
      <3>. QED BY <3>3, <3>4
    <2>. QED BY <1>1, <2>1 DEF CellsHold, Done
  <1>. QED BY <1>4, <1>5, <1>6, <1>7, <1>8

-----------------------------------------------------------------------------
(* The theorems *)

\* The invariant is inductive.
LEMMA SegStep == SegInv /\ [Next]_vars => SegInv'
  <1>. SUFFICES ASSUME SegInv, [Next]_vars PROVE SegInv'
    OBVIOUS
  <1>1. ASSUME NEW t \in Threads,
               \/ Put(t) \/ RecoverSegWriter(t) \/ Reserve(t) \/ WriteAt(t) \/ SyncData(t)
               \/ Advance(t) \/ SendCommit(t) \/ Reply(t)
        PROVE  SegInv'
    BY <1>1, PutStep, RecoverStep, ReserveStep, WriteStep, SyncStep, AdvanceStep, SendStep, ReplyStep
  <1>2. ASSUME NEW c \in sent, PgCommit(c) PROVE SegInv'
    BY <1>2, CommitStep
  <1>3. CASE Crash
    BY <1>3, CrashStep
  <1>5. ASSUME NEW c \in late, PgCommitLate(c) PROVE SegInv'
    BY <1>5, CommitLateStep
  <1>4. CASE UNCHANGED vars
    <2>. USE <1>4 DEF vars, tvars, media, segNames, pgvars, SegInv
    <2>1. TypeOK'
      BY DEF TypeOK
    <2>2. Positions' /\ StatementsKnown' /\ SegsCounted' /\ LateFits'
      BY DEF Positions, StatementsKnown, SegsCounted, LateFits, Waiting
    <2>3. RoomLeft' /\ AppendsBehind' /\ DirtyAhead'
      BY DEF RoomLeft, AppendsBehind, Behind, DirtyAhead
    <2>4. AppendsApart'
      BY ApartKept
    <2>5. CellsHold'
      BY CellsKept
    <2>. QED BY <2>1, <2>2, <2>3, <2>4, <2>5
  <1>. QED BY <1>1, <1>2, <1>3, <1>4, <1>5 DEF Next

\* From its reservation to its reply the range of an append is apart from the
\* others, and only its own statement's rows point into it, or rows that were
\* committed late.
LEMMA DisjointFromInv == SegInv => RangesDisjoint
  <1>. SUFFICES ASSUME SegInv PROVE RangesDisjoint
    OBVIOUS
  <1>. USE DEF SegInv, media, segNames, pgvars
  <1>. DEFINE open == {t \in Threads : pc[t] \in {"write", "sync", "advance", "commit", "reply"}}
              from(t) == IF t \in lock THEN [seg |-> writer.seg, off |-> writer.cursor] ELSE base[t]
              range(t) == Cells(from(t), Len(block[t]))
  <1>1. ASSUME NEW t \in open
        PROVE  /\ Len(block[t]) \in Nat /\ from(t).seg \in Nat /\ from(t).off \in Nat
               /\ from(t) = [seg |-> from(t).seg, off |-> from(t).off]
    BY <1>1, Numbers
  <1>2. ASSUME NEW t \in open, NEW x \in range(t)
        PROVE  /\ x.seg = from(t).seg /\ x.off \in Nat
               /\ from(t).off <= x.off /\ x.off < from(t).off + Len(block[t])
    <2>1. range(t) = Cells([seg |-> from(t).seg, off |-> from(t).off], Len(block[t]))
      BY <1>1
    <2>. HIDE DEF from
    <2>. QED BY <1>1, <1>2, <2>1, CellsFacts
  <1>3. \A t \in open :
            IF t \in lock
            THEN pc[t] \in Holding /\ from(t) = [seg |-> writer.seg, off |-> writer.cursor]
            ELSE pc[t] \in Done /\ from(t) = base[t]
    BY DEF Positions, Holding, Done
  <1>4. ASSUME NEW t \in open, NEW u \in open, t # u
        PROVE  Apart(from(t), Len(block[t]), from(u), Len(block[u]))
    <2>1. /\ writer.seg \in Nat /\ writer.cursor \in Nat
          /\ Len(block[t]) \in Nat /\ Len(block[u]) \in Nat
          /\ base[t].seg \in Nat /\ base[t].off \in Nat /\ base[u].seg \in Nat /\ base[u].off \in Nat
      BY Numbers
    <2>2. CASE t \in lock
      <3>1. u \notin lock
        BY <1>3, <1>4, <2>2 DEF Positions
      <3>2. Behind(base[u], Len(block[u])) /\ from(u) = base[u]
            /\ from(t) = [seg |-> writer.seg, off |-> writer.cursor]
        BY <1>3, <2>2, <3>1 DEF AppendsBehind
      <3>. QED BY <2>1, <3>2 DEF Behind, Apart
    <2>3. CASE t \notin lock /\ u \in lock
      <3>1. Behind(base[t], Len(block[t])) /\ from(t) = base[t]
            /\ from(u) = [seg |-> writer.seg, off |-> writer.cursor]
        BY <1>3, <2>3 DEF AppendsBehind
      <3>. QED BY <2>1, <3>1 DEF Behind, Apart
    <2>4. CASE t \notin lock /\ u \notin lock
      BY <1>3, <1>4, <2>4 DEF AppendsApart
    <2>. QED BY <2>2, <2>3, <2>4
  <1>5. ASSUME NEW t \in open, NEW u \in open, t # u PROVE range(t) \intersect range(u) = {}
    <2>1. SUFFICES ASSUME NEW x \in range(t), x \in range(u) PROVE FALSE
      OBVIOUS
    <2>2. Apart(from(t), Len(block[t]), from(u), Len(block[u]))
      BY <1>4, <1>5
    <2>3. /\ x.seg = from(t).seg /\ x.off \in Nat
          /\ from(t).off <= x.off /\ x.off < from(t).off + Len(block[t])
      BY <1>2, <2>1
    <2>4. x.seg = from(u).seg /\ from(u).off <= x.off /\ x.off < from(u).off + Len(block[u])
      BY <1>2, <2>1
    <2>5. /\ Len(block[t]) \in Nat /\ from(t).seg \in Nat /\ from(t).off \in Nat
          /\ Len(block[u]) \in Nat /\ from(u).seg \in Nat /\ from(u).off \in Nat
      BY <1>1
    <2>. HIDE DEF from
    <2>. QED BY ONLY <2>2, <2>3, <2>4, <2>5 DEF Apart
  <1>6. ASSUME NEW t \in open, NEW a \in Addrs \ doubtful, rows[a] \in range(t)
        PROVE  pc[t] = "reply" /\ RowFor([block |-> block[t], base |-> base[t]], a) = rows[a]
    <2>1. /\ rows[a].seg = from(t).seg /\ rows[a].off \in Nat
          /\ from(t).off <= rows[a].off /\ rows[a].off < from(t).off + Len(block[t])
      BY <1>2, <1>6
    <2>2. rows[a] # NoRow
      <3>1. rows[a] = [seg |-> rows[a].seg, off |-> rows[a].off] /\ rows[a].seg \in Nat
        <4>1. range(t) = Cells([seg |-> from(t).seg, off |-> from(t).off], Len(block[t]))
          BY <1>1
        <4>. HIDE DEF from
        <4>. QED BY <1>1, <1>6, <2>1, <4>1, CellsFacts
      <3>. QED BY <2>1, <3>1, ObjSegAssumption
    <2>3. writer.known
      BY <1>3, <1>6 DEF Positions, Holding, Done
    <2>4. Behind(rows[a], 1) /\ rows[a].seg \in Nat /\ rows[a].off \in Nat
      BY <2>2, <2>3, Numbers DEF AppendsBehind
    <2>5. t \notin lock
      <3>1. SUFFICES ASSUME t \in lock PROVE FALSE
        OBVIOUS
      <3>2. rows[a].seg = writer.seg /\ writer.cursor <= rows[a].off
        BY <1>3, <2>1, <3>1
      <3>3. writer.seg \in Nat /\ writer.cursor \in Nat
        BY Numbers
      <3>. QED BY ONLY <2>4, <3>2, <3>3 DEF Behind
    <2>6. pc[t] \in Done /\ from(t) = base[t]
      BY <1>3, <2>5
    <2>7. ~ Apart(base[t], Len(block[t]), rows[a], 1)
      <3>1. base[t].off \in Nat /\ Len(block[t]) \in Nat
        BY Numbers
      <3>2. /\ rows[a].seg = base[t].seg /\ base[t].off <= rows[a].off
            /\ rows[a].off < base[t].off + Len(block[t])
        BY <2>1, <2>6
      <3>. QED BY ONLY <2>4, <3>1, <3>2 DEF Apart
    <2>8. pc[t] = "reply" /\ RowOf(t, a)
      BY <2>2, <2>6, <2>7 DEF AppendsApart
    <2>9. block[t] \in Packings /\ base[t] \in Pointers
      BY <2>8 DEF Positions, TypeOK
    <2>. QED BY <2>8, <2>9, RowForFacts DEF RowOf
  <1>. QED BY <1>5, <1>6 DEF RangesDisjoint

\* The inductive invariant holds in every reachable state.
THEOREM SegInvariant == Spec => []SegInv
  <1>. QED BY SegInit, SegStep, PTL DEF Spec

\* seg_append and the rows of its block, with writes that are cut short, crashes
\* that take a new segment's name and statements that Postgres executes after
\* their client's death: every row points at its object, on disk and synced,
\* except the rows that were committed late or point at a cell which a short
\* write left out or whose file was lost; and no two appends share a cell.
THEOREM PointersGood == Spec => []PointersAreGood
  <1>1. SegInv => RowsPointAtObjects
    <2>1. SUFFICES ASSUME SegInv, NEW a \in Addrs \ doubtful, rows[a] # NoRow
                   PROVE  (rows[a] \notin spoilt => SegRead(rows[a]) = a) /\ rows[a] \notin dirty
      BY DEF RowsPointAtObjects
    <2>2. HoldsAt(rows[a].seg, rows[a].off, a) /\ rows[a] = [seg |-> rows[a].seg, off |-> rows[a].off]
      BY <2>1, Numbers DEF SegInv, CellsHold
    <2>. QED BY <2>1, <2>2, RowsClean DEF HoldsAt, SegRead
  <1>2. SegInv => PointersAreGood
    BY <1>1, DisjointFromInv DEF PointersAreGood, SegInv
  <1>. QED BY <1>2, SegInvariant, PTL

-----------------------------------------------------------------------------
(* The SLA block writer: SlabLock                                          *)

\* What a block holds at most: one record may be larger than the block.
Full == IF MaxSize > BlockBytes THEN MaxSize ELSE BlockBytes
\* A file on disk: its records and how many of them are synced.
File == {f \in [data : Seq(1 .. MaxRecs), synced : Nat] : f.synced <= Len(f.data)}

\* The oldest block that is not published: the first full one, the active one,
\* or else the one to be minted next.
Oldest == IF pending # << >> THEN Head(pending) ELSE IF active # NoBlock THEN active ELSE nextSeq

\* The blocks the writer holds
Open(s) == Oldest <= s /\ s < nextSeq

\* d has sealed exactly the blocks before m
SealedBelow(d, m) == \A s \in Seqs : d[Sealed(s)] # 0 <=> s < m

\* The name a block the writer holds goes by
NameOf(s) == IF slabPc = "sealed" /\ s = Oldest THEN Sealed(s) ELSE Part(s)

\* The types, with files as records.
SlabTypes ==
    /\ inodes \in Seq(File)
    /\ dir \in [Names -> 0 .. Len(inodes)] /\ ddir \in [Names -> 0 .. Len(inodes)]
    /\ slabPc \in {"closed", "idle", "sweep", "dir", "sealed"} /\ sealing \in BOOLEAN
    /\ nextSeq \in Nat /\ active \in Seqs \union {NoBlock} /\ pending \in Seq(Seqs)
    /\ blockOf \in [Seqs -> [inode : 0 .. Len(inodes), len : 0 .. Full,
                             unflushed : 0 .. Full, dirSynced : BOOLEAN]]
    /\ pos \in Seq([seq : Seqs, off : 0 .. Full, size : 0 .. MaxSize])
    /\ Len(pos) <= MaxRecs
    /\ published \subseteq 1 .. Len(pos)
    /\ born \in 0 .. Len(pos) /\ deaths \in 0 .. MaxDeaths

\* The full blocks follow one another up to the active one, which is the last
\* minted; the sweep is never between two steps without a block in hand.
BlocksInOrder ==
    /\ nextSeq <= Len(pos)
    /\ \A i \in 1 .. Len(pending) : pending[i] = Oldest + i - 1
    /\ active # NoBlock => active = Oldest + Len(pending) /\ nextSeq = active + 1
    /\ active = NoBlock => pending = << >>
    /\ slabPc = "closed" => active = NoBlock /\ born = Len(pos)
    /\ slabPc \in {"dir", "sealed"} => active # NoBlock

\* The sealed names, as seen and as durable: without a gap, up to the oldest
\* block the writer holds.
SealedInOrder ==
    /\ slabPc # "closed" =>
         /\ SealedBelow(ddir, Oldest)
         /\ SealedBelow(dir, IF slabPc = "sealed" THEN Oldest + 1 ELSE Oldest)
    /\ slabPc = "closed" =>
         /\ dir = ddir /\ \E m \in 0 .. Len(pos) : SealedBelow(dir, m)

\* A file has never had the names of two blocks.
FilesApart ==
    \A a, b \in Names :
        /\ dir[a] = dir[b] /\ dir[a] # 0 => a.seq = b.seq
        /\ ddir[a] = ddir[b] /\ ddir[a] # 0 => a.seq = b.seq
        /\ dir[a] = ddir[b] /\ dir[a] # 0 => a.seq = b.seq

\* What the writer knows of a block it holds is true of its file.
OpenFiles ==
    slabPc # "closed" =>
    \A s \in Seqs : Open(s) =>
        LET b == blockOf[s] IN
        /\ b.inode # 0 /\ dir[NameOf(s)] = b.inode
        /\ Len(inodes[b.inode].data) = b.len
        /\ inodes[b.inode].synced + b.unflushed = b.len
        /\ b.dirSynced => ddir[Part(s)] = b.inode
        /\ b.unflushed = 0 /\ b.len > 0 => b.dirSynced \/ (slabPc = "dir" /\ s = Oldest)
        /\ slabPc \in {"dir", "sealed"} /\ s = Oldest => b.unflushed = 0
        /\ s # active => b.len > 0

\* The file of a sealed block is synced whole, and the name stays.
SealedFiles ==
    \A s \in Seqs :
        /\ dir[Sealed(s)] # 0 => inodes[dir[Sealed(s)]].synced = Len(inodes[dir[Sealed(s)]].data)
        /\ ddir[Sealed(s)] # 0 => dir[Sealed(s)] = ddir[Sealed(s)]

\* File f has the bytes of record r at place p
InPlace(f, p, r) ==
    /\ p.off + p.size <= Len(f.data)
    /\ \A k \in 1 .. p.size : f.data[p.off + k] = r

\* A record of this life is published or in a block the writer holds.
RecordsInPlace ==
    \A r \in Mine : r \in published
                    \/ (Open(pos[r].seq) /\ InPlace(inodes[blockOf[pos[r].seq].inode], pos[r], r))

\* A published record is in the durable file of its sealed block.
PublishedKept ==
    \A r \in published : /\ ddir[Sealed(pos[r].seq)] # 0
                          /\ InPlace(inodes[ddir[Sealed(pos[r].seq)]], pos[r], r)

\* What a sweep has covered is published, or synced in a file whose name is.
TickedKept ==
    /\ ticked \subseteq Mine
    /\ \A r \in ticked : \/ r \in published
                         \/ LET b == blockOf[pos[r].seq]
                            IN  b.dirSynced /\ pos[r].off + pos[r].size + b.unflushed <= b.len

\* The inductive invariant.
SlabInv ==
    /\ SlabTypes /\ BlocksInOrder /\ SealedInOrder /\ FilesApart /\ OpenFiles /\ SealedFiles
    /\ RecordsInPlace /\ PublishedKept /\ TickedKept

-----------------------------------------------------------------------------
(* Facts about names and the blocks in hand *)

\* A block has two names, and no name belongs to two blocks.
LEMMA NameFacts ==
    /\ \A s \in Seqs : /\ Part(s) \in Names /\ Sealed(s) \in Names
                       /\ Part(s).seq = s /\ Sealed(s).seq = s
    /\ \A n \in Names : n.seq \in Seqs /\ (n = Part(n.seq) \/ n = Sealed(n.seq))
    /\ \A s, t \in Seqs : /\ Part(s) # Sealed(t)
                          /\ Part(s) = Part(t) => s = t
                          /\ Sealed(s) = Sealed(t) => s = t
    BY DEF Names, Part, Sealed

\* The block in turn is the oldest one.
LEMMA OldestFacts ==
    ASSUME SlabTypes, BlocksInOrder
    PROVE  /\ Oldest \in Nat /\ Oldest <= nextSeq /\ nextSeq <= Len(pos) /\ Len(pos) \in Nat
           /\ nextSeq <= MaxRecs /\ MaxRecs \in Nat
           /\ active = NoBlock => Oldest = nextSeq /\ Current = NoBlock
           /\ active # NoBlock => /\ Oldest < nextSeq /\ Current = Oldest /\ Oldest \in Seqs
                                  /\ Current # NoBlock /\ active \in Seqs /\ Open(active)
                                  /\ nextSeq = active + 1
                                  /\ pending = << >> => active = Oldest
                                  /\ pending # << >> => active > Oldest
           /\ \A s \in Nat : Open(s) => s \in Seqs /\ active # NoBlock
           /\ NoBlock \notin Nat
<1>1. Len(pos) \in Nat /\ nextSeq \in Nat /\ NoBlock \notin Nat /\ MaxRecs \in Nat
      /\ Len(pos) <= MaxRecs /\ nextSeq <= Len(pos)
    BY SlabAssumption DEF SlabTypes, BlocksInOrder
<1>2. CASE active = NoBlock
  <2>1. pending = << >> /\ Oldest = nextSeq /\ Current = NoBlock
      BY <1>2 DEF BlocksInOrder, Oldest, Current
  <2> QED BY <1>1, <1>2, <2>1 DEF Open
<1>3. CASE active # NoBlock
  <2>1. active \in Seqs /\ active = Oldest + Len(pending) /\ nextSeq = active + 1
        /\ active \in Nat /\ Seqs \subseteq Nat
      BY <1>1, <1>3 DEF SlabTypes, BlocksInOrder, Seqs
  <2>2. CASE pending = << >>
    <3>1. Oldest = active /\ Current = active BY <1>3, <2>2 DEF Oldest, Current
    <3> QED BY <1>1, <1>3, <2>1, <2>2, <3>1 DEF Open, Seqs
  <2>3. CASE pending # << >>
    <3>1. Len(pending) \in Nat \ {0} /\ Head(pending) \in Seqs
        BY <2>3 DEF SlabTypes
    <3>2. Oldest = Head(pending) /\ Current = Oldest BY <2>3 DEF Oldest, Current
    <3>3. Oldest \in Nat BY <2>1, <3>1, <3>2
    <3>4. PICK n \in Nat \ {0} : n = Len(pending) /\ active = Oldest + n BY <2>1, <3>1
    <3>5. Oldest \in Seqs /\ Oldest < nextSeq /\ active > Oldest /\ Current # NoBlock
        BY <1>1, <2>1, <3>1, <3>2, <3>3, <3>4
    <3>6. \A s \in Nat : Open(s) => s \in Seqs BY <1>1, <2>1 DEF Open, Seqs
    <3>7. Open(active) BY <1>1, <2>1, <3>3, <3>5 DEF Open
    <3>8. /\ Oldest \in Nat /\ Oldest <= nextSeq /\ nextSeq <= Len(pos) /\ Len(pos) \in Nat
          /\ nextSeq <= MaxRecs /\ MaxRecs \in Nat
        BY <1>1, <3>3, <3>5
    <3> HIDE DEF Oldest
    <3> QED BY <1>1, <1>3, <2>1, <2>3, <3>2, <3>3, <3>5, <3>6, <3>7, <3>8
  <2> QED BY <2>2, <2>3
<1> QED BY <1>2, <1>3

\* The names of a block lead to files or to none.
LEMMA InodeFacts ==
    ASSUME SlabTypes, NEW s \in Seqs
    PROVE  /\ dir[Part(s)] \in 0 .. Len(inodes) /\ dir[Sealed(s)] \in 0 .. Len(inodes)
           /\ ddir[Part(s)] \in 0 .. Len(inodes) /\ ddir[Sealed(s)] \in 0 .. Len(inodes)
           /\ Len(inodes) \in Nat
    BY NameFacts DEF SlabTypes

\* What the types say of a record of this life.
LEMMA MineFacts ==
    ASSUME SlabTypes, NEW r \in Mine
    PROVE  /\ r \in 1 .. Len(pos) /\ r \in Nat /\ Len(pos) \in Nat /\ r > born
           /\ pos[r].seq \in Seqs /\ pos[r].off \in Nat /\ pos[r].size \in Nat \ {0}
<1>1. Len(pos) \in Nat /\ born \in Nat /\ Full \in Nat /\ MaxSize \in Nat
    BY SlabAssumption DEF SlabTypes, Full
<1>2. r \in 1 .. Len(pos) /\ pos[r].size > 0 /\ r > born BY <1>1 DEF Mine
<1>3. pos[r].seq \in Seqs /\ pos[r].off \in 0 .. Full /\ pos[r].size \in 0 .. MaxSize
  <2> DEFINE Places == [seq : Seqs, off : 0 .. Full, size : 0 .. MaxSize]
  <2>1. pos \in Seq(Places) BY DEF SlabTypes
  <2> HIDE DEF Places
  <2>2. pos[r] \in Places BY <1>2, <2>1
  <2> QED BY <2>2 DEF Places
<1> QED BY <1>1, <1>2, <1>3

\* The same after a step.
LEMMA MineFactsNext ==
    ASSUME SlabTypes', NEW r \in Mine'
    PROVE  pos'[r].seq \in Seqs
<1> DEFINE Places == [seq : Seqs, off : 0 .. Full, size : 0 .. MaxSize]
<1>1. pos' \in Seq(Places) /\ Len(pos') \in Nat /\ born' \in Nat BY DEF SlabTypes
<1> HIDE DEF Places
<1>2. r \in 1 .. Len(pos')
  <2>1. PICK lo \in Nat, hi \in Nat : lo = born' /\ hi = Len(pos') BY <1>1
  <2>2. r \in (lo + 1) .. hi BY <2>1 DEF Mine
  <2>3. r \in 1 .. hi BY <2>2
  <2> QED BY <2>1, <2>3
<1>3. pos'[r] \in Places BY <1>1, <1>2
<1> QED BY <1>3 DEF Places

\* The same of a published record.
LEMMA PublishedFacts ==
    ASSUME SlabTypes, NEW r \in published
    PROVE  r \in 1 .. Len(pos) /\ r \in Nat /\ Len(pos) \in Nat /\ pos[r].seq \in Seqs
<1> DEFINE Places == [seq : Seqs, off : 0 .. Full, size : 0 .. MaxSize]
<1>1. pos \in Seq(Places) /\ r \in 1 .. Len(pos) BY DEF SlabTypes
<1>2. pos[r].seq \in Seqs
  <2> HIDE DEF Places
  <2>1. pos[r] \in Places BY <1>1
  <2> QED BY <2>1 DEF Places
<1> QED BY <1>1, <1>2

\* A file a writer holds is not that of a sealed block, nor of another it holds.
LEMMA HeldApart ==
    ASSUME SlabTypes, BlocksInOrder, SealedInOrder, FilesApart, OpenFiles, slabPc # "closed",
           NEW s \in Seqs, Open(s)
    PROVE  /\ blockOf[s].inode \in 1 .. Len(inodes)
           /\ \A t \in Seqs : Open(t) /\ t # s => blockOf[t].inode # blockOf[s].inode
           /\ \A t \in Seqs : ddir[Sealed(t)] # 0 => ddir[Sealed(t)] # blockOf[s].inode
           /\ \A t \in Seqs : dir[Sealed(t)] # 0 /\ ~(slabPc = "sealed" /\ s = Oldest)
                                => dir[Sealed(t)] # blockOf[s].inode
<1>1. dir[NameOf(s)] = blockOf[s].inode /\ blockOf[s].inode # 0
      /\ NameOf(s) \in Names /\ NameOf(s).seq = s
    BY NameFacts DEF OpenFiles, NameOf
<1>2. blockOf[s].inode \in 1 .. Len(inodes) BY <1>1 DEF SlabTypes
<1>3. ASSUME NEW t \in Seqs, Open(t), t # s PROVE blockOf[t].inode # blockOf[s].inode
  <2>1. dir[NameOf(t)] = blockOf[t].inode /\ NameOf(t) \in Names /\ NameOf(t).seq = t
      BY <1>3, NameFacts DEF OpenFiles, NameOf
  <2> QED BY <1>1, <1>3, <2>1 DEF FilesApart
<1>4. ASSUME NEW t \in Seqs, ddir[Sealed(t)] # 0 PROVE ddir[Sealed(t)] # blockOf[s].inode
  <2>1. t < Oldest BY <1>4 DEF SealedInOrder, SealedBelow
  <2>2. t # s BY <2>1, OldestFacts DEF Open, Seqs
  <2>3. Sealed(t) \in Names /\ Sealed(t).seq = t BY NameFacts
  <2> QED BY <1>1, <2>2, <2>3 DEF FilesApart
<1>5. ASSUME NEW t \in Seqs, dir[Sealed(t)] # 0, ~(slabPc = "sealed" /\ s = Oldest)
      PROVE  dir[Sealed(t)] # blockOf[s].inode
  <2>1. t < (IF slabPc = "sealed" THEN Oldest + 1 ELSE Oldest)
      BY <1>5 DEF SealedInOrder, SealedBelow
  <2>2. Sealed(t) \in Names /\ Sealed(t).seq = t BY NameFacts
  <2>3. t # s BY <2>1, <1>5, OldestFacts DEF Open, Seqs
  <2> QED BY <1>1, <2>2, <2>3 DEF FilesApart
<1> QED BY <1>2, <1>3, <1>4, <1>5

\* A fresh directory.
LEMMA SlabStart == ASSUME SlabInit PROVE SlabInv
<1> USE DEF SlabInit
<1>1. Len(inodes) = 0 /\ Len(pos) = 0 /\ pos = << >> OBVIOUS
<1>2. BlockBytes \in Nat /\ MaxSize \in Nat /\ MaxRecs \in Nat /\ MaxDeaths \in Nat
    BY SlabAssumption
<1>3. \A n \in Names : dir[n] = 0 /\ ddir[n] = 0 OBVIOUS
<1>4. SlabTypes
  <2>1. NoData \in [inode : 0 .. Len(inodes), len : 0 .. Full,
                    unflushed : 0 .. Full, dirSynced : BOOLEAN]
      BY <1>1, <1>2 DEF NoData, Full
  <2>2. dir \in [Names -> 0 .. Len(inodes)] /\ ddir \in [Names -> 0 .. Len(inodes)]
      BY <1>1
  <2>3. inodes \in Seq(File) /\ pending \in Seq(Seqs)
        /\ pos \in Seq([seq : Seqs, off : 0 .. Full, size : 0 .. MaxSize])
      OBVIOUS
  <2>4. blockOf \in [Seqs -> [inode : 0 .. Len(inodes), len : 0 .. Full,
                             unflushed : 0 .. Full, dirSynced : BOOLEAN]]
      BY <2>1
  <2>5. /\ slabPc = "closed" /\ sealing \in BOOLEAN /\ nextSeq \in Nat /\ active = NoBlock
        /\ published = {} /\ born = 0 /\ deaths = 0
      OBVIOUS
  <2> HIDE DEF SlabInit
  <2>6. Len(pos) <= MaxRecs /\ born \in 0 .. Len(pos) /\ deaths \in 0 .. MaxDeaths
      BY <1>1, <1>2, <2>5
  <2> QED BY <2>2, <2>3, <2>4, <2>5, <2>6 DEF SlabTypes
<1>5. BlocksInOrder BY <1>1 DEF BlocksInOrder
<1>6. SealedInOrder
  <2>1. SealedBelow(dir, 0) BY <1>2, <1>3, NameFacts DEF SealedBelow, Seqs
  <2> QED BY <1>1, <2>1 DEF SealedInOrder
<1>7. FilesApart BY <1>3 DEF FilesApart
<1>8. OpenFiles BY DEF OpenFiles
<1>9. SealedFiles BY <1>3, NameFacts DEF SealedFiles
<1>10. Mine = {} BY <1>1 DEF Mine
<1>11. RecordsInPlace /\ PublishedKept /\ TickedKept
    BY <1>10 DEF RecordsInPlace, PublishedKept, TickedKept
<1> QED BY <1>4, <1>5, <1>6, <1>7, <1>8, <1>9, <1>11 DEF SlabInv

-----------------------------------------------------------------------------
(* Steps that change no file *)

\* Between an idle writer and a sweep: only what is covered may change.
LEMMA QuietStep ==
    ASSUME SlabInv, UNCHANGED <<fvars, svars, pos, born, published, deaths>>,
           slabPc' = slabPc \/ (slabPc \in {"idle", "sweep"} /\ slabPc' \in {"idle", "sweep"}),
           sealing' \in BOOLEAN, TickedKept'
    PROVE  SlabInv'
<1>1. UNCHANGED <<inodes, dir, ddir, nextSeq, active, pending, blockOf, pos, born, published, deaths>>
      /\ Oldest' = Oldest /\ Mine' = Mine
    BY DEF fvars, svars, Oldest, Mine
<1>2. SlabTypes' BY <1>1 DEF SlabInv, SlabTypes
<1>3. BlocksInOrder' BY <1>1 DEF SlabInv, BlocksInOrder
<1>4. SealedInOrder' BY <1>1 DEF SlabInv, SealedInOrder, SealedBelow
<1>5. FilesApart' /\ SealedFiles' BY <1>1 DEF SlabInv, FilesApart, SealedFiles
<1>6. OpenFiles'
  <2>1. OpenFiles BY DEF SlabInv
  <2>2. \A s \in Seqs : Open(s)' = Open(s) /\ NameOf(s)' = NameOf(s)
      BY <1>1 DEF Open, NameOf
  <2> QED BY <1>1, <2>1, <2>2 DEF OpenFiles
<1>7. RecordsInPlace' BY <1>1 DEF SlabInv, RecordsInPlace, InPlace, Open
<1>8. PublishedKept' BY <1>1 DEF SlabInv, PublishedKept, InPlace
<1> QED BY <1>2, <1>3, <1>4, <1>5, <1>6, <1>7, <1>8 DEF SlabInv

\* The counter resumes behind the highest sealed block.
LEMMA ResumeFacts ==
    ASSUME SlabTypes, NEW m \in 0 .. Len(pos), SealedBelow(dir, m)
    PROVE  (IF SealedSeqs(dir) = {} THEN 0 ELSE Max(SealedSeqs(dir)) + 1) = m
<1>1. Len(pos) \in Nat /\ MaxRecs \in Nat /\ Len(pos) <= MaxRecs
    BY SlabAssumption DEF SlabTypes
<1>2. \A s \in Seqs : s \in SealedSeqs(dir) <=> s < m BY DEF SealedBelow, SealedSeqs
<1>3. SealedSeqs(dir) \subseteq Seqs BY DEF SealedSeqs
<1>4. CASE m = 0
  <2>1. SealedSeqs(dir) = {} BY <1>2, <1>3, <1>4 DEF Seqs
  <2> QED BY <1>4, <2>1
<1>5. CASE m # 0
  <2>1. m - 1 \in SealedSeqs(dir) /\ \A s \in SealedSeqs(dir) : s \in Nat /\ s <= m - 1
      BY <1>1, <1>2, <1>3, <1>5 DEF Seqs
  <2>2. Max(SealedSeqs(dir)) \in SealedSeqs(dir) /\ Max(SealedSeqs(dir)) >= m - 1
    <3> DEFINE top(x) == \A y \in SealedSeqs(dir) : x >= y
    <3>1. top(m - 1) BY <2>1
    <3>2. Max(SealedSeqs(dir)) = CHOOSE x \in SealedSeqs(dir) : top(x) BY DEF Max
    <3>3. Max(SealedSeqs(dir)) \in SealedSeqs(dir) /\ top(Max(SealedSeqs(dir)))
        BY <2>1, <3>1, <3>2
    <3> QED BY <2>1, <3>3
  <2>3. PICK x \in Nat : x = Max(SealedSeqs(dir)) /\ x <= m - 1 /\ x >= m - 1
      BY <2>1, <2>2
  <2> QED BY <1>5, <2>1, <2>3
<1> QED BY <1>4, <1>5

\* A writer that opens the directory holds nothing, and all its records before
\* are published or another's.
LEMMA OpenStep == ASSUME SlabInv, SlabOpen PROVE SlabInv'
<1>1. /\ UNCHANGED <<inodes, dir, ddir, sealing, active, pending, blockOf, pos, born, ticked,
                     published, deaths>>
      /\ slabPc' = "idle" /\ slabPc \in {"closed", "idle"} /\ Mine' = Mine
      /\ active = NoBlock /\ pending = << >>
    BY DEF SlabOpen, Quiet, fvars, avars, Mine, SlabInv, BlocksInOrder
<1>2. PICK m \in 0 .. Len(pos) : SealedBelow(dir, m) /\ SealedBelow(ddir, m)
  <2>1. CASE slabPc = "closed" BY <2>1 DEF SlabInv, SealedInOrder
  <2>2. CASE slabPc = "idle"
    <3>1. SealedBelow(dir, Oldest) /\ SealedBelow(ddir, Oldest) BY <2>2 DEF SlabInv, SealedInOrder
    <3>2. Oldest \in Nat /\ Oldest <= nextSeq /\ nextSeq <= Len(pos)
          /\ nextSeq \in Nat /\ Len(pos) \in Nat
        BY OldestFacts DEF SlabInv, SlabTypes
    <3>3. Oldest \in 0 .. Len(pos) BY <3>2
    <3> QED BY <3>1, <3>3
  <2> QED BY <1>1, <2>1, <2>2
<1>3. nextSeq' = m BY <1>2, ResumeFacts DEF SlabOpen, SlabInv
<1>4. Oldest' = m BY <1>1, <1>3 DEF Oldest
<1>5. \A s \in Nat : ~Open(s)' BY <1>3, <1>4 DEF Open
<1>6. SlabTypes'
  <2>1. nextSeq' \in Nat BY <1>3 DEF SlabInv, SlabTypes
  <2> QED BY <1>1, <2>1 DEF SlabInv, SlabTypes
<1>7. BlocksInOrder'
    BY <1>1, <1>3 DEF SlabInv, BlocksInOrder, SlabTypes
<1>8. SealedInOrder' BY <1>1, <1>2, <1>4 DEF SealedInOrder, SealedBelow
<1>9. FilesApart' /\ SealedFiles' BY <1>1 DEF SlabInv, FilesApart, SealedFiles
<1>10. OpenFiles' BY <1>5 DEF OpenFiles, Seqs
<1>11. \A r \in Mine : r \in published
  <2>1. CASE slabPc = "closed"
    <3>1. born = Len(pos) /\ Len(pos) \in Nat BY <2>1 DEF SlabInv, BlocksInOrder, SlabTypes
    <3> QED BY <3>1 DEF Mine
  <2>2. CASE slabPc = "idle"
    <3>1. Oldest = nextSeq BY <1>1 DEF Oldest
    <3>2. \A s \in Seqs : ~Open(s) BY <3>1 DEF Open, Seqs, SlabInv, SlabTypes
    <3>3. \A r \in Mine : pos[r].seq \in Seqs BY MineFacts DEF SlabInv
    <3> QED BY <3>2, <3>3 DEF SlabInv, RecordsInPlace
  <2> QED BY <1>1, <2>1, <2>2
<1>12. RecordsInPlace' BY <1>1, <1>11 DEF RecordsInPlace
<1>13. PublishedKept' BY <1>1 DEF SlabInv, PublishedKept, InPlace
<1>14. TickedKept' BY <1>1 DEF SlabInv, TickedKept
<1> QED BY <1>6, <1>7, <1>8, <1>9, <1>10, <1>12, <1>13, <1>14 DEF SlabInv

\* A sweep that ends has covered every record of this life.
LEMMA SweepDoneStep == ASSUME SlabInv, SweepDone PROVE SlabInv'
<1>1. /\ UNCHANGED <<fvars, svars, pos, born, published, deaths, sealing>>
      /\ slabPc = "sweep" /\ slabPc' = "idle" /\ ticked' = Mine /\ ~MustSeal
      /\ Current # NoBlock => blockOf[Current].unflushed = 0
    BY DEF SweepDone
<1>2. UNCHANGED <<blockOf, pos, born, published>> /\ Mine' = Mine BY <1>1 DEF svars, Mine
<1>3. ASSUME NEW r \in Mine, r \notin published
      PROVE  LET b == blockOf[pos[r].seq]
             IN  b.dirSynced /\ pos[r].off + pos[r].size + b.unflushed <= b.len
  <2> DEFINE s == pos[r].seq
             b == blockOf[s]
  <2>1. s \in Seqs /\ pos[r].off \in Nat /\ pos[r].size \in Nat \ {0}
      BY MineFacts DEF SlabInv
  <2>2. Open(s) /\ InPlace(inodes[b.inode], pos[r], r) BY <1>3 DEF SlabInv, RecordsInPlace
  <2>3. active # NoBlock /\ Current = Oldest /\ Current # NoBlock /\ s \in Nat
      BY <2>1, <2>2, OldestFacts DEF SlabInv, Seqs
  <2>4. Current = active BY <1>1, <2>3 DEF MustSeal
  <2>5. s = Current
      BY <2>2, <2>3, <2>4, OldestFacts DEF SlabInv, Open
  <2>6. b.unflushed = 0 BY <1>1, <2>3, <2>5
  <2>7. Len(inodes[b.inode].data) = b.len /\ (b.unflushed = 0 /\ b.len > 0 => b.dirSynced)
      BY <1>1, <2>1, <2>2 DEF SlabInv, OpenFiles
  <2>8. pos[r].off + pos[r].size <= b.len BY <2>2, <2>7 DEF InPlace
  <2>9. b.len \in Nat
    <3>1. b \in [inode : 0 .. Len(inodes), len : 0 .. Full, unflushed : 0 .. Full,
                 dirSynced : BOOLEAN]
        BY <2>1 DEF SlabInv, SlabTypes
    <3> QED BY <3>1
  <2>10. b.len > 0 BY <2>1, <2>8, <2>9
  <2> QED BY <2>1, <2>6, <2>7, <2>8, <2>9, <2>10
<1>4. TickedKept' BY <1>1, <1>2, <1>3 DEF TickedKept
<1>5. sealing' \in BOOLEAN BY <1>1 DEF SlabInv, SlabTypes
<1> QED BY <1>1, <1>4, <1>5, QuietStep

-----------------------------------------------------------------------------
(* The steps of a sweep *)

\* What the writer knows of a block.
LEMMA BlockFacts ==
    ASSUME SlabTypes, NEW s \in Seqs
    PROVE  /\ blockOf[s].inode \in 0 .. Len(inodes) /\ blockOf[s].len \in 0 .. Full
           /\ blockOf[s].unflushed \in 0 .. Full /\ blockOf[s].dirSynced \in BOOLEAN
           /\ Full \in Nat /\ Len(inodes) \in Nat
<1> DEFINE Blocks == [inode : 0 .. Len(inodes), len : 0 .. Full,
                      unflushed : 0 .. Full, dirSynced : BOOLEAN]
<1>1. blockOf[s] \in Blocks BY DEF SlabTypes
<1>2. Full \in Nat /\ Len(inodes) \in Nat BY SlabAssumption DEF SlabTypes, Full
<1> QED BY <1>1, <1>2

\* A block is a record of the four.
LEMMA BlockIs ==
    ASSUME SlabTypes, NEW s \in Seqs
    PROVE  blockOf[s] = [inode |-> blockOf[s].inode, len |-> blockOf[s].len,
                         unflushed |-> blockOf[s].unflushed, dirSynced |-> blockOf[s].dirSynced]
<1> DEFINE Blocks == [inode : 0 .. Len(inodes), len : 0 .. Full,
                      unflushed : 0 .. Full, dirSynced : BOOLEAN]
<1>1. blockOf[s] \in Blocks BY DEF SlabTypes
<1> QED BY <1>1

\* sync_all covers one file whole and changes no byte.
LEMMA SyncFacts ==
    ASSUME NEW files \in Seq(File), NEW i \in 1 .. Len(files), NEW g,
           g = [files EXCEPT ![i].synced = Len(files[i].data)]
    PROVE  /\ g \in Seq(File) /\ Len(g) = Len(files)
           /\ \A j \in 1 .. Len(files) : g[j].data = files[j].data
           /\ \A j \in 1 .. Len(files) : j # i => g[j] = files[j]
           /\ g[i].synced = Len(files[i].data)
<1>1. files[i] \in File OBVIOUS
<1>2. Len(files[i].data) \in Nat BY <1>1 DEF File
<1>3. [files[i] EXCEPT !.synced = Len(files[i].data)] \in File
  <2>1. PICK f \in File : f = files[i] BY <1>1
  <2>2. PICK n \in Nat : n = Len(f.data) BY <1>2, <2>1
  <2>3. PICK c : c = [f EXCEPT !.synced = n] OBVIOUS
  <2>4. f \in [data : Seq(1 .. MaxRecs), synced : Nat] BY DEF File
  <2>5. c \in [data : Seq(1 .. MaxRecs), synced : Nat] /\ c.data = f.data /\ c.synced = n
      BY <2>3, <2>4
  <2>6. c.synced <= Len(c.data) BY <2>2, <2>5
  <2> QED BY <2>1, <2>2, <2>3, <2>5, <2>6 DEF File
<1>4. g = [files EXCEPT ![i] = [files[i] EXCEPT !.synced = Len(files[i].data)]] OBVIOUS
<1> QED BY <1>1, <1>3, <1>4 DEF File

\* The data of the block in turn becomes durable; no byte of it changes.
LEMMA SyncAllStep == ASSUME SlabInv, SyncAll PROVE SlabInv'
<1> DEFINE s == Oldest
           i == blockOf[s].inode
<1>1. /\ UNCHANGED <<dir, ddir, sealing, nextSeq, active, pending, pos, born, ticked, published,
                     deaths>>
      /\ slabPc = "sweep" /\ Current # NoBlock
      /\ slabPc' = IF blockOf[Current].dirSynced THEN "sweep" ELSE "dir"
    BY DEF SyncAll, avars
<1>2. active # NoBlock /\ Current = s /\ s \in Seqs /\ Open(s)
    BY <1>1, OldestFacts DEF SlabInv, Open
<1>3. /\ inodes' = [inodes EXCEPT ![i].synced = Len(inodes[i].data)]
      /\ blockOf' = [blockOf EXCEPT ![s].unflushed = 0]
    BY <1>2 DEF SyncAll
<1>4. /\ i \in 1 .. Len(inodes)
      /\ \A t \in Seqs : Open(t) /\ t # s => blockOf[t].inode # i
      /\ \A t \in Seqs : ddir[Sealed(t)] # 0 => ddir[Sealed(t)] # i
      /\ \A t \in Seqs : dir[Sealed(t)] # 0 => dir[Sealed(t)] # i
    BY <1>1, <1>2, HeldApart DEF SlabInv
<1>5. /\ inodes' \in Seq(File) /\ Len(inodes') = Len(inodes)
      /\ \A j \in 1 .. Len(inodes) : inodes'[j].data = inodes[j].data
      /\ \A j \in 1 .. Len(inodes) : j # i => inodes'[j] = inodes[j]
      /\ inodes'[i].synced = Len(inodes[i].data)
  <2>1. inodes \in Seq(File) BY DEF SlabInv, SlabTypes
  <2> QED BY <1>3, <1>4, <2>1, SyncFacts
<1>6. /\ \A t \in Seqs : t # s => blockOf'[t] = blockOf[t]
      /\ blockOf'[s].inode = i /\ blockOf'[s].len = blockOf[s].len
      /\ blockOf'[s].unflushed = 0 /\ blockOf'[s].dirSynced = blockOf[s].dirSynced
  <2>1. blockOf[s] = [inode |-> blockOf[s].inode, len |-> blockOf[s].len,
                      unflushed |-> blockOf[s].unflushed, dirSynced |-> blockOf[s].dirSynced]
      BY <1>2, BlockIs DEF SlabInv
  <2>2. DOMAIN blockOf = Seqs BY DEF SlabInv, SlabTypes
  <2> QED BY <1>2, <1>3, <2>1, <2>2
<1>7. Oldest' = s /\ Mine' = Mine /\ \A t \in Seqs : Open(t)' = Open(t)
      /\ NameOf(t)' = Part(t) /\ NameOf(t) = Part(t)
    BY <1>1 DEF Oldest, Mine, Open, NameOf
<1> HIDE DEF s, i
<1>8. SlabTypes'
  <2>1. blockOf' \in [Seqs -> [inode : 0 .. Len(inodes), len : 0 .. Full,
                               unflushed : 0 .. Full, dirSynced : BOOLEAN]]
    <3>1. 0 \in 0 .. Full BY <1>2, BlockFacts DEF SlabInv
    <3> QED BY <1>2, <1>3, <3>1 DEF SlabInv, SlabTypes
  <2> QED BY <1>1, <1>5, <2>1 DEF SlabInv, SlabTypes
<1>9. BlocksInOrder' BY <1>1, <1>2, <1>7 DEF SlabInv, BlocksInOrder, s
<1>10. SealedInOrder' BY <1>1, <1>7 DEF SlabInv, SealedInOrder, SealedBelow, s
<1>11. FilesApart' BY <1>1 DEF SlabInv, FilesApart
<1>12. OpenFiles'
  <2> SUFFICES ASSUME NEW t \in Seqs, Open(t)
               PROVE  LET b == blockOf'[t] IN
                      /\ b.inode # 0 /\ dir[Part(t)] = b.inode
                      /\ Len(inodes'[b.inode].data) = b.len
                      /\ inodes'[b.inode].synced + b.unflushed = b.len
                      /\ b.dirSynced => ddir[Part(t)] = b.inode
                      /\ b.unflushed = 0 /\ b.len > 0 => b.dirSynced \/ (slabPc' = "dir" /\ t = s)
                      /\ slabPc' \in {"dir", "sealed"} /\ t = s => b.unflushed = 0
                      /\ t # active => b.len > 0
      BY <1>1, <1>7 DEF OpenFiles
  <2>1. LET b == blockOf[t] IN
        /\ b.inode # 0 /\ dir[Part(t)] = b.inode
        /\ Len(inodes[b.inode].data) = b.len
        /\ inodes[b.inode].synced + b.unflushed = b.len
        /\ b.dirSynced => ddir[Part(t)] = b.inode
        /\ b.unflushed = 0 /\ b.len > 0 => b.dirSynced
        /\ t # active => b.len > 0
      BY <1>1, <1>7 DEF SlabInv, OpenFiles
  <2>2. blockOf[t].inode \in 1 .. Len(inodes) /\ blockOf[t].len \in Nat
      BY <2>1, BlockFacts DEF SlabInv
  <2>3. CASE t = s
    <3>1. slabPc' = IF blockOf[s].dirSynced THEN "sweep" ELSE "dir" BY <1>1, <1>2
    <3>2. inodes'[blockOf[s].inode].synced + 0 = blockOf[s].len
        BY <1>5, <2>1, <2>2, <2>3 DEF i
    <3>3. blockOf'[t].inode = i /\ blockOf[t].inode = i /\ Len(inodes'[i].data) = blockOf[t].len
        BY <1>5, <1>6, <2>1, <2>2, <2>3 DEF i
    <3> QED BY <1>6, <2>1, <2>3, <3>1, <3>2, <3>3
  <2>4. CASE t # s
    <3>1. blockOf'[t] = blockOf[t] /\ inodes'[blockOf[t].inode] = inodes[blockOf[t].inode]
        BY <1>4, <1>5, <1>6, <2>2, <2>4
    <3> QED BY <2>1, <2>4, <3>1
  <2> QED BY <2>3, <2>4
<1>13. SealedFiles'
  <2>1. \A t \in Seqs : dir[Sealed(t)] # 0 =>
          /\ dir[Sealed(t)] \in 1 .. Len(inodes) /\ inodes'[dir[Sealed(t)]] = inodes[dir[Sealed(t)]]
    <3>1. \A t \in Seqs : dir[Sealed(t)] \in 0 .. Len(inodes) /\ Len(inodes) \in Nat
        BY NameFacts DEF SlabInv, SlabTypes
    <3> QED BY <1>4, <1>5, <3>1
  <2> QED BY <1>1, <2>1 DEF SlabInv, SealedFiles
<1>14. \A j \in 1 .. Len(inodes) : \A q, r : InPlace(inodes'[j], q, r) = InPlace(inodes[j], q, r)
    BY <1>5 DEF InPlace
<1>15. RecordsInPlace'
  <2> SUFFICES ASSUME NEW r \in Mine, r \notin published
               PROVE  Open(pos[r].seq) /\ InPlace(inodes'[blockOf'[pos[r].seq].inode], pos[r], r)
      BY <1>1, <1>7, MineFacts DEF SlabInv, RecordsInPlace
  <2>1. pos[r].seq \in Seqs /\ r \in Nat BY MineFacts DEF SlabInv
  <2>2. Open(pos[r].seq) /\ InPlace(inodes[blockOf[pos[r].seq].inode], pos[r], r)
      BY DEF SlabInv, RecordsInPlace
  <2>3. blockOf[pos[r].seq].inode \in 1 .. Len(inodes)
      BY <1>1, <2>1, <2>2, HeldApart DEF SlabInv
  <2>4. blockOf'[pos[r].seq].inode = blockOf[pos[r].seq].inode BY <1>6, <2>1 DEF i
  <2> QED BY <1>14, <2>1, <2>2, <2>3, <2>4
<1>16. PublishedKept'
  <2> SUFFICES ASSUME NEW r \in published
               PROVE  ddir[Sealed(pos[r].seq)] # 0 /\ InPlace(inodes'[ddir[Sealed(pos[r].seq)]], pos[r], r)
      BY <1>1 DEF PublishedKept
  <2>1. ddir[Sealed(pos[r].seq)] # 0 /\ InPlace(inodes[ddir[Sealed(pos[r].seq)]], pos[r], r)
      BY DEF SlabInv, PublishedKept
  <2>2. r \in Nat /\ pos[r].seq \in Seqs BY PublishedFacts DEF SlabInv
  <2>3. ddir[Sealed(pos[r].seq)] \in 1 .. Len(inodes)
      BY <2>1, <2>2, InodeFacts DEF SlabInv
  <2> QED BY <1>14, <2>1, <2>2, <2>3
<1>17. TickedKept'
  <2> SUFFICES ASSUME NEW r \in ticked, r \notin published
               PROVE  LET b == blockOf'[pos[r].seq]
                      IN  b.dirSynced /\ pos[r].off + pos[r].size + b.unflushed <= b.len
      BY <1>1, <1>7 DEF SlabInv, TickedKept
  <2>1. LET b == blockOf[pos[r].seq]
        IN  b.dirSynced /\ pos[r].off + pos[r].size + b.unflushed <= b.len
      BY DEF SlabInv, TickedKept
  <2>2. pos[r].seq \in Seqs /\ pos[r].off \in Nat /\ pos[r].size \in Nat
      BY MineFacts DEF SlabInv, TickedKept
  <2>3. CASE pos[r].seq = s
    <3>1. blockOf[s].unflushed \in Nat /\ blockOf[s].len \in Nat BY <2>2, <2>3, BlockFacts DEF SlabInv
    <3> QED BY <1>6, <2>1, <2>2, <2>3, <3>1
  <2>4. CASE pos[r].seq # s BY <1>6, <2>1, <2>2, <2>4
  <2> QED BY <2>3, <2>4
<1> QED BY <1>8, <1>9, <1>10, <1>11, <1>12, <1>13, <1>15, <1>16, <1>17 DEF SlabInv

\* The directory becomes durable, and with it the name of the block in turn.
LEMMA SyncDirStep == ASSUME SlabInv, SyncDir PROVE SlabInv'
<1> DEFINE s == Oldest
<1>1. /\ UNCHANGED <<inodes, dir, sealing, nextSeq, active, pending, pos, born, ticked, published,
                     deaths>>
      /\ slabPc = "dir" /\ slabPc' = "sweep" /\ ddir' = dir
    BY DEF SyncDir, avars
<1>2. active # NoBlock /\ Current = s /\ s \in Seqs /\ Open(s)
    BY <1>1, OldestFacts DEF SlabInv, BlocksInOrder, Open
<1>3. blockOf' = [blockOf EXCEPT ![s].dirSynced = TRUE] BY <1>2 DEF SyncDir
<1>4. /\ \A t \in Seqs : t # s => blockOf'[t] = blockOf[t]
      /\ blockOf'[s].inode = blockOf[s].inode /\ blockOf'[s].len = blockOf[s].len
      /\ blockOf'[s].unflushed = blockOf[s].unflushed /\ blockOf'[s].dirSynced
  <2>1. blockOf[s] = [inode |-> blockOf[s].inode, len |-> blockOf[s].len,
                      unflushed |-> blockOf[s].unflushed, dirSynced |-> blockOf[s].dirSynced]
      BY <1>2, BlockIs DEF SlabInv
  <2>2. DOMAIN blockOf = Seqs BY DEF SlabInv, SlabTypes
  <2> QED BY <1>2, <1>3, <2>1, <2>2
<1>5. Oldest' = s /\ Mine' = Mine /\ \A t \in Seqs : Open(t)' = Open(t)
      /\ NameOf(t)' = Part(t) /\ NameOf(t) = Part(t)
    BY <1>1 DEF Oldest, Mine, Open, NameOf
<1> HIDE DEF s
<1>6. SlabTypes'
  <2>1. blockOf' \in [Seqs -> [inode : 0 .. Len(inodes), len : 0 .. Full,
                               unflushed : 0 .. Full, dirSynced : BOOLEAN]]
      BY <1>2, <1>3 DEF SlabInv, SlabTypes
  <2> QED BY <1>1, <2>1 DEF SlabInv, SlabTypes
<1>7. BlocksInOrder' BY <1>1, <1>2, <1>5 DEF SlabInv, BlocksInOrder, s
<1>8. SealedInOrder' BY <1>1, <1>5 DEF SlabInv, SealedInOrder, SealedBelow, s
<1>9. FilesApart' BY <1>1 DEF SlabInv, FilesApart
<1>10. OpenFiles'
  <2> SUFFICES ASSUME NEW t \in Seqs, Open(t)
               PROVE  LET b == blockOf'[t] IN
                      /\ b.inode # 0 /\ dir[Part(t)] = b.inode
                      /\ Len(inodes[b.inode].data) = b.len
                      /\ inodes[b.inode].synced + b.unflushed = b.len
                      /\ b.unflushed = 0 /\ b.len > 0 => b.dirSynced
                      /\ t # active => b.len > 0
      BY <1>1, <1>5 DEF OpenFiles
  <2>1. LET b == blockOf[t] IN
        /\ b.inode # 0 /\ dir[Part(t)] = b.inode
        /\ Len(inodes[b.inode].data) = b.len
        /\ inodes[b.inode].synced + b.unflushed = b.len
        /\ b.unflushed = 0 /\ b.len > 0 => b.dirSynced \/ t = s
        /\ t # active => b.len > 0
      BY <1>1, <1>5 DEF SlabInv, OpenFiles, s
  <2> QED BY <1>4, <2>1
<1>11. SealedFiles' BY <1>1 DEF SlabInv, SealedFiles
<1>12. RecordsInPlace'
  <2>1. \A r \in Mine : pos[r].seq \in Seqs BY MineFacts DEF SlabInv
  <2>2. \A t \in Seqs : blockOf'[t].inode = blockOf[t].inode BY <1>4
  <2> QED BY <1>1, <1>5, <2>1, <2>2 DEF SlabInv, RecordsInPlace
<1>13. PublishedKept'
  <2>1. \A r \in published : pos[r].seq \in Seqs BY PublishedFacts DEF SlabInv
  <2> QED BY <1>1, <2>1 DEF SlabInv, PublishedKept, SealedFiles
<1>14. TickedKept'
  <2>1. \A r \in ticked : pos[r].seq \in Seqs BY MineFacts DEF SlabInv, TickedKept
  <2>2. \A t \in Seqs : /\ blockOf[t].dirSynced => blockOf'[t].dirSynced
                        /\ blockOf'[t].len = blockOf[t].len
                        /\ blockOf'[t].unflushed = blockOf[t].unflushed
      BY <1>4
  <2> QED BY <1>1, <1>5, <2>1, <2>2 DEF SlabInv, TickedKept
<1> QED BY <1>6, <1>7, <1>8, <1>9, <1>10, <1>11, <1>12, <1>13, <1>14 DEF SlabInv

\* The oldest block takes its sealed name, its file synced whole.
LEMMA RenameStep == ASSUME SlabInv, Rename PROVE SlabInv'
<1> DEFINE s == Oldest
           i == blockOf[s].inode
<1>1. /\ UNCHANGED <<inodes, ddir, sealing, nextSeq, active, pending, blockOf, pos, born, ticked,
                     published, deaths>>
      /\ slabPc = "sweep" /\ slabPc' = "sealed" /\ Current # NoBlock
      /\ blockOf[Current].unflushed = 0
    BY DEF Rename, MustSeal, avars, svars
<1>2. active # NoBlock /\ Current = s /\ s \in Seqs /\ Open(s)
    BY <1>1, OldestFacts DEF SlabInv, Open
<1>3. dir[Part(s)] = i /\ i # 0 /\ Part(s) \in Names /\ Sealed(s) \in Names /\ i \in 1 .. Len(inodes)
  <2>1. dir[Part(s)] = i /\ i # 0 BY <1>1, <1>2 DEF SlabInv, OpenFiles, NameOf
  <2> QED BY <1>2, <2>1, NameFacts, InodeFacts DEF SlabInv
<1>4. dir' = [dir EXCEPT ![Sealed(s)] = i, ![Part(s)] = 0] BY <1>2, <1>3 DEF Rename
<1>5. /\ dir'[Sealed(s)] = i /\ dir'[Part(s)] = 0
      /\ \A n \in Names : n # Sealed(s) /\ n # Part(s) => dir'[n] = dir[n]
  <2>1. DOMAIN dir = Names /\ Part(s) # Sealed(s) BY <1>2, NameFacts DEF SlabInv, SlabTypes
  <2> QED BY <1>3, <1>4, <2>1
<1>6. Oldest' = s /\ Mine' = Mine /\ \A t \in Seqs : Open(t)' = Open(t)
      /\ NameOf(t)' = (IF t = s THEN Sealed(t) ELSE Part(t)) /\ NameOf(t) = Part(t)
    BY <1>1 DEF Oldest, Mine, Open, NameOf
<1>7. ddir[Sealed(s)] = 0 /\ dir[Sealed(s)] = 0
  <2>1. SealedBelow(ddir, s) /\ SealedBelow(dir, s) BY <1>1 DEF SlabInv, SealedInOrder
  <2>2. s \in Nat BY OldestFacts DEF SlabInv
  <2> QED BY <1>2, <2>1, <2>2 DEF SealedBelow
<1>8. /\ Len(inodes[i].data) = blockOf[s].len /\ inodes[i].synced + 0 = blockOf[s].len
      /\ blockOf[s].unflushed = 0
    BY <1>1, <1>2 DEF SlabInv, OpenFiles
<1> HIDE DEF s, i
<1>9. SlabTypes'
  <2>1. dir' \in [Names -> 0 .. Len(inodes)]
    <3>1. dir \in [Names -> 0 .. Len(inodes)] BY DEF SlabInv, SlabTypes
    <3>2. 0 \in 0 .. Len(inodes) /\ i \in 0 .. Len(inodes) BY <1>2, <1>3, InodeFacts DEF SlabInv
    <3> QED BY <1>4, <3>1, <3>2
  <2> QED BY <1>1, <2>1 DEF SlabInv, SlabTypes
<1>10. BlocksInOrder' BY <1>1, <1>2, <1>6 DEF SlabInv, BlocksInOrder, s
<1>11. SealedInOrder'
  <2>1. SealedBelow(ddir, s) /\ SealedBelow(dir, s) BY <1>1 DEF SlabInv, SealedInOrder, s
  <2>2. SealedBelow(dir', s + 1)
    <3> SUFFICES ASSUME NEW t \in Seqs PROVE dir'[Sealed(t)] # 0 <=> t < s + 1
        BY DEF SealedBelow
    <3>1. t \in Nat /\ s \in Nat BY <1>2 DEF Seqs
    <3>2. CASE t = s BY <1>3, <1>5, <3>1, <3>2
    <3>3. CASE t # s
      <4>1. dir'[Sealed(t)] = dir[Sealed(t)] BY <1>2, <1>5, <3>3, NameFacts
      <4> QED BY <2>1, <3>1, <3>3, <4>1 DEF SealedBelow
    <3> QED BY <3>2, <3>3
  <2> QED BY <1>1, <1>6, <2>1, <2>2 DEF SealedInOrder, SealedBelow
<1>12. FilesApart'
  <2> SUFFICES ASSUME NEW a \in Names, NEW b \in Names
               PROVE  /\ dir'[a] = dir'[b] /\ dir'[a] # 0 => a.seq = b.seq
                      /\ ddir[a] = ddir[b] /\ ddir[a] # 0 => a.seq = b.seq
                      /\ dir'[a] = ddir[b] /\ dir'[a] # 0 => a.seq = b.seq
      BY <1>1 DEF FilesApart
  <2>1. \A n \in Names : dir'[n] # 0 => \E o \in Names : o.seq = n.seq /\ dir[o] = dir'[n]
    <3> SUFFICES ASSUME NEW n \in Names, dir'[n] # 0
                 PROVE  \E o \in Names : o.seq = n.seq /\ dir[o] = dir'[n]
        OBVIOUS
    <3>1. CASE n = Sealed(s)
      <4>1. Part(s).seq = n.seq /\ dir[Part(s)] = dir'[n] BY <1>2, <1>3, <1>5, <3>1, NameFacts
      <4> QED BY <1>3, <4>1
    <3>2. CASE n # Sealed(s) BY <1>5, <3>2
    <3> QED BY <3>1, <3>2
  <2> QED BY <2>1 DEF SlabInv, FilesApart
<1>13. OpenFiles'
  <2> SUFFICES ASSUME NEW t \in Seqs, Open(t)
               PROVE  LET b == blockOf[t] IN
                      /\ b.inode # 0
                      /\ dir'[IF t = s THEN Sealed(t) ELSE Part(t)] = b.inode
                      /\ Len(inodes[b.inode].data) = b.len
                      /\ inodes[b.inode].synced + b.unflushed = b.len
                      /\ b.dirSynced => ddir[Part(t)] = b.inode
                      /\ b.unflushed = 0 /\ b.len > 0 => b.dirSynced
                      /\ t = s => b.unflushed = 0
                      /\ t # active => b.len > 0
      BY <1>1, <1>6 DEF OpenFiles
  <2>1. LET b == blockOf[t] IN
        /\ b.inode # 0 /\ dir[Part(t)] = b.inode
        /\ Len(inodes[b.inode].data) = b.len
        /\ inodes[b.inode].synced + b.unflushed = b.len
        /\ b.dirSynced => ddir[Part(t)] = b.inode
        /\ b.unflushed = 0 /\ b.len > 0 => b.dirSynced
        /\ t # active => b.len > 0
      BY <1>1, <1>6 DEF SlabInv, OpenFiles
  <2>2. CASE t = s BY <1>5, <1>8, <2>1, <2>2 DEF i
  <2>3. CASE t # s
    <3>1. dir'[Part(t)] = dir[Part(t)] BY <1>2, <1>5, <2>3, NameFacts
    <3> QED BY <2>1, <2>3, <3>1
  <2> QED BY <2>2, <2>3
<1>14. SealedFiles'
  <2> SUFFICES ASSUME NEW t \in Seqs
               PROVE  /\ dir'[Sealed(t)] # 0 =>
                           inodes[dir'[Sealed(t)]].synced = Len(inodes[dir'[Sealed(t)]].data)
                      /\ ddir[Sealed(t)] # 0 => dir'[Sealed(t)] = ddir[Sealed(t)]
      BY <1>1 DEF SealedFiles
  <2>1. CASE t = s
    <3>1. File # {} /\ inodes[i] \in File BY <1>3 DEF SlabInv, SlabTypes
    <3>2. inodes[i].synced \in Nat BY <3>1 DEF File
    <3> QED BY <1>5, <1>7, <1>8, <2>1, <3>2
  <2>2. CASE t # s
    <3>1. dir'[Sealed(t)] = dir[Sealed(t)] BY <1>2, <1>5, <2>2, NameFacts
    <3> QED BY <3>1 DEF SlabInv, SealedFiles
  <2> QED BY <2>1, <2>2
<1>15. RecordsInPlace' /\ PublishedKept' /\ TickedKept'
  <2>1. RecordsInPlace'
    <3>1. \A r \in Mine : pos[r].seq \in Seqs BY MineFacts DEF SlabInv
    <3> QED BY <1>1, <1>6, <3>1 DEF SlabInv, RecordsInPlace
  <2>2. PublishedKept' BY <1>1 DEF SlabInv, PublishedKept
  <2>3. TickedKept' BY <1>1, <1>6 DEF SlabInv, TickedKept
  <2> QED BY <2>1, <2>2, <2>3
<1> QED BY <1>9, <1>10, <1>11, <1>12, <1>13, <1>14, <1>15 DEF SlabInv

\* The sealed name becomes durable and the writer lets go of the block.
LEMMA SealBlockStep == ASSUME SlabInv, SealBlock PROVE SlabInv'
<1> DEFINE s == Oldest
           i == blockOf[s].inode
<1>1. /\ UNCHANGED <<inodes, dir, sealing, nextSeq, blockOf, pos, born, ticked, deaths>>
      /\ slabPc = "sealed" /\ slabPc' = "sweep" /\ ddir' = dir
    BY DEF SealBlock
<1>2. /\ active # NoBlock /\ Current = s /\ s \in Seqs /\ Open(s) /\ s \in Nat /\ active \in Nat
      /\ nextSeq = active + 1 /\ active = s + Len(pending) /\ Len(pending) \in Nat
    <2>1. active # NoBlock BY <1>1 DEF SlabInv, BlocksInOrder
    <2>2. active \in Nat BY <2>1, OldestFacts DEF SlabInv, Seqs
    <2>3. Len(pending) \in Nat BY DEF SlabInv, SlabTypes
    <2> QED BY <2>1, <2>2, <2>3, OldestFacts DEF SlabInv, BlocksInOrder, Open
<1>3. published' = published \union {r \in Mine : pos[r].seq = s} BY <1>2 DEF SealBlock
<1>4. /\ Oldest' = s + 1
      /\ \A k \in 1 .. Len(pending') : pending'[k] = s + 1 + k - 1
      /\ active' # NoBlock => active' = active /\ active = s + 1 + Len(pending')
      /\ active' = NoBlock => pending' = << >> /\ active = s
      /\ pending' \in Seq(Seqs) /\ active' \in Seqs \union {NoBlock}
  <2>1. pending \in Seq(Seqs) /\ (\A k \in 1 .. Len(pending) : pending[k] = s + k - 1)
        /\ active \in Seqs
      BY <1>2 DEF SlabInv, SlabTypes, BlocksInOrder
  <2>2. CASE pending # << >>
    <3>1. PICK n \in Nat : n = Len(pending) /\ n > 0 BY <2>1, <2>2
    <3>2. active' = active /\ pending' = Tail(pending)
        BY <1>2, <2>2, OldestFacts DEF SlabInv, SealBlock
    <3>3. Tail(pending) \in Seq(Seqs) /\ Len(Tail(pending)) = n - 1
          /\ \A k \in 1 .. n - 1 : Tail(pending)[k] = pending[k + 1]
        BY <2>1, <2>2, <3>1
    <3>4. \A k \in 1 .. n - 1 : Tail(pending)[k] = s + k
      <4> SUFFICES ASSUME NEW k \in 1 .. n - 1 PROVE Tail(pending)[k] = s + k
          OBVIOUS
      <4>1. PICK j \in 1 .. n : j = k + 1 BY <3>1
      <4> QED BY <1>2, <2>1, <3>1, <3>3, <4>1
    <3>5. active' = s + 1 + (n - 1) BY <1>2, <3>1, <3>2
    <3>6. Oldest' = s + 1
      <4>1. CASE n = 1
        <5>1. pending' = << >> BY <3>2, <3>3, <4>1
        <5> QED BY <1>2, <3>2, <3>5, <4>1, <5>1 DEF Oldest
      <4>2. CASE n # 1
        <5>1. pending' # << >> /\ Head(pending') = Tail(pending)[1]
          <6>1. PICK q \in Seq(Seqs) : q = Tail(pending) BY <3>3
          <6>2. Len(q) > 0 BY <3>1, <3>3, <4>2, <6>1
          <6>3. q # << >> /\ Head(q) = q[1] BY <6>2
          <6> QED BY <3>2, <6>1, <6>3
        <5>2. Head(pending') = s + 1 BY <3>1, <3>4, <4>2, <5>1
        <5> QED BY <5>1, <5>2 DEF Oldest
      <4> QED BY <4>1, <4>2
    <3>7. \A k \in 1 .. Len(pending') : pending'[k] = s + 1 + k - 1
        BY <1>2, <3>1, <3>2, <3>3, <3>4
    <3> QED BY <1>2, <2>1, <3>1, <3>2, <3>3, <3>5, <3>6, <3>7
  <2>3. CASE pending = << >>
    <3>1. active = s BY <1>2, <2>3
    <3>2. active' = NoBlock /\ pending' = << >> BY <1>2, <2>3, <3>1 DEF SealBlock
    <3>3. Oldest' = s + 1 BY <1>1, <1>2, <3>1, <3>2 DEF Oldest
    <3> QED BY <3>1, <3>2, <3>3
  <2> QED BY <2>2, <2>3
<1>5. \A t \in Seqs : Open(t)' <=> Open(t) /\ t # s
  <2>1. \A t \in Seqs : t \in Nat BY DEF Seqs
  <2>2. nextSeq' = nextSeq BY <1>1
  <2> QED BY <1>2, <1>4, <2>1, <2>2 DEF Open
<1>6. Mine' = Mine BY <1>1 DEF Mine
<1>7. dir[Sealed(s)] = i /\ i # 0 /\ NameOf(s) = Sealed(s)
    BY <1>1, <1>2 DEF SlabInv, OpenFiles, NameOf
<1> HIDE DEF s, i
<1>8. SlabTypes'
  <2>1. published' \subseteq 1 .. Len(pos) BY <1>3, MineFacts DEF SlabInv, SlabTypes
  <2> QED BY <1>1, <1>4, <2>1 DEF SlabInv, SlabTypes
<1>9. BlocksInOrder' BY <1>1, <1>2, <1>4 DEF SlabInv, BlocksInOrder
<1>10. SealedInOrder' BY <1>1, <1>4 DEF SlabInv, SealedInOrder, SealedBelow, s
<1>11. FilesApart' BY <1>1 DEF SlabInv, FilesApart
<1>12. OpenFiles'
  <2> SUFFICES ASSUME NEW t \in Seqs, Open(t), t # s
               PROVE  LET b == blockOf[t] IN
                      /\ b.inode # 0 /\ dir[Part(t)] = b.inode
                      /\ Len(inodes[b.inode].data) = b.len
                      /\ inodes[b.inode].synced + b.unflushed = b.len
                      /\ b.unflushed = 0 /\ b.len > 0 => b.dirSynced
                      /\ t # active' => b.len > 0
    <3>1. \A t \in Seqs : NameOf(t)' = Part(t) BY <1>1 DEF NameOf
    <3> QED BY <1>1, <1>5, <3>1 DEF OpenFiles
  <2>1. NameOf(t) = Part(t) BY DEF NameOf, s
  <2>2. active' = active
    <3>1. t \in Nat BY DEF Seqs
    <3>2. active' # NoBlock BY <1>2, <1>4, <3>1 DEF Open, s
    <3> QED BY <1>4, <3>2
  <2> QED BY <1>1, <2>1, <2>2 DEF SlabInv, OpenFiles
<1>13. SealedFiles' BY <1>1 DEF SlabInv, SealedFiles
<1>14. RecordsInPlace'
  <2>1. \A r \in Mine : pos[r].seq \in Seqs BY MineFacts DEF SlabInv
  <2> QED BY <1>1, <1>3, <1>5, <1>6, <2>1 DEF SlabInv, RecordsInPlace
<1>15. PublishedKept'
  <2> SUFFICES ASSUME NEW r \in published'
               PROVE  dir[Sealed(pos[r].seq)] # 0
                      /\ InPlace(inodes[dir[Sealed(pos[r].seq)]], pos[r], r)
      BY <1>1 DEF PublishedKept
  <2>1. CASE r \in published
    <3>1. pos[r].seq \in Seqs BY <2>1, PublishedFacts DEF SlabInv
    <3> QED BY <2>1, <3>1 DEF SlabInv, PublishedKept, SealedFiles
  <2>2. CASE r \notin published
    <3>1. r \in Mine /\ pos[r].seq = s BY <1>3, <2>2
    <3>2. InPlace(inodes[i], pos[r], r) BY <2>2, <3>1 DEF SlabInv, RecordsInPlace, i
    <3> QED BY <1>7, <3>1, <3>2
  <2> QED BY <2>1, <2>2
<1>16. TickedKept' BY <1>1, <1>3, <1>6 DEF SlabInv, TickedKept
<1> QED BY <1>8, <1>9, <1>10, <1>11, <1>12, <1>13, <1>14, <1>15, <1>16 DEF SlabInv

-----------------------------------------------------------------------------
(* slab_append *)

\* The files after write_all of record r, size bytes long, to file i
Written(files, i, r, size) == [files EXCEPT ![i].data = @ \o [k \in 1 .. size |-> r]]

\* write_all at the end of a file moves none of its bytes and covers nothing.
LEMMA WriteAllFacts ==
    ASSUME NEW files \in Seq(File), NEW i \in 1 .. Len(files), NEW r \in 1 .. MaxRecs,
           NEW size \in Nat, NEW g, g = Written(files, i, r, size)
    PROVE  /\ g \in Seq(File) /\ Len(g) = Len(files)
           /\ \A j \in 1 .. Len(files) : j # i => g[j] = files[j]
           /\ g[i].synced = files[i].synced
           /\ Len(g[i].data) = Len(files[i].data) + size
           /\ \A k \in 1 .. Len(files[i].data) : g[i].data[k] = files[i].data[k]
           /\ \A k \in (Len(files[i].data) + 1) .. Len(g[i].data) : g[i].data[k] = r
<1> DEFINE old == files[i].data
           more == [k \in 1 .. size |-> r]
           new == old \o more
<1>1. files[i] \in File OBVIOUS
<1>2. old \in Seq(1 .. MaxRecs) /\ files[i].synced \in Nat BY <1>1 DEF File
<1>3. more \in Seq(1 .. MaxRecs) /\ Len(more) = size /\ \A k \in 1 .. size : more[k] = r
  <2>1. more \in [1 .. size -> 1 .. MaxRecs] OBVIOUS
  <2>2. \A k \in 1 .. size : more[k] = r OBVIOUS
  <2> HIDE DEF more
  <2>3. more \in Seq(1 .. MaxRecs)
    <3>1. [1 .. size -> 1 .. MaxRecs] \in {[1 .. n -> 1 .. MaxRecs] : n \in Nat} OBVIOUS
    <3>2. more \in UNION {[1 .. n -> 1 .. MaxRecs] : n \in Nat} BY <2>1, <3>1
    <3> QED BY <3>2, SeqDef
  <2>4. DOMAIN more = 1 .. size /\ DOMAIN more = 1 .. Len(more) /\ Len(more) \in Nat
      BY <2>1, <2>3
  <2>5. Len(more) = size BY ONLY <2>4, size \in Nat
  <2> QED BY <2>2, <2>3, <2>5
<1> HIDE DEF old, more
<1>4. /\ new \in Seq(1 .. MaxRecs) /\ Len(new) = Len(old) + size
      /\ \A k \in 1 .. Len(old) : new[k] = old[k]
      /\ \A k \in (Len(old) + 1) .. Len(new) : new[k] = r
  <2>1. new \in Seq(1 .. MaxRecs) /\ Len(new) = Len(old) + Len(more)
    <3>1. PICK S : S = 1 .. MaxRecs OBVIOUS
    <3>2. PICK u \in Seq(S), v \in Seq(S) : u = old /\ v = more BY <1>2, <1>3, <3>1
    <3>3. u \o v \in Seq(S) /\ Len(u \o v) = Len(u) + Len(v)
        BY ONLY u \in Seq(S), v \in Seq(S)
    <3> QED BY <3>1, <3>2, <3>3
  <2>2. \A k \in 1 .. Len(old) : new[k] = old[k] BY <1>2, <1>3
  <2>3. ASSUME NEW k \in (Len(old) + 1) .. Len(new) PROVE new[k] = r
    <3>1. PICK n \in Nat, z \in Nat : n = Len(old) /\ z = size BY <1>2
    <3>2. k \in (n + 1) .. (n + z) BY <1>3, <2>1, <3>1
    <3>3. k - n \in 1 .. z BY <3>2
    <3>4. new[k] = more[k - Len(old)] BY <1>2, <1>3, <3>1, <3>2
    <3> QED BY <1>3, <3>1, <3>3, <3>4
  <2> QED BY <1>3, <2>1, <2>2, <2>3
<1> HIDE DEF new
<1>5. g = [files EXCEPT ![i] = [files[i] EXCEPT !.data = new]] BY DEF Written, new, old, more
<1>6. [files[i] EXCEPT !.data = new] \in File /\ [files[i] EXCEPT !.data = new].data = new
      /\ [files[i] EXCEPT !.data = new].synced = files[i].synced
  <2>1. PICK u \in Nat, n \in Nat, z \in Nat : u = files[i].synced /\ n = Len(old) /\ z = Len(new)
      BY <1>2, <1>4
  <2>2. u <= n /\ z = n + size BY <1>1, <1>4, <2>1 DEF File, old
  <2>3. u <= z BY <2>2
  <2>4. files[i] \in [data : Seq(1 .. MaxRecs), synced : Nat] BY <1>1 DEF File
  <2>5. PICK c : c = [files[i] EXCEPT !.data = new] OBVIOUS
  <2>6. c \in [data : Seq(1 .. MaxRecs), synced : Nat] /\ c.data = new /\ c.synced = files[i].synced
      BY <1>4, <2>4, <2>5
  <2> QED BY <2>1, <2>3, <2>5, <2>6 DEF File
<1>7. g \in Seq(File) /\ Len(g) = Len(files) /\ g[i] = [files[i] EXCEPT !.data = new]
      /\ \A j \in 1 .. Len(files) : j # i => g[j] = files[j]
  <2>1. PICK f \in File : f = [files[i] EXCEPT !.data = new] BY <1>6
  <2>2. g = [files EXCEPT ![i] = f] BY <1>5, <2>1
  <2>3. g \in Seq(File) /\ Len(g) = Len(files) /\ g[i] = f
        /\ \A j \in 1 .. Len(files) : j # i => g[j] = files[j]
      BY ONLY <2>2, files \in Seq(File), i \in 1 .. Len(files), f \in File
  <2> QED BY <2>1, <2>3
<1>8. /\ g \in Seq(File) /\ Len(g) = Len(files)
      /\ \A j \in 1 .. Len(files) : j # i => g[j] = files[j]
      /\ g[i].synced = files[i].synced
      /\ Len(g[i].data) = Len(files[i].data) + size
      /\ \A k \in 1 .. Len(files[i].data) : g[i].data[k] = files[i].data[k]
      /\ \A k \in (Len(files[i].data) + 1) .. Len(g[i].data) : g[i].data[k] = r
    BY <1>4, <1>6, <1>7 DEF old
<1> QED BY <1>8

\* write_all makes the file longer by what it is given.
LEMMA WriteAllLonger ==
    ASSUME NEW files \in Seq(File), NEW i \in 1 .. Len(files), NEW r \in 1 .. MaxRecs,
           NEW size \in Nat, NEW g, g = Written(files, i, r, size)
    PROVE  Len(g[i].data) = Len(files[i].data) + size
  BY WriteAllFacts

\* What was in place stays there.
LEMMA InPlaceGrows ==
    ASSUME NEW f, NEW g, Len(f.data) \in Nat, Len(g.data) \in Nat, Len(f.data) <= Len(g.data),
           \A k \in 1 .. Len(f.data) : g.data[k] = f.data[k],
           NEW p, p.off \in Nat, p.size \in Nat, NEW x, InPlace(f, p, x)
    PROVE  InPlace(g, p, x)
<1>1. PICK o \in Nat, z \in Nat, n \in Nat : o = p.off /\ z = p.size /\ n = Len(f.data)
    OBVIOUS
<1>2. o + z <= n /\ (\A k \in 1 .. z : f.data[o + k] = x)
      /\ \A k \in 1 .. n : g.data[k] = f.data[k]
    BY <1>1 DEF InPlace
<1>3. \A k \in 1 .. z : g.data[o + k] = x
  <2> SUFFICES ASSUME NEW k \in 1 .. z PROVE g.data[o + k] = x
      OBVIOUS
  <2>1. PICK j \in 1 .. n : j = o + k BY <1>2
  <2> QED BY <1>2, <2>1
<1> QED BY <1>1, <1>2, <1>3 DEF InPlace

\* A record is added at the end of pos.
LEMMA PosGrows ==
    ASSUME SlabTypes, Len(pos) < MaxRecs, NEW s \in Seqs, NEW off \in 0 .. Full,
           NEW size \in 0 .. MaxSize,
           pos' = Append(pos, [seq |-> s, off |-> off, size |-> size]), born' = born
    PROVE  LET r == Len(pos) + 1 IN
           /\ r \in 1 .. MaxRecs /\ Len(pos') = r /\ Len(pos) \in Nat /\ MaxRecs \in Nat
           /\ pos' \in Seq([seq : Seqs, off : 0 .. Full, size : 0 .. MaxSize])
           /\ pos'[r] = [seq |-> s, off |-> off, size |-> size]
           /\ \A x \in 1 .. Len(pos) : pos'[x] = pos[x]
           /\ Mine \subseteq Mine' /\ Mine' \subseteq Mine \union {r}
           /\ published \subseteq 1 .. Len(pos) /\ Mine \subseteq 1 .. Len(pos)
<1> DEFINE Places == [seq : Seqs, off : 0 .. Full, size : 0 .. MaxSize]
           p == [seq |-> s, off |-> off, size |-> size]
           r == Len(pos) + 1
<1>1. pos \in Seq(Places) /\ p \in Places BY DEF SlabTypes
<1>2. Len(pos) \in Nat /\ MaxRecs \in Nat /\ born \in 0 .. Len(pos)
    BY SlabAssumption DEF SlabTypes
<1> HIDE DEF Places, p
<1>3. pos' = Append(pos, p) BY DEF p
<1>4. /\ pos' \in Seq(Places) /\ Len(pos') = r /\ pos'[r] = p
      /\ \A x \in 1 .. Len(pos) : pos'[x] = pos[x]
    BY <1>1, <1>3
<1>5. Mine \subseteq 1 .. Len(pos) BY <1>2 DEF Mine
<1>6. Mine \subseteq Mine' /\ Mine' \subseteq Mine \union {r}
  <2>1. ASSUME NEW x \in Mine PROVE x \in Mine' BY <1>2, <1>4, <2>1 DEF Mine
  <2>2. ASSUME NEW x \in Mine', x # r PROVE x \in Mine
    <3>1. x \in Nat /\ x > born /\ x <= r /\ pos'[x].size > 0 BY <1>2, <1>4 DEF Mine
    <3>2. x \in 1 .. Len(pos) BY <1>2, <2>2, <3>1
    <3> QED BY <1>2, <1>4, <3>1, <3>2 DEF Mine
  <2> QED BY <2>1, <2>2
<1>7. r \in 1 .. MaxRecs BY <1>2
<1>8. published \subseteq 1 .. Len(pos) BY DEF SlabTypes
<1>9. /\ pos' \in Seq([seq : Seqs, off : 0 .. Full, size : 0 .. MaxSize])
      /\ pos'[r] = [seq |-> s, off |-> off, size |-> size]
    BY <1>4 DEF Places, p
<1> QED BY <1>2, <1>4, <1>5, <1>6, <1>7, <1>8, <1>9

\* A record behind those of the active block.
LEMMA AppendHere ==
    ASSUME SlabInv, NEW size \in 0 .. MaxSize, SlabAppend(size), active # NoBlock,
           ~NeedsRotation(size)
    PROVE  SlabInv'
<1> DEFINE s == active
           b == blockOf[s]
           i == b.inode
           r == Len(pos) + 1
<1>1. /\ UNCHANGED <<dir, ddir, slabPc, sealing, nextSeq, active, pending, born, ticked, published,
                     deaths>>
      /\ slabPc = "idle" /\ Len(pos) < MaxRecs
      /\ WriteAll(s, b, inodes, size)
    BY DEF SlabAppend
<1>2. /\ s \in Seqs /\ s \in Nat /\ Open(s) /\ active # NoBlock
      /\ b.inode # 0 /\ dir[Part(s)] = b.inode /\ Len(inodes[i].data) = b.len
      /\ inodes[i].synced + b.unflushed = b.len
  <2>1. s \in Seqs /\ s \in Nat /\ Open(s) /\ active # NoBlock BY OldestFacts DEF SlabInv, Seqs
  <2> QED BY <1>1, <2>1 DEF SlabInv, OpenFiles, NameOf
<1>3. /\ i \in 1 .. Len(inodes) /\ Len(inodes) \in Nat
      /\ \A t \in Seqs : Open(t) /\ t # s => blockOf[t].inode # i
      /\ \A t \in Seqs : ddir[Sealed(t)] # 0 => ddir[Sealed(t)] # i
      /\ \A t \in Seqs : dir[Sealed(t)] # 0 => dir[Sealed(t)] # i
    BY <1>1, <1>2, HeldApart, InodeFacts DEF SlabInv
<1>4. b.len \in 0 .. Full /\ b.unflushed \in 0 .. Full /\ Full \in Nat /\ inodes[i].synced \in Nat
      /\ MaxSize \in Nat /\ BlockBytes \in Nat /\ size \in Nat
  <2>1. inodes \in Seq(File) BY DEF SlabInv, SlabTypes
  <2>2. inodes[i] \in File BY <1>3, <2>1
  <2>3. inodes[i].synced \in Nat BY <2>2 DEF File
  <2> QED BY <1>2, <2>3, BlockFacts, SlabAssumption DEF SlabInv
<1>5. b.len + size \in 0 .. Full /\ b.unflushed + size \in 0 .. Full
  <2>1. b.len = 0 \/ b.len + size <= BlockBytes
    <3>1. ~(b.len > 0 /\ b.len + size > BlockBytes) BY DEF NeedsRotation
    <3> HIDE DEF b
    <3> QED BY <1>4, <3>1
  <2>2. b.len + size <= Full BY <1>4, <2>1 DEF Full
  <2>3. b.unflushed <= b.len BY <1>2, <1>4
  <2> QED BY <1>4, <2>2, <2>3
<1>6. /\ inodes' = [inodes EXCEPT ![i].data = @ \o [k \in 1 .. size |-> r]]
      /\ blockOf' = [blockOf EXCEPT ![s] = [b EXCEPT !.len = @ + size, !.unflushed = @ + size]]
      /\ pos' = Append(pos, [seq |-> s, off |-> b.len, size |-> size])
    BY <1>1 DEF WriteAll
<1>7. /\ r \in 1 .. MaxRecs /\ Len(pos') = r /\ Len(pos) \in Nat /\ MaxRecs \in Nat
      /\ pos' \in Seq([seq : Seqs, off : 0 .. Full, size : 0 .. MaxSize])
      /\ pos'[r] = [seq |-> s, off |-> b.len, size |-> size]
      /\ \A x \in 1 .. Len(pos) : pos'[x] = pos[x]
      /\ Mine \subseteq Mine' /\ Mine' \subseteq Mine \union {r}
      /\ published \subseteq 1 .. Len(pos) /\ Mine \subseteq 1 .. Len(pos)
    BY <1>1, <1>2, <1>4, <1>6, PosGrows DEF SlabInv
<1>8. /\ inodes' \in Seq(File) /\ Len(inodes') = Len(inodes)
      /\ \A j \in 1 .. Len(inodes) : j # i => inodes'[j] = inodes[j]
      /\ inodes'[i].synced = inodes[i].synced
      /\ Len(inodes'[i].data) = b.len + size
      /\ \A k \in 1 .. b.len : inodes'[i].data[k] = inodes[i].data[k]
      /\ \A k \in (b.len + 1) .. (b.len + size) : inodes'[i].data[k] = r
  <2>1. inodes \in Seq(File) BY DEF SlabInv, SlabTypes
  <2>2. inodes' = Written(inodes, i, r, size) BY <1>6 DEF Written
  <2> HIDE DEF i, b, r
  <2>3. PICK files \in Seq(File) : files = inodes BY <2>1
  <2>4. PICK j \in 1 .. Len(files), x \in 1 .. MaxRecs, n \in Nat : j = i /\ x = r /\ n = size
      BY <1>3, <1>4, <1>7, <2>3
  <2>5. PICK g : g = Written(files, j, x, n) OBVIOUS
  <2>6. /\ g \in Seq(File) /\ Len(g) = Len(files)
        /\ \A k \in 1 .. Len(files) : k # j => g[k] = files[k]
        /\ g[j].synced = files[j].synced
        /\ Len(g[j].data) = Len(files[j].data) + n
        /\ \A k \in 1 .. Len(files[j].data) : g[j].data[k] = files[j].data[k]
        /\ \A k \in (Len(files[j].data) + 1) .. Len(g[j].data) : g[j].data[k] = x
    <3>0. files \in Seq(File) /\ j \in 1 .. Len(files) /\ x \in 1 .. MaxRecs /\ n \in Nat OBVIOUS
    <3>1. g \in Seq(File) /\ Len(g) = Len(files)
        BY <2>5, WriteAllFacts
    <3>2. \A k \in 1 .. Len(files) : k # j => g[k] = files[k]
        BY <2>5, WriteAllFacts
    <3>3. g[j].synced = files[j].synced
        BY <2>5, WriteAllFacts
    <3>4. Len(g[j].data) = Len(files[j].data) + n
        BY ONLY <3>0, <2>5, WriteAllLonger
    <3>5. \A k \in 1 .. Len(files[j].data) : g[j].data[k] = files[j].data[k]
        BY <2>5, WriteAllFacts
    <3>6. \A k \in (Len(files[j].data) + 1) .. Len(g[j].data) : g[j].data[k] = x
        BY <2>5, WriteAllFacts
    <3> QED BY ONLY <3>1, <3>2, <3>3, <3>4, <3>5, <3>6
  <2>7. inodes' = g /\ Len(inodes[i].data) = b.len BY <1>2, <2>2, <2>3, <2>4, <2>5 DEF b, i
  <2> QED BY <2>3, <2>4, <2>6, <2>7
<1>9. /\ \A t \in Seqs : t # s => blockOf'[t] = blockOf[t]
      /\ blockOf'[s].inode = i /\ blockOf'[s].len = b.len + size
      /\ blockOf'[s].unflushed = b.unflushed + size /\ blockOf'[s].dirSynced = b.dirSynced
  <2>1. b = [inode |-> b.inode, len |-> b.len, unflushed |-> b.unflushed, dirSynced |-> b.dirSynced]
      BY <1>2, BlockIs DEF SlabInv
  <2>2. DOMAIN blockOf = Seqs BY DEF SlabInv, SlabTypes
  <2> HIDE DEF b, s
  <2>3. /\ \A t \in Seqs : t # s => blockOf'[t] = blockOf[t]
        /\ blockOf'[s] = [b EXCEPT !.len = @ + size, !.unflushed = @ + size]
      BY <1>2, <1>6, <2>2
  <2> QED BY <2>1, <2>3
<1>10. Oldest' = Oldest /\ \A t \in Seqs : Open(t)' = Open(t)
       /\ NameOf(t)' = Part(t) /\ NameOf(t) = Part(t)
    BY <1>1 DEF Oldest, Open, NameOf
<1> HIDE DEF s, i, b, r
<1>11. SlabTypes'
  <2>1. blockOf' \in [Seqs -> [inode : 0 .. Len(inodes), len : 0 .. Full,
                               unflushed : 0 .. Full, dirSynced : BOOLEAN]]
    <3>1. b \in [inode : 0 .. Len(inodes), len : 0 .. Full, unflushed : 0 .. Full,
                 dirSynced : BOOLEAN]
        BY <1>2 DEF SlabInv, SlabTypes, b
    <3>2. [b EXCEPT !.len = @ + size, !.unflushed = @ + size]
              \in [inode : 0 .. Len(inodes), len : 0 .. Full, unflushed : 0 .. Full,
                   dirSynced : BOOLEAN]
        BY <1>5, <3>1
    <3> QED BY <1>6, <3>2 DEF SlabInv, SlabTypes
  <2>2. Len(pos') <= MaxRecs /\ published \subseteq 1 .. Len(pos') /\ born \in 0 .. Len(pos')
    <3>1. born \in 0 .. Len(pos) BY DEF SlabInv, SlabTypes
    <3> QED BY <1>7, <3>1 DEF r
  <2> QED BY <1>1, <1>7, <1>8, <2>1, <2>2 DEF SlabInv, SlabTypes
<1>12. BlocksInOrder'
  <2>1. nextSeq <= Len(pos')
    <3>1. nextSeq <= Len(pos) /\ nextSeq \in Nat BY DEF SlabInv, SlabTypes, BlocksInOrder
    <3> QED BY <1>7, <3>1 DEF r
  <2> QED BY <1>1, <1>10, <2>1 DEF SlabInv, BlocksInOrder
<1>13. SealedInOrder' BY <1>1, <1>10 DEF SlabInv, SealedInOrder, SealedBelow
<1>14. FilesApart' BY <1>1 DEF SlabInv, FilesApart
<1>15. OpenFiles'
  <2> SUFFICES ASSUME NEW t \in Seqs, Open(t)
               PROVE  LET c == blockOf'[t] IN
                      /\ c.inode # 0 /\ dir[Part(t)] = c.inode
                      /\ Len(inodes'[c.inode].data) = c.len
                      /\ inodes'[c.inode].synced + c.unflushed = c.len
                      /\ c.dirSynced => ddir[Part(t)] = c.inode
                      /\ c.unflushed = 0 /\ c.len > 0 => c.dirSynced
                      /\ t # active => c.len > 0
      BY <1>1, <1>10 DEF OpenFiles
  <2>1. LET c == blockOf[t] IN
        /\ c.inode # 0 /\ dir[Part(t)] = c.inode
        /\ Len(inodes[c.inode].data) = c.len
        /\ inodes[c.inode].synced + c.unflushed = c.len
        /\ c.dirSynced => ddir[Part(t)] = c.inode
        /\ c.unflushed = 0 /\ c.len > 0 => c.dirSynced
        /\ t # active => c.len > 0
      BY <1>1, <1>10 DEF SlabInv, OpenFiles
  <2>2. CASE t = s
    <3>1. b.unflushed + size = 0 /\ b.len + size > 0 => b.unflushed = 0 /\ b.len > 0
        BY <1>4
    <3>2. inodes'[i].synced + (b.unflushed + size) = b.len + size
      <4>1. PICK u \in Nat, v \in Nat, w \in Nat : u = inodes[i].synced /\ v = b.unflushed /\ w = b.len
          BY <1>4
      <4>2. u + v = w BY <1>2, <4>1 DEF i
      <4>3. u + (v + size) = w + size BY <1>4, <4>2
      <4> QED BY <1>8, <4>1, <4>3
    <3> QED BY <1>8, <1>9, <2>1, <2>2, <3>1, <3>2 DEF i, b, s
  <2>3. CASE t # s
    <3>1. blockOf[t].inode \in 1 .. Len(inodes) BY <2>1, <1>3, BlockFacts DEF SlabInv
    <3>2. blockOf'[t] = blockOf[t] /\ inodes'[blockOf[t].inode] = inodes[blockOf[t].inode]
        BY <1>3, <1>8, <1>9, <2>3, <3>1
    <3> QED BY <2>1, <2>3, <3>2
  <2> QED BY <2>2, <2>3
<1>16. \A t \in Seqs : /\ dir[Sealed(t)] # 0 => inodes'[dir[Sealed(t)]] = inodes[dir[Sealed(t)]]
                       /\ ddir[Sealed(t)] # 0 => inodes'[ddir[Sealed(t)]] = inodes[ddir[Sealed(t)]]
  <2>1. \A t \in Seqs : dir[Sealed(t)] \in 0 .. Len(inodes) /\ ddir[Sealed(t)] \in 0 .. Len(inodes)
      BY InodeFacts DEF SlabInv
  <2> QED BY <1>3, <1>8, <2>1
<1>17. SealedFiles' BY <1>1, <1>16 DEF SlabInv, SealedFiles
<1>18. RecordsInPlace'
  <2> SUFFICES ASSUME NEW x \in Mine', x \notin published
               PROVE  Open(pos'[x].seq) /\ InPlace(inodes'[blockOf'[pos'[x].seq].inode], pos'[x], x)
    <3>1. \A x \in Mine' : pos'[x].seq \in Seqs BY <1>11, MineFactsNext
    <3> QED BY <1>1, <1>10, <3>1 DEF RecordsInPlace
  <2>1. CASE x = r
    <3>1. pos'[x].off = b.len /\ pos'[x].size = size BY <1>7, <2>1
    <3>2. \A k \in 1 .. size : b.len + k \in (b.len + 1) .. (b.len + size) BY <1>4
    <3>3. \A k \in 1 .. size : inodes'[i].data[b.len + k] = r BY <1>8, <3>2
    <3>4. InPlace(inodes'[i], pos'[x], x)
      <4>1. b.len + size <= Len(inodes'[i].data) BY <1>4, <1>8
      <4> QED BY <2>1, <3>1, <3>3, <4>1 DEF InPlace
    <3> QED BY <1>2, <1>7, <1>9, <2>1, <3>4
  <2>2. CASE x # r
    <3>1. x \in Mine /\ pos'[x] = pos[x] BY <1>7, <2>2
    <3>2. /\ Open(pos[x].seq) /\ InPlace(inodes[blockOf[pos[x].seq].inode], pos[x], x)
          /\ pos[x].seq \in Seqs /\ pos[x].off \in Nat /\ pos[x].size \in Nat
        BY <3>1, MineFacts DEF SlabInv, RecordsInPlace
    <3>3. CASE pos[x].seq = s
      <4>1. InPlace(inodes[i], pos[x], x) BY <3>2, <3>3 DEF i, b
      <4>2. InPlace(inodes'[i], pos[x], x)
        <5>1. Len(inodes[i].data) = b.len /\ b.len \in Nat /\ b.len + size \in Nat
              /\ b.len <= b.len + size
            BY <1>2, <1>4 DEF i
        <5>2. /\ Len(inodes[i].data) \in Nat /\ Len(inodes'[i].data) \in Nat
              /\ Len(inodes[i].data) <= Len(inodes'[i].data)
              /\ \A k \in 1 .. Len(inodes[i].data) : inodes'[i].data[k] = inodes[i].data[k]
            BY <1>8, <5>1
        <5> QED BY <3>2, <4>1, <5>2, InPlaceGrows
      <4> QED BY <1>9, <3>1, <3>2, <3>3, <4>2
    <3>4. CASE pos[x].seq # s
      <4>1. blockOf[pos[x].seq].inode \in 1 .. Len(inodes) BY <1>1, <3>2, HeldApart DEF SlabInv
      <4>2. /\ blockOf'[pos[x].seq] = blockOf[pos[x].seq]
            /\ inodes'[blockOf[pos[x].seq].inode] = inodes[blockOf[pos[x].seq].inode]
          BY <1>3, <1>8, <1>9, <3>2, <3>4, <4>1
      <4> QED BY <3>1, <3>2, <4>2
    <3> QED BY <3>3, <3>4
  <2> QED BY <2>1, <2>2
<1>19. PublishedKept'
  <2>1. \A x \in published : pos[x].seq \in Seqs /\ pos'[x] = pos[x]
      BY <1>7, PublishedFacts DEF SlabInv
  <2> QED BY <1>1, <1>16, <2>1 DEF SlabInv, PublishedKept
<1>20. TickedKept'
  <2>1. \A x \in ticked : x \in Mine BY DEF SlabInv, TickedKept
  <2> SUFFICES ASSUME NEW x \in ticked, x \notin published
               PROVE  LET c == blockOf'[pos[x].seq]
                      IN  c.dirSynced /\ pos[x].off + pos[x].size + c.unflushed <= c.len
      BY <1>1, <1>7, <2>1 DEF TickedKept
  <2>2. LET c == blockOf[pos[x].seq]
        IN  c.dirSynced /\ pos[x].off + pos[x].size + c.unflushed <= c.len
      BY DEF SlabInv, TickedKept
  <2>3. pos[x].seq \in Seqs /\ pos[x].off \in Nat /\ pos[x].size \in Nat
      BY <2>1, MineFacts DEF SlabInv
  <2>4. CASE pos[x].seq = s BY <1>4, <1>9, <2>2, <2>3, <2>4 DEF b
  <2>5. CASE pos[x].seq # s BY <1>9, <2>2, <2>3, <2>5
  <2> QED BY <2>4, <2>5
<1> QED BY <1>11, <1>12, <1>13, <1>14, <1>15, <1>17, <1>18, <1>19, <1>20 DEF SlabInv

\* The new block of slab_append: its number, its file, and where it stands.
LEMMA MintFacts ==
    ASSUME SlabInv, NEW size \in 0 .. MaxSize, SlabAppend(size),
           active = NoBlock \/ NeedsRotation(size)
    PROVE  LET s == nextSeq
               i == Len(inodes) + 1
               r == Len(pos) + 1
           IN
           /\ UNCHANGED <<ddir, slabPc, sealing, born, ticked, published, deaths>>
           /\ slabPc = "idle" /\ Len(pos) < MaxRecs /\ s \in Seqs /\ s \in Nat
           /\ nextSeq' = s + 1 /\ active' = s
           /\ Oldest' = Oldest /\ pending' \in Seq(Seqs)
           /\ \A k \in 1 .. Len(pending') : pending'[k] = Oldest + k - 1
           /\ s = Oldest + Len(pending')
           /\ \A t \in Seqs : /\ Open(t)' <=> Open(t) \/ t = s
                              /\ Open(t) => t # s
                              /\ Open(t) /\ t = active => blockOf[t].len > 0
           /\ dir' = [dir EXCEPT ![Part(s)] = i]
           /\ inodes' = Written(Append(inodes, [data |-> << >>, synced |-> 0]), i, r, size)
           /\ blockOf' \in [Seqs -> [inode : 0 .. i, len : 0 .. Full, unflushed : 0 .. Full,
                                     dirSynced : BOOLEAN]]
           /\ \A t \in Seqs : t # s => blockOf'[t] = blockOf[t]
           /\ blockOf'[s].inode = i /\ blockOf'[s].len = size /\ blockOf'[s].unflushed = size
           /\ ~blockOf'[s].dirSynced
           /\ pos' = Append(pos, [seq |-> s, off |-> 0, size |-> size])
<1> DEFINE s == nextSeq
           i == Len(inodes) + 1
           r == Len(pos) + 1
<1>1. /\ UNCHANGED <<ddir, slabPc, sealing, born, ticked, published, deaths>>
      /\ slabPc = "idle" /\ Len(pos) < MaxRecs
      /\ nextSeq' = s + 1 /\ active' = s
      /\ pending' = IF NeedsRotation(size) THEN Append(pending, active) ELSE pending
    BY DEF SlabAppend
<1>2. /\ s \in Seqs /\ s \in Nat /\ Oldest \in Nat /\ Oldest <= s
      /\ pending \in Seq(Seqs) /\ Len(pending) \in Nat /\ size \in Nat
      /\ \A k \in 1 .. Len(pending) : pending[k] = Oldest + k - 1
      /\ active # NoBlock => active = Oldest + Len(pending) /\ s = active + 1 /\ active \in Seqs
      /\ active = NoBlock => pending = << >> /\ Oldest = s
  <2>1. /\ Oldest \in Nat /\ Oldest <= s /\ s <= Len(pos) /\ Len(pos) \in Nat /\ MaxRecs \in Nat
        /\ active # NoBlock => active \in Seqs
        /\ active = NoBlock => Oldest = s
      BY OldestFacts DEF SlabInv
  <2>2. s \in Nat /\ pending \in Seq(Seqs) /\ Len(pending) \in Nat BY DEF SlabInv, SlabTypes
  <2>3. s \in Seqs BY <1>1, <2>1, <2>2 DEF Seqs
  <2>4. /\ \A k \in 1 .. Len(pending) : pending[k] = Oldest + k - 1
        /\ active # NoBlock => active = Oldest + Len(pending) /\ s = active + 1
        /\ active = NoBlock => pending = << >>
      BY DEF SlabInv, BlocksInOrder
  <2>5. size \in Nat BY SlabAssumption
  <2> QED BY <2>1, <2>2, <2>3, <2>4, <2>5
<1>3. /\ dir' = [dir EXCEPT ![Part(s)] = i]
      /\ inodes' = Written(Append(inodes, [data |-> << >>, synced |-> 0]), i, r, size)
      /\ pos' = Append(pos, [seq |-> s, off |-> 0, size |-> size])
      /\ blockOf' \in [Seqs -> [inode : 0 .. i, len : 0 .. Full, unflushed : 0 .. Full,
                                dirSynced : BOOLEAN]]
      /\ \A t \in Seqs : t # s => blockOf'[t] = blockOf[t]
      /\ blockOf'[s].inode = i /\ blockOf'[s].len = size /\ blockOf'[s].unflushed = size
      /\ ~blockOf'[s].dirSynced
  <2> DEFINE m == MintBlock(s)
             b == [NoData EXCEPT !.inode = m.inode]
             c == [b EXCEPT !.len = @ + size, !.unflushed = @ + size]
             Blocks == [inode : 0 .. i, len : 0 .. Full, unflushed : 0 .. Full, dirSynced : BOOLEAN]
  <2>1. WriteAll(s, b, m.inodes, size) /\ dir' = m.dir BY <1>1 DEF SlabAppend
  <2>2. /\ m.inode = i /\ m.inodes = Append(inodes, [data |-> << >>, synced |-> 0])
        /\ m.dir = [dir EXCEPT ![Part(s)] = i]
      BY DEF MintBlock
  <2>3. /\ inodes' = Written(m.inodes, b.inode, r, size)
        /\ blockOf' = [blockOf EXCEPT ![s] = c]
        /\ pos' = Append(pos, [seq |-> s, off |-> b.len, size |-> size])
      BY <2>1 DEF WriteAll, Written
  <2>4. i \in Nat /\ Full \in Nat /\ size \in 0 .. Full /\ size \in Nat
      BY <1>2, InodeFacts, SlabAssumption DEF SlabInv, Full
  <2> HIDE DEF m, i
  <2>5. PICK j \in Nat : j = i /\ j = m.inode BY <2>2, <2>4
  <2>6. b.inode = i /\ b.len = 0 /\ b.unflushed = 0 /\ b.dirSynced = FALSE
      BY <2>5 DEF NoData
  <2>7. b \in Blocks
    <3>1. NoData \in Blocks BY <2>4 DEF NoData
    <3>2. m.inode \in 0 .. i BY <2>4, <2>5
    <3> QED BY <3>1, <3>2
  <2> HIDE DEF b
  <2>8. c \in Blocks
    <3>1. b.len + size \in 0 .. Full /\ b.unflushed + size \in 0 .. Full BY <2>4, <2>6
    <3> QED BY <2>7, <3>1
  <2>9. c.inode = b.inode /\ c.len = 0 + size /\ c.unflushed = 0 + size /\ c.dirSynced = FALSE
      BY <2>6, <2>7
  <2> HIDE DEF c
  <2>10. \A t \in Seqs : blockOf[t] \in Blocks /\ DOMAIN blockOf = Seqs
    <3>1. blockOf \in [Seqs -> [inode : 0 .. Len(inodes), len : 0 .. Full,
                                 unflushed : 0 .. Full, dirSynced : BOOLEAN]]
        BY DEF SlabInv, SlabTypes
    <3>2. 0 .. Len(inodes) \subseteq 0 .. i BY InodeFacts, <1>2 DEF SlabInv, i
    <3> QED BY <3>1, <3>2
  <2> HIDE DEF Blocks
  <2>11. blockOf' \in [Seqs -> Blocks] /\ (\A t \in Seqs : t # s => blockOf'[t] = blockOf[t])
         /\ blockOf'[s] = c
      BY <1>2, <2>3, <2>8, <2>10
  <2>12. 0 + size = size BY <2>4
  <2> QED BY <2>1, <2>2, <2>3, <2>6, <2>9, <2>11, <2>12 DEF Blocks
<1> HIDE DEF i, r
<1>4. /\ Oldest' = Oldest /\ pending' \in Seq(Seqs)
      /\ \A k \in 1 .. Len(pending') : pending'[k] = Oldest + k - 1
      /\ s = Oldest + Len(pending')
  <2>1. CASE active = NoBlock
    <3>1. pending' = << >> BY <1>1, <1>2, <2>1 DEF NeedsRotation
    <3>2. active' # NoBlock BY <1>1, <1>2, SlabAssumption
    <3>3. Oldest' = Oldest BY <1>1, <1>2, <2>1, <3>1, <3>2 DEF Oldest
    <3>4. s = Oldest + 0 /\ Len(pending') = 0 BY <1>2, <2>1, <3>1
    <3> HIDE DEF s
    <3> QED BY <3>1, <3>3, <3>4
  <2>2. CASE active # NoBlock
    <3>1. pending' = Append(pending, active) BY <1>1, <2>2
    <3>2. PICK n \in Nat, o \in Nat, a \in Seqs : n = Len(pending) /\ o = Oldest /\ a = active
        BY <1>2, <2>2
    <3>3. PICK p \in Seq(Seqs) : p = pending BY <1>2
    <3>4. /\ Append(p, a) \in Seq(Seqs) /\ Len(Append(p, a)) = n + 1
          /\ \A k \in 1 .. n : Append(p, a)[k] = p[k]
          /\ Append(p, a)[n + 1] = a
        BY <3>2, <3>3
    <3>5. a = o + n /\ s = a + 1 BY <1>2, <2>2, <3>2
    <3>6. \A k \in 1 .. (n + 1) : Append(p, a)[k] = o + k - 1
      <4> SUFFICES ASSUME NEW k \in 1 .. (n + 1) PROVE Append(p, a)[k] = o + k - 1
          OBVIOUS
      <4>1. CASE k = n + 1 BY <3>2, <3>4, <3>5, <4>1
      <4>2. CASE k # n + 1
        <5>1. k \in 1 .. n BY <4>2
        <5> QED BY <1>2, <3>2, <3>3, <3>4, <5>1
      <4> QED BY <4>1, <4>2
    <3>7. Oldest' = Oldest
      <4>1. pending' # << >> /\ Head(pending') = Append(p, a)[1] BY <3>1, <3>2, <3>3, <3>4
      <4>2. Append(p, a)[1] = o
        <5>1. 1 \in 1 .. (n + 1) BY <3>2
        <5>2. Append(p, a)[1] = o + 1 - 1 BY <3>6, <5>1
        <5> QED BY <3>2, <5>2
      <4>3. Oldest' = Head(pending') BY <4>1 DEF Oldest
      <4> QED BY <3>2, <4>1, <4>2, <4>3
    <3>8. s = o + (n + 1) BY <3>2, <3>5
    <3> HIDE DEF s
    <3> QED BY <3>1, <3>2, <3>3, <3>4, <3>6, <3>7, <3>8
  <2> QED BY <2>1, <2>2
<1>5. ASSUME NEW t \in Seqs
      PROVE  /\ Open(t)' <=> Open(t) \/ t = s
             /\ Open(t) => t # s
             /\ Open(t) /\ t = active => blockOf[t].len > 0
  <2>1. t \in Nat BY DEF Seqs
  <2>2. Open(t)' <=> Oldest <= t /\ t < s + 1 BY <1>1, <1>4 DEF Open
  <2>3. t = active => NeedsRotation(size) BY <2>1, SlabAssumption
  <2> QED BY <1>2, <2>1, <2>2, <2>3 DEF Open, NeedsRotation
<1> QED BY <1>1, <1>2, <1>3, <1>4, <1>5 DEF i, r

\* A record that opens a block of its own.
LEMMA AppendMint ==
    ASSUME SlabInv, NEW size \in 0 .. MaxSize, SlabAppend(size),
           active = NoBlock \/ NeedsRotation(size)
    PROVE  SlabInv'
<1> DEFINE s == nextSeq
           i == Len(inodes) + 1
           r == Len(pos) + 1
           empty == [data |-> << >>, synced |-> 0]
<1>1. /\ UNCHANGED <<ddir, slabPc, sealing, born, ticked, published, deaths>>
      /\ slabPc = "idle" /\ Len(pos) < MaxRecs /\ s \in Seqs /\ s \in Nat
      /\ nextSeq' = s + 1 /\ active' = s
      /\ Oldest' = Oldest /\ pending' \in Seq(Seqs)
      /\ \A k \in 1 .. Len(pending') : pending'[k] = Oldest + k - 1
      /\ s = Oldest + Len(pending')
    BY MintFacts
<1>2. \A t \in Seqs : /\ Open(t)' <=> Open(t) \/ t = s
                      /\ Open(t) => t # s
                      /\ Open(t) /\ t = active => blockOf[t].len > 0
    BY MintFacts
<1>3. /\ dir' = [dir EXCEPT ![Part(s)] = i]
      /\ inodes' = Written(Append(inodes, empty), i, r, size)
      /\ pos' = Append(pos, [seq |-> s, off |-> 0, size |-> size])
    BY MintFacts
<1>4. /\ blockOf' \in [Seqs -> [inode : 0 .. i, len : 0 .. Full, unflushed : 0 .. Full,
                                dirSynced : BOOLEAN]]
      /\ \A t \in Seqs : t # s => blockOf'[t] = blockOf[t]
      /\ blockOf'[s].inode = i /\ blockOf'[s].len = size /\ blockOf'[s].unflushed = size
      /\ ~blockOf'[s].dirSynced
    BY MintFacts
<1>5. Len(inodes) \in Nat /\ i \in Nat \ {0} /\ size \in Nat /\ 0 \in 0 .. Full
    BY <1>1, InodeFacts, SlabAssumption DEF SlabInv, Full
<1>6. /\ r \in 1 .. MaxRecs /\ Len(pos') = r /\ Len(pos) \in Nat /\ MaxRecs \in Nat
      /\ pos' \in Seq([seq : Seqs, off : 0 .. Full, size : 0 .. MaxSize])
      /\ pos'[r] = [seq |-> s, off |-> 0, size |-> size]
      /\ \A x \in 1 .. Len(pos) : pos'[x] = pos[x]
      /\ Mine \subseteq Mine' /\ Mine' \subseteq Mine \union {r}
      /\ published \subseteq 1 .. Len(pos) /\ Mine \subseteq 1 .. Len(pos)
    BY <1>1, <1>3, <1>5, PosGrows DEF SlabInv
<1>7. /\ inodes' \in Seq(File) /\ Len(inodes') = i
      /\ \A j \in 1 .. Len(inodes) : inodes'[j] = inodes[j]
      /\ inodes'[i].synced = 0 /\ Len(inodes'[i].data) = size
      /\ \A k \in 1 .. size : inodes'[i].data[k] = r
  <2>1. inodes \in Seq(File) BY DEF SlabInv, SlabTypes
  <2>2. empty \in File BY DEF File
  <2> HIDE DEF empty
  <2>3. PICK old \in Seq(File), files \in Seq(File) :
            /\ old = inodes /\ files = Append(inodes, empty) /\ Len(files) = i
            /\ files[i] = empty /\ \A j \in 1 .. Len(old) : files[j] = old[j]
    <3>1. PICK old \in Seq(File), f \in File : old = inodes /\ f = empty BY <2>1, <2>2
    <3>2. /\ Append(old, f) \in Seq(File) /\ Len(Append(old, f)) = Len(old) + 1
          /\ Append(old, f)[Len(old) + 1] = f
          /\ \A j \in 1 .. Len(old) : Append(old, f)[j] = old[j]
        BY ONLY old \in Seq(File), f \in File
    <3> QED BY <3>1, <3>2
  <2> HIDE DEF i, r
  <2>4. PICK j \in 1 .. Len(files), x \in 1 .. MaxRecs, n \in Nat : j = i /\ x = r /\ n = size
    <3>1. i \in 1 .. Len(files) BY ONLY <1>5, <2>3
    <3> QED BY <1>5, <1>6, <3>1
  <2>5. PICK g : g = Written(files, j, x, n) OBVIOUS
  <2>6. /\ g \in Seq(File) /\ Len(g) = Len(files)
        /\ \A k \in 1 .. Len(files) : k # j => g[k] = files[k]
        /\ g[j].synced = files[j].synced
        /\ Len(g[j].data) = Len(files[j].data) + n
        /\ \A k \in (Len(files[j].data) + 1) .. Len(g[j].data) : g[j].data[k] = x
    <3>0. files \in Seq(File) /\ j \in 1 .. Len(files) /\ x \in 1 .. MaxRecs /\ n \in Nat OBVIOUS
    <3>1. g \in Seq(File) /\ Len(g) = Len(files)
        BY <2>5, WriteAllFacts
    <3>2. \A k \in 1 .. Len(files) : k # j => g[k] = files[k]
        BY <2>5, WriteAllFacts
    <3>3. g[j].synced = files[j].synced
        BY <2>5, WriteAllFacts
    <3>4. Len(g[j].data) = Len(files[j].data) + n
        BY ONLY <3>0, <2>5, WriteAllLonger
    <3>5. \A k \in (Len(files[j].data) + 1) .. Len(g[j].data) : g[j].data[k] = x
        BY <2>5, WriteAllFacts
    <3> QED BY ONLY <3>1, <3>2, <3>3, <3>4, <3>5
  <2>7. inodes' = g BY <1>3, <2>3, <2>4, <2>5
  <2>8. files[j].synced = 0 /\ Len(files[j].data) = 0 BY <2>3, <2>4 DEF empty
  <2>9. Len(g[j].data) = n /\ \A k \in 1 .. n : g[j].data[k] = x BY <2>4, <2>6, <2>8
  <2>10. \A k \in 1 .. Len(inodes) : inodes'[k] = inodes[k]
    <3>1. \A k \in 1 .. Len(inodes) : k \in 1 .. Len(files) /\ k # j BY <1>5, <2>3, <2>4 DEF i
    <3> QED BY <2>3, <2>6, <2>7, <3>1
  <2> QED BY <2>3, <2>4, <2>6, <2>7, <2>8, <2>9, <2>10
<1> HIDE DEF s, empty
<1>8. /\ dir'[Part(s)] = i
      /\ \A n \in Names : n # Part(s) => dir'[n] = dir[n] /\ dir[n] \in 0 .. Len(inodes)
      /\ \A n \in Names : ddir[n] \in 0 .. Len(inodes)
      /\ \A t \in Seqs : dir'[Sealed(t)] = dir[Sealed(t)] /\ Part(t) \in Names /\ Sealed(t) \in Names
      /\ \A t \in Seqs : t # s => dir'[Part(t)] = dir[Part(t)]
  <2>1. dir \in [Names -> 0 .. Len(inodes)] /\ ddir \in [Names -> 0 .. Len(inodes)]
      BY DEF SlabInv, SlabTypes
  <2> HIDE DEF i
  <2>2. Part(s) \in Names /\ \A t \in Seqs : Sealed(t) # Part(s) /\ (t # s => Part(t) # Part(s))
      BY <1>1, NameFacts
  <2>3. dir'[Part(s)] = i /\ \A n \in Names : n # Part(s) => dir'[n] = dir[n]
      BY <1>3, <2>1, <2>2
  <2> QED BY <2>1, <2>2, <2>3, NameFacts
<1>9. \A t \in Seqs : NameOf(t)' = Part(t) /\ NameOf(t) = Part(t)
    BY <1>1 DEF NameOf
<1>10. \A t \in Seqs : Open(t) => blockOf[t].inode \in 1 .. Len(inodes)
    BY <1>1, HeldApart DEF SlabInv
<1>11. \A t \in Seqs : /\ dir[Sealed(t)] # 0 => inodes'[dir[Sealed(t)]] = inodes[dir[Sealed(t)]]
                       /\ ddir[Sealed(t)] # 0 => inodes'[ddir[Sealed(t)]] = inodes[ddir[Sealed(t)]]
  <2>1. \A t \in Seqs : dir[Sealed(t)] \in 0 .. Len(inodes) /\ ddir[Sealed(t)] \in 0 .. Len(inodes)
      BY InodeFacts DEF SlabInv
  <2> QED BY <1>5, <1>7, <2>1
<1>12. SlabTypes'
  <2>1. dir' \in [Names -> 0 .. i]
    <3>1. dir \in [Names -> 0 .. Len(inodes)] BY DEF SlabInv, SlabTypes
    <3>2. 0 .. Len(inodes) \subseteq 0 .. i /\ i \in 0 .. i BY <1>5
    <3> HIDE DEF i
    <3> QED BY <1>3, <3>1, <3>2
  <2>2. ddir' \in [Names -> 0 .. i]
    <3>1. ddir \in [Names -> 0 .. Len(inodes)] BY DEF SlabInv, SlabTypes
    <3>2. 0 .. Len(inodes) \subseteq 0 .. i BY <1>5
    <3> HIDE DEF i
    <3> QED BY <1>1, <3>1, <3>2
  <2>3. Len(pos') <= MaxRecs /\ published' \subseteq 1 .. Len(pos') /\ born' \in 0 .. Len(pos')
    <3>1. born \in 0 .. Len(pos) BY DEF SlabInv, SlabTypes
    <3> QED BY <1>1, <1>6, <3>1
  <2>4. nextSeq' \in Nat /\ active' \in Seqs \union {NoBlock} /\ slabPc' = slabPc
        /\ sealing' = sealing /\ deaths' = deaths
      BY <1>1
  <2>5. slabPc \in {"closed", "idle", "sweep", "dir", "sealed"} /\ sealing \in BOOLEAN
        /\ deaths \in 0 .. MaxDeaths
      BY DEF SlabInv, SlabTypes
  <2> HIDE DEF i, r
  <2> QED BY <1>1, <1>4, <1>6, <1>7, <2>1, <2>2, <2>3, <2>4, <2>5 DEF SlabTypes
<1>13. BlocksInOrder'
  <2>1. s + 1 <= Len(pos')
    <3>1. s <= Len(pos) BY DEF SlabInv, BlocksInOrder, s
    <3> QED BY <1>1, <1>6, <3>1
  <2>2. active' # NoBlock BY <1>1, SlabAssumption
  <2> QED BY <1>1, <2>1, <2>2 DEF BlocksInOrder
<1>14. SealedInOrder'
    BY <1>1, <1>8 DEF SlabInv, SealedInOrder, SealedBelow
<1>15. FilesApart'
  <2>1. \A n \in Names : dir'[n] # 0 => n = Part(s) \/ (dir'[n] = dir[n] /\ dir[n] # i)
      BY <1>5, <1>8
  <2>2. \A n \in Names : ddir[n] # i BY <1>5, <1>8
  <2> QED BY <1>1, <1>8, <2>1, <2>2 DEF SlabInv, FilesApart
<1>16. OpenFiles'
  <2> SUFFICES ASSUME NEW t \in Seqs, Open(t) \/ t = s
               PROVE  LET c == blockOf'[t] IN
                      /\ c.inode # 0 /\ dir'[Part(t)] = c.inode
                      /\ Len(inodes'[c.inode].data) = c.len
                      /\ inodes'[c.inode].synced + c.unflushed = c.len
                      /\ c.dirSynced => ddir[Part(t)] = c.inode
                      /\ c.unflushed = 0 /\ c.len > 0 => c.dirSynced
                      /\ t # s => c.len > 0
      BY <1>1, <1>2, <1>9 DEF OpenFiles
  <2>1. CASE t = s
    <3>1. 0 + size = size BY <1>5
    <3> QED BY <1>4, <1>5, <1>7, <1>8, <2>1, <3>1
  <2>2. CASE t # s
    <3>1. LET c == blockOf[t] IN
          /\ c.inode # 0 /\ dir[Part(t)] = c.inode
          /\ Len(inodes[c.inode].data) = c.len
          /\ inodes[c.inode].synced + c.unflushed = c.len
          /\ c.dirSynced => ddir[Part(t)] = c.inode
          /\ c.unflushed = 0 /\ c.len > 0 => c.dirSynced
          /\ t # active => c.len > 0
        BY <1>1, <1>9, <2>2 DEF SlabInv, OpenFiles
    <3>2. blockOf'[t] = blockOf[t] /\ dir'[Part(t)] = dir[Part(t)]
          /\ inodes'[blockOf[t].inode] = inodes[blockOf[t].inode]
        BY <1>4, <1>7, <1>8, <1>10, <2>2
    <3> QED BY <1>2, <2>2, <3>1, <3>2
  <2> QED BY <2>1, <2>2
<1>17. SealedFiles'
  <2> SUFFICES ASSUME NEW t \in Seqs
               PROVE  /\ dir[Sealed(t)] # 0 =>
                           inodes'[dir[Sealed(t)]].synced = Len(inodes'[dir[Sealed(t)]].data)
                      /\ ddir[Sealed(t)] # 0 => dir[Sealed(t)] = ddir[Sealed(t)]
      BY <1>1, <1>8 DEF SealedFiles
  <2>1. /\ dir[Sealed(t)] # 0 => inodes[dir[Sealed(t)]].synced = Len(inodes[dir[Sealed(t)]].data)
        /\ ddir[Sealed(t)] # 0 => dir[Sealed(t)] = ddir[Sealed(t)]
      BY DEF SlabInv, SealedFiles
  <2> QED BY <1>11, <2>1
<1>18. RecordsInPlace'
  <2> SUFFICES ASSUME NEW x \in Mine', x \notin published
               PROVE  /\ Open(pos'[x].seq) \/ pos'[x].seq = s
                      /\ InPlace(inodes'[blockOf'[pos'[x].seq].inode], pos'[x], x)
    <3>1. \A x \in Mine' : pos'[x].seq \in Seqs BY <1>12, MineFactsNext
    <3> QED BY <1>1, <1>2, <3>1 DEF RecordsInPlace
  <2>1. CASE x = r
    <3>1. pos'[x].off = 0 /\ pos'[x].size = size /\ pos'[x].seq = s BY <1>6, <2>1
    <3>2. \A k \in 1 .. size : 0 + k = k BY <1>5
    <3>3. 0 + size = size /\ size <= size BY <1>5
    <3>4. InPlace(inodes'[i], pos'[x], x) BY <1>7, <2>1, <3>1, <3>2, <3>3 DEF InPlace
    <3> QED BY <1>4, <3>1, <3>4
  <2>2. CASE x # r
    <3>1. x \in Mine /\ pos'[x] = pos[x] BY <1>6, <2>2
    <3>2. /\ Open(pos[x].seq) /\ InPlace(inodes[blockOf[pos[x].seq].inode], pos[x], x)
          /\ pos[x].seq \in Seqs
        BY <3>1, MineFacts DEF SlabInv, RecordsInPlace
    <3>3. pos[x].seq # s BY <1>2, <3>2
    <3> QED BY <1>4, <1>7, <1>10, <3>1, <3>2, <3>3
  <2> QED BY <2>1, <2>2
<1>19. PublishedKept'
  <2>1. \A x \in published : pos[x].seq \in Seqs /\ pos'[x] = pos[x]
      BY <1>6, PublishedFacts DEF SlabInv
  <2> SUFFICES ASSUME NEW x \in published
               PROVE  /\ ddir[Sealed(pos[x].seq)] # 0
                      /\ InPlace(inodes'[ddir[Sealed(pos[x].seq)]], pos[x], x)
      BY <1>1, <2>1 DEF PublishedKept
  <2>2. /\ ddir[Sealed(pos[x].seq)] # 0
        /\ InPlace(inodes[ddir[Sealed(pos[x].seq)]], pos[x], x)
      BY DEF SlabInv, PublishedKept
  <2> QED BY <1>11, <2>1, <2>2
<1>20. TickedKept'
  <2>1. \A x \in ticked : x \in Mine BY DEF SlabInv, TickedKept
  <2> SUFFICES ASSUME NEW x \in ticked, x \notin published
               PROVE  LET c == blockOf'[pos[x].seq]
                      IN  c.dirSynced /\ pos[x].off + pos[x].size + c.unflushed <= c.len
      BY <1>1, <1>6, <2>1 DEF TickedKept
  <2>2. LET c == blockOf[pos[x].seq]
        IN  c.dirSynced /\ pos[x].off + pos[x].size + c.unflushed <= c.len
      BY DEF SlabInv, TickedKept
  <2>3. pos[x].seq \in Seqs /\ Open(pos[x].seq) BY <2>1, MineFacts DEF SlabInv, RecordsInPlace
  <2>4. pos[x].seq # s BY <1>2, <2>3
  <2> QED BY <1>4, <2>2, <2>3, <2>4
<1> QED BY <1>12, <1>13, <1>14, <1>15, <1>16, <1>17, <1>18, <1>19, <1>20 DEF SlabInv

-----------------------------------------------------------------------------
(* A death *)

\* The smaller of two lengths.
LEMMA MinOfTwo ==
    ASSUME NEW a \in Nat, NEW b \in Nat
    PROVE  Min({a, b}) \in Nat /\ Min({a, b}) <= b /\ (b <= a => Min({a, b}) = b)
<1> DEFINE least(x) == \A y \in {a, b} : x <= y
<1>1. \E x \in {a, b} : least(x) OBVIOUS
<1>2. Min({a, b}) = CHOOSE x \in {a, b} : least(x) BY DEF Min
<1> HIDE DEF least
<1>3. Min({a, b}) \in {a, b} /\ least(Min({a, b})) BY <1>1, <1>2
<1>4. PICK m : m = Min({a, b}) OBVIOUS
<1>5. m \in {a, b} /\ m <= a /\ m <= b BY <1>3, <1>4 DEF least
<1> QED BY <1>4, <1>5

\* What a death leaves of file f if n unsynced bytes survive
Left(f, n) ==
    LET len == Min({f.synced + n, Len(f.data)})
    IN  [data |-> SubSeq(f.data, 1, len), synced |-> len]

\* It is synced to its end, and if it was before, it is as it was.
LEMMA Survivor ==
    ASSUME NEW f \in File, NEW n \in Nat
    PROVE  /\ Left(f, n) \in File /\ Left(f, n).synced = Len(Left(f, n).data)
           /\ f.synced = Len(f.data) => Left(f, n) = f
<1> DEFINE g == Left(f, n)
<1>1. /\ f.data \in Seq(1 .. MaxRecs) /\ f.synced \in Nat
      /\ f = [data |-> f.data, synced |-> f.synced]
    BY DEF File
<1>2. PICK d \in Seq(1 .. MaxRecs), s \in Nat, z \in Nat : d = f.data /\ s = f.synced /\ z = Len(d)
    BY <1>1
<1>3. PICK len : len = Min({s + n, z}) OBVIOUS
<1>4. len \in Nat /\ len <= z /\ (z <= s + n => len = z)
  <2>1. s + n \in Nat OBVIOUS
  <2> QED BY <1>3, <2>1, MinOfTwo
<1>5. SubSeq(d, 1, len) \in Seq(1 .. MaxRecs) /\ Len(SubSeq(d, 1, len)) = len
  <2>1. PICK S : S = 1 .. MaxRecs OBVIOUS
  <2>2. d \in Seq(S) /\ 1 \in 1 .. (Len(d) + 1) /\ len \in (1 - 1) .. Len(d)
      BY <1>2, <1>4, <2>1
  <2>3. SubSeq(d, 1, len) \in Seq(S) /\ Len(SubSeq(d, 1, len)) = IF 1 <= len THEN len - 1 + 1 ELSE 0
      BY ONLY <1>4, <2>2, SubSeqProperties
  <2>4. Len(SubSeq(d, 1, len)) = len BY <1>4, <2>3
  <2> QED BY <2>1, <2>3, <2>4
<1>6. g = [data |-> SubSeq(d, 1, len), synced |-> len] BY <1>2, <1>3 DEF Left
<1> HIDE DEF g
<1>7. g \in File /\ g.synced = Len(g.data) BY <1>4, <1>5, <1>6 DEF File
<1>8. ASSUME f.synced = Len(f.data) PROVE g = f
  <2>1. s = z /\ z <= s + n BY <1>2, <1>8
  <2>2. len = z BY <1>4, <2>1
  <2>3. SubSeq(d, 1, z) = d BY <1>2
  <2> QED BY <1>1, <1>2, <1>6, <2>1, <2>2, <2>3
<1> QED BY <1>7, <1>8 DEF g

\* The files and the directory after a death.
LEMMA CrashFacts ==
    ASSUME SlabInv, SlabCrash
    PROVE  /\ inodes' \in Seq(File) /\ Len(inodes') = Len(inodes)
           /\ \A i \in 1 .. Len(inodes) :
                  /\ inodes'[i].synced = Len(inodes'[i].data)
                  /\ inodes[i].synced = Len(inodes[i].data) => inodes'[i] = inodes[i]
           /\ dir' \in [Names -> 0 .. Len(inodes)] /\ ddir' = dir'
           /\ \A n \in Names : dir'[n] = dir[n] \/ dir'[n] = ddir[n]
<1>1. PICK undone : /\ dir' = [n \in Names |-> IF n.seq \in undone THEN ddir[n] ELSE dir[n]]
                    /\ ddir' = dir'
    BY DEF SlabCrash
<1>2. PICK n \in Nat : inodes' = [i \in 1 .. Len(inodes) |-> Left(inodes[i], n)]
  <2>1. PICK n \in 0 .. (BlockBytes + MaxSize) :
            inodes' = [i \in 1 .. Len(inodes) |-> Left(inodes[i], n)]
      BY DEF SlabCrash, Left
  <2>2. n \in Nat BY SlabAssumption
  <2> QED BY <2>1, <2>2
<1>3. dir \in [Names -> 0 .. Len(inodes)] /\ ddir \in [Names -> 0 .. Len(inodes)]
      /\ inodes \in Seq(File) /\ Len(inodes) \in Nat
    BY DEF SlabInv, SlabTypes
<1>4. dir' \in [Names -> 0 .. Len(inodes)] /\ \A m \in Names : dir'[m] = dir[m] \/ dir'[m] = ddir[m]
    BY <1>1, <1>3
<1>5. ASSUME NEW i \in 1 .. Len(inodes)
      PROVE  /\ inodes'[i] \in File /\ inodes'[i].synced = Len(inodes'[i].data)
             /\ inodes[i].synced = Len(inodes[i].data) => inodes'[i] = inodes[i]
  <2>1. PICK f \in File : f = inodes[i] BY <1>3
  <2>2. inodes'[i] = Left(f, n) BY <1>2, <2>1
  <2> QED BY <2>1, <2>2, Survivor
<1>6. inodes' \in [1 .. Len(inodes) -> File]
  <2>1. DOMAIN inodes' = 1 .. Len(inodes) /\ inodes' = [i \in 1 .. Len(inodes) |-> inodes'[i]]
      BY <1>2
  <2> QED BY <1>5, <2>1
<1>7. inodes' \in Seq(File) /\ Len(inodes') = Len(inodes)
  <2>1. PICK m \in Nat : m = Len(inodes) BY <1>3
  <2>2. PICK g : g = inodes' OBVIOUS
  <2>3. g \in [1 .. m -> File] /\ [1 .. m -> File] \in {[1 .. k -> File] : k \in Nat}
      BY <1>6, <2>1, <2>2
  <2>4. g \in Seq(File)
    <3>1. g \in UNION {[1 .. k -> File] : k \in Nat} BY <2>3
    <3> QED BY <3>1, SeqDef
  <2>5. DOMAIN g = 1 .. m /\ DOMAIN g = 1 .. Len(g) /\ Len(g) \in Nat BY <2>3, <2>4
  <2>6. Len(g) = m BY ONLY <2>5, m \in Nat
  <2> QED BY <2>1, <2>2, <2>4, <2>6
<1> QED BY <1>1, <1>4, <1>5, <1>7

\* A death leaves a directory the next writer can open.
LEMMA SlabCrashStep == ASSUME SlabInv, SlabCrash PROVE SlabInv'
<1>1. /\ UNCHANGED <<pos, published>>
      /\ slabPc # "closed" /\ slabPc' = "closed" /\ sealing' = FALSE
      /\ nextSeq' = 0 /\ active' = NoBlock /\ pending' = << >>
      /\ blockOf' = [s \in Seqs |-> NoData] /\ ticked' = {} /\ born' = Len(pos)
      /\ deaths < MaxDeaths /\ deaths' = deaths + 1
    BY DEF SlabCrash
<1>2. /\ inodes' \in Seq(File) /\ Len(inodes') = Len(inodes)
      /\ \A i \in 1 .. Len(inodes) :
             /\ inodes'[i].synced = Len(inodes'[i].data)
             /\ inodes[i].synced = Len(inodes[i].data) => inodes'[i] = inodes[i]
      /\ dir' \in [Names -> 0 .. Len(inodes)] /\ ddir' = dir'
      /\ \A n \in Names : dir'[n] = dir[n] \/ dir'[n] = ddir[n]
    BY CrashFacts
<1>3. Len(pos) \in Nat /\ Len(inodes) \in Nat /\ MaxDeaths \in Nat /\ Full \in Nat
    BY SlabAssumption DEF SlabInv, SlabTypes, Full
<1>4. SlabTypes'
  <2>1. blockOf' \in [Seqs -> [inode : 0 .. Len(inodes), len : 0 .. Full,
                               unflushed : 0 .. Full, dirSynced : BOOLEAN]]
    <3>1. NoData \in [inode : 0 .. Len(inodes), len : 0 .. Full,
                      unflushed : 0 .. Full, dirSynced : BOOLEAN]
        BY <1>3 DEF NoData
    <3> QED BY <1>1, <3>1
  <2>2. born' \in 0 .. Len(pos) /\ deaths' \in 0 .. MaxDeaths
      BY <1>1, <1>3 DEF SlabInv, SlabTypes
  <2>3. /\ pos \in Seq([seq : Seqs, off : 0 .. Full, size : 0 .. MaxSize])
        /\ Len(pos) <= MaxRecs /\ published \subseteq 1 .. Len(pos)
      BY DEF SlabInv, SlabTypes
  <2>4. nextSeq' \in Nat /\ active' \in Seqs \union {NoBlock} /\ pending' \in Seq(Seqs)
        /\ sealing' \in BOOLEAN /\ slabPc' = "closed"
    <3>1. << >> \in Seq(Seqs) OBVIOUS
    <3> QED BY <1>1, <3>1
  <2> QED BY <1>1, <1>2, <2>1, <2>2, <2>3, <2>4 DEF SlabTypes
<1>5. BlocksInOrder' BY <1>1, <1>3 DEF BlocksInOrder
<1>6. SealedInOrder'
  <2>1. /\ Oldest \in Nat /\ Oldest <= Len(pos)
        /\ slabPc = "sealed" => Oldest + 1 <= Len(pos)
      BY <1>3, OldestFacts DEF SlabInv, BlocksInOrder
  <2>2. /\ SealedBelow(ddir, Oldest)
        /\ SealedBelow(dir, IF slabPc = "sealed" THEN Oldest + 1 ELSE Oldest)
      BY <1>1 DEF SlabInv, SealedInOrder
  <2>3. \A s \in Seqs : s \in Nat /\ (dir'[Sealed(s)] = dir[Sealed(s)] \/ dir'[Sealed(s)] = ddir[Sealed(s)])
      BY <1>2, NameFacts DEF Seqs
  <2>4. \E m \in 0 .. Len(pos) : SealedBelow(dir', m)
    <3>1. CASE slabPc = "sealed" /\ dir'[Sealed(Oldest)] # 0
      <4>1. SealedBelow(dir', Oldest + 1) BY <2>1, <2>2, <2>3, <3>1 DEF SealedBelow
      <4>2. Oldest + 1 \in 0 .. Len(pos) BY <1>3, <2>1, <3>1
      <4> QED BY <4>1, <4>2
    <3>2. CASE ~(slabPc = "sealed" /\ dir'[Sealed(Oldest)] # 0)
      <4>1. SealedBelow(dir', Oldest) BY <2>1, <2>2, <2>3, <3>2 DEF SealedBelow
      <4>2. Oldest \in 0 .. Len(pos) BY <1>3, <2>1
      <4> QED BY <4>1, <4>2
    <3> QED BY <3>1, <3>2
  <2> QED BY <1>1, <1>2, <2>4 DEF SealedInOrder, SealedBelow
<1>7. FilesApart' BY <1>2 DEF SlabInv, FilesApart
<1>8. OpenFiles' BY <1>1 DEF OpenFiles
<1>9. SealedFiles'
  <2>1. \A s \in Seqs : dir'[Sealed(s)] \in 0 .. Len(inodes) BY <1>2, NameFacts
  <2>2. \A s \in Seqs : dir'[Sealed(s)] # 0 => dir'[Sealed(s)] \in 1 .. Len(inodes)
      BY <1>3, <2>1
  <2> QED BY <1>2, <2>2 DEF SealedFiles
<1>10. RecordsInPlace' /\ TickedKept'
  <2>1. Mine' = {} BY <1>1, <1>3 DEF Mine
  <2> QED BY <1>1, <2>1 DEF RecordsInPlace, TickedKept
<1>11. PublishedKept'
  <2> SUFFICES ASSUME NEW r \in published
               PROVE  /\ dir'[Sealed(pos[r].seq)] # 0
                      /\ InPlace(inodes'[dir'[Sealed(pos[r].seq)]], pos[r], r)
      BY <1>1, <1>2 DEF PublishedKept
  <2>1. PICK s \in Seqs : s = pos[r].seq BY PublishedFacts DEF SlabInv
  <2>2. ddir[Sealed(s)] # 0 /\ InPlace(inodes[ddir[Sealed(s)]], pos[r], r)
      BY <2>1 DEF SlabInv, PublishedKept
  <2>3. dir[Sealed(s)] = ddir[Sealed(s)] /\ dir'[Sealed(s)] = ddir[Sealed(s)]
    <3>1. dir[Sealed(s)] = ddir[Sealed(s)] BY <2>2 DEF SlabInv, SealedFiles
    <3> QED BY <1>2, <3>1, NameFacts
  <2>4. ddir[Sealed(s)] \in 1 .. Len(inodes) BY <2>2, InodeFacts DEF SlabInv
  <2>5. inodes'[ddir[Sealed(s)]] = inodes[ddir[Sealed(s)]]
      BY <1>2, <2>2, <2>3, <2>4 DEF SlabInv, SealedFiles
  <2> QED BY <2>1, <2>2, <2>3, <2>5
<1> QED BY <1>4, <1>5, <1>6, <1>7, <1>8, <1>9, <1>10, <1>11 DEF SlabInv

-----------------------------------------------------------------------------
(* The invariant *)

\* Every step of slablock.rs, and every death, keeps the invariant.
LEMMA SlabStep == ASSUME SlabInv, [SlabNext]_slabVars PROVE SlabInv'
<1>1. ASSUME NEW size \in 0 .. MaxSize, SlabAppend(size) PROVE SlabInv'
  <2>1. CASE active = NoBlock \/ NeedsRotation(size) BY <1>1, <2>1, AppendMint
  <2>2. CASE ~(active = NoBlock \/ NeedsRotation(size)) BY <1>1, <2>2, AppendHere
  <2> QED BY <2>1, <2>2
<1>2. ASSUME SlabTick \/ SlabSeal \/ UNCHANGED slabVars PROVE SlabInv'
  <2>1. /\ UNCHANGED <<fvars, svars, pos, born, published, ticked, deaths>>
        /\ slabPc' = slabPc \/ (slabPc \in {"idle", "sweep"} /\ slabPc' \in {"idle", "sweep"})
        /\ sealing' \in BOOLEAN
      BY <1>2 DEF SlabTick, SlabSeal, slabVars, avars, SlabInv, SlabTypes
  <2>2. UNCHANGED <<blockOf, pos, born, published, ticked>> /\ Mine' = Mine
      BY <2>1 DEF svars, Mine
  <2>3. TickedKept' BY <2>2 DEF SlabInv, TickedKept
  <2> QED BY <2>1, <2>3, QuietStep
<1>3. ASSUME SlabNext PROVE SlabInv'
  <2>1. CASE \E size \in 0 .. MaxSize : SlabAppend(size) \/ SlabAppendRaw(size)
      BY <1>1, <2>1 DEF SlabAppendRaw
  <2>2. CASE SlabTick \/ SlabSeal BY <1>2, <2>2
  <2>3. CASE SlabOpen BY <2>3, OpenStep
  <2>4. CASE SyncAll BY <2>4, SyncAllStep
  <2>5. CASE SyncDir BY <2>5, SyncDirStep
  <2>6. CASE Rename BY <2>6, RenameStep
  <2>7. CASE SealBlock BY <2>7, SealBlockStep
  <2>8. CASE SweepDone BY <2>8, SweepDoneStep
  <2>9. CASE SlabCrash BY <2>9, SlabCrashStep
  <2> QED
      BY <1>3, <2>1, <2>2, <2>3, <2>4, <2>5, <2>6, <2>7, <2>8, <2>9 DEF SlabNext
<1> QED BY <1>2, <1>3

\* The invariant holds throughout, over any number of writers' lives.
THEOREM SlabInvariant == SlabSpec => []SlabInv
<1>1. SlabInit => SlabInv BY SlabStart
<1>2. SlabInv /\ [SlabNext]_slabVars => SlabInv' BY SlabStep
<1> QED BY <1>1, <1>2, PTL DEF SlabSpec

-----------------------------------------------------------------------------
(* What slablock.rs promises *)

\* The invariant has the types of the specification.
LEMMA TypesFollow == ASSUME SlabInv PROVE SlabTypeOK
<1>1. SlabTypes BY DEF SlabInv
<1>2. \A i \in 1 .. Len(inodes) :
          inodes[i].data \in Seq(1 .. MaxRecs) /\ inodes[i].synced \in 0 .. Len(inodes[i].data)
  <2> SUFFICES ASSUME NEW i \in 1 .. Len(inodes)
               PROVE  inodes[i].data \in Seq(1 .. MaxRecs)
                      /\ inodes[i].synced \in 0 .. Len(inodes[i].data)
      OBVIOUS
  <2>1. inodes \in Seq(File) BY <1>1 DEF SlabTypes
  <2>2. inodes[i] \in File BY <2>1
  <2>3. inodes[i].data \in Seq(1 .. MaxRecs) /\ inodes[i].synced \in Nat
        /\ inodes[i].synced <= Len(inodes[i].data)
      BY <2>2 DEF File
  <2> QED BY <2>3
<1>3. nextSeq \in 0 .. (MaxRecs + 1)
  <2>1. nextSeq \in Nat /\ nextSeq <= MaxRecs /\ MaxRecs \in Nat
      BY OldestFacts DEF SlabInv, SlabTypes
  <2> QED BY <2>1
<1>4. ticked \subseteq 1 .. MaxRecs /\ published \subseteq 1 .. MaxRecs
  <2>1. Len(pos) \in Nat /\ MaxRecs \in Nat /\ Len(pos) <= MaxRecs /\ published \subseteq 1 .. Len(pos)
      BY <1>1, SlabAssumption DEF SlabTypes
  <2>2. ticked \subseteq 1 .. Len(pos) BY MineFacts DEF SlabInv, TickedKept
  <2> QED BY <2>1, <2>2
<1>5. {dir, ddir} \subseteq [Names -> 0 .. Len(inodes)] BY <1>1 DEF SlabTypes
<1> QED BY <1>1, <1>2, <1>3, <1>4, <1>5 DEF SlabTypes, SlabTypeOK, Full

\* A published record is where slab_append said.
LEMMA SealedStays == ASSUME SlabInv PROVE SealedAtPosition
<1> SUFFICES ASSUME NEW r \in published
             PROVE  LET s == pos[r].seq
                    IN  DurableAt(dir[Sealed(s)], r) /\ DurableAt(ddir[Sealed(s)], r)
    BY DEF SealedAtPosition
<1>1. PICK s \in Seqs : s = pos[r].seq BY PublishedFacts DEF SlabInv
<1>2. ddir[Sealed(s)] # 0 /\ InPlace(inodes[ddir[Sealed(s)]], pos[r], r)
    BY <1>1 DEF SlabInv, PublishedKept
<1>3. dir[Sealed(s)] = ddir[Sealed(s)]
      /\ inodes[ddir[Sealed(s)]].synced = Len(inodes[ddir[Sealed(s)]].data)
    BY <1>2 DEF SlabInv, SealedFiles
<1>4. DurableAt(ddir[Sealed(s)], r) BY <1>2, <1>3 DEF DurableAt, InPlace
<1> QED BY <1>1, <1>3, <1>4

\* A record a sweep has covered survives a loss of power.
LEMMA TickedStays == ASSUME SlabInv PROVE TickedIsDurable
<1> SUFFICES ASSUME NEW r \in ticked
             PROVE  \/ DurableAt(ddir[Part(pos[r].seq)], r)
                    \/ DurableAt(ddir[Sealed(pos[r].seq)], r)
    BY DEF TickedIsDurable
<1>1. CASE r \in published BY <1>1, SealedStays DEF SealedAtPosition
<1>2. CASE r \notin published
  <2>1. r \in Mine BY DEF SlabInv, TickedKept
  <2>2. slabPc # "closed"
    <3>1. r \in 1 .. Len(pos) /\ r \in Nat /\ Len(pos) \in Nat /\ r > born
        BY <2>1, MineFacts DEF SlabInv
    <3> QED BY <3>1 DEF SlabInv, BlocksInOrder
  <2>3. PICK s \in Seqs : s = pos[r].seq BY <2>1, MineFacts DEF SlabInv
  <2>4. Open(s) /\ InPlace(inodes[blockOf[s].inode], pos[r], r)
      BY <1>2, <2>1, <2>3 DEF SlabInv, RecordsInPlace
  <2>5. blockOf[s].dirSynced
        /\ pos[r].off + pos[r].size + blockOf[s].unflushed <= blockOf[s].len
      BY <1>2, <2>3 DEF SlabInv, TickedKept
  <2>6. /\ blockOf[s].inode # 0 /\ ddir[Part(s)] = blockOf[s].inode
        /\ inodes[blockOf[s].inode].synced + blockOf[s].unflushed = blockOf[s].len
      BY <2>2, <2>4, <2>5 DEF SlabInv, OpenFiles
  <2>7. pos[r].off + pos[r].size <= inodes[blockOf[s].inode].synced
    <3>1. blockOf[s].inode \in 1 .. Len(inodes) BY <2>2, <2>4, HeldApart DEF SlabInv
    <3>2. inodes \in Seq(File) BY DEF SlabInv, SlabTypes
    <3>3. inodes[blockOf[s].inode] \in File BY <3>1, <3>2
    <3>4. inodes[blockOf[s].inode].synced \in Nat BY <3>3 DEF File
    <3>5. blockOf[s].len \in Nat /\ blockOf[s].unflushed \in Nat
        BY BlockFacts, SlabAssumption DEF SlabInv, Full
    <3>6. PICK y \in Nat, u \in Nat, z \in Nat, o \in Nat, w \in Nat :
              /\ y = inodes[blockOf[s].inode].synced /\ u = blockOf[s].unflushed
              /\ z = blockOf[s].len /\ o = pos[r].off /\ w = pos[r].size
        BY <2>1, <3>4, <3>5, MineFacts DEF SlabInv
    <3>7. o + w + u <= z /\ y + u = z BY <2>5, <2>6, <3>6
    <3>8. o + w <= y BY <3>7
    <3> QED BY <3>6, <3>8
  <2>8. DurableAt(ddir[Part(s)], r) BY <2>4, <2>6, <2>7 DEF DurableAt, InPlace
  <2> QED BY <2>3, <2>8
<1> QED BY <1>1, <1>2

\* Sealed blocks follow one another from the first.
LEMMA SealedFollow == ASSUME SlabInv PROVE SealedIsPrefix
<1> SUFFICES ASSUME NEW d \in {dir, ddir}, NEW s \in SealedSeqs(d), NEW q \in 0 .. s
             PROVE  q \in SealedSeqs(d)
    BY DEF SealedIsPrefix
<1>1. s \in Seqs /\ s \in Nat /\ d[Sealed(s)] # 0 BY DEF SealedSeqs, Seqs
<1>2. q \in Seqs /\ q \in Nat /\ q <= s BY <1>1, SlabAssumption DEF Seqs
<1>3. PICK m \in Nat : SealedBelow(d, m)
  <2>1. Oldest \in Nat /\ Oldest + 1 \in Nat /\ Len(pos) \in Nat BY OldestFacts DEF SlabInv
  <2>2. CASE slabPc = "closed" BY <2>1, <2>2 DEF SlabInv, SealedInOrder
  <2>3. CASE slabPc # "closed" BY <2>1, <2>3 DEF SlabInv, SealedInOrder
  <2> QED BY <2>2, <2>3
<1>4. s < m BY <1>1, <1>3 DEF SealedBelow
<1>5. q < m BY <1>1, <1>2, <1>4
<1> QED BY <1>2, <1>3, <1>5 DEF SealedBelow, SealedSeqs

\* No step changes the names or the file of a block whose sealed name is
\* durable.
LEMMA SealedStep ==
    ASSUME SlabInv, [SlabNext]_slabVars, NEW s \in SealedSeqs(ddir)
    PROVE  /\ ddir'[Sealed(s)] = ddir[Sealed(s)] /\ dir'[Sealed(s)] = dir[Sealed(s)]
           /\ inodes'[ddir[Sealed(s)]] = inodes[ddir[Sealed(s)]]
<1> DEFINE i == ddir[Sealed(s)]
           Kept == /\ ddir'[Sealed(s)] = i /\ dir'[Sealed(s)] = dir[Sealed(s)]
                   /\ inodes'[i] = inodes[i]
<1>1. /\ s \in Seqs /\ i # 0 /\ dir[Sealed(s)] = i /\ i \in 1 .. Len(inodes)
      /\ inodes[i].synced = Len(inodes[i].data) /\ Len(inodes) \in Nat /\ inodes \in Seq(File)
  <2>1. s \in Seqs /\ i # 0 BY DEF SealedSeqs
  <2>2. dir[Sealed(s)] = i /\ inodes[i].synced = Len(inodes[i].data)
      BY <2>1 DEF SlabInv, SealedFiles
  <2>3. i \in 0 .. Len(inodes) /\ Len(inodes) \in Nat BY <2>1, InodeFacts DEF SlabInv
  <2> QED BY <2>1, <2>2, <2>3 DEF SlabInv, SlabTypes
<1>2. \A t \in Seqs : slabPc # "closed" /\ Open(t) => blockOf[t].inode # i
    BY <1>1, HeldApart DEF SlabInv
<1>3. Sealed(s) \in Names BY <1>1, NameFacts
<1>4. dir \in [Names -> 0 .. Len(inodes)] BY DEF SlabInv, SlabTypes
<1>5. ASSUME UNCHANGED fvars PROVE Kept BY <1>5 DEF fvars
<1>6. ASSUME NEW size \in 0 .. MaxSize, SlabAppend(size) PROVE Kept
  <2>1. CASE active = NoBlock \/ NeedsRotation(size)
    <3>1. /\ ddir' = ddir /\ dir' = [dir EXCEPT ![Part(nextSeq)] = Len(inodes) + 1]
          /\ inodes' = Written(Append(inodes, [data |-> << >>, synced |-> 0]), Len(inodes) + 1,
                               Len(pos) + 1, size)
          /\ nextSeq \in Seqs
        BY <1>6, <2>1, MintFacts
    <3>2. dir'[Sealed(s)] = dir[Sealed(s)]
      <4>1. Part(nextSeq) # Sealed(s) BY <1>1, <3>1, NameFacts
      <4> QED BY <1>3, <1>4, <3>1, <4>1
    <3>3. inodes'[i] = inodes[i]
      <4> DEFINE files == Append(inodes, [data |-> << >>, synced |-> 0])
      <4>1. DOMAIN files = 1 .. (Len(inodes) + 1) /\ files[i] = inodes[i] BY <1>1
      <4>2. i \in DOMAIN files /\ i # Len(inodes) + 1 BY <1>1, <4>1
      <4> HIDE DEF files, i
      <4> QED BY <3>1, <4>1, <4>2 DEF Written, files
    <3> QED BY <3>1, <3>2, <3>3
  <2>2. CASE active # NoBlock /\ ~NeedsRotation(size)
    <3>1. UNCHANGED <<dir, ddir>> /\ slabPc = "idle"
          /\ inodes' = Written(inodes, blockOf[active].inode, Len(pos) + 1, size)
        BY <1>6, <2>2 DEF SlabAppend, WriteAll, Written
    <3>2. active \in Seqs /\ Open(active) BY <2>2, OldestFacts DEF SlabInv
    <3>3. i # blockOf[active].inode BY <1>2, <3>1, <3>2
    <3>4. i \in DOMAIN inodes BY <1>1
    <3> HIDE DEF i
    <3>5. inodes'[i] = inodes[i] BY <3>1, <3>3, <3>4 DEF Written
    <3> QED BY <3>1, <3>5 DEF i
  <2> QED BY <2>1, <2>2
<1>7. ASSUME SyncAll PROVE Kept
  <2>1. UNCHANGED <<dir, ddir>> /\ slabPc = "sweep" /\ Current # NoBlock
        /\ inodes' = [inodes EXCEPT ![blockOf[Current].inode].synced =
                                        Len(inodes[blockOf[Current].inode].data)]
      BY <1>7 DEF SyncAll
  <2>2. Current \in Seqs /\ Open(Current) BY <2>1, OldestFacts DEF SlabInv, Open
  <2>3. i # blockOf[Current].inode BY <1>2, <2>1, <2>2
  <2>4. i \in DOMAIN inodes BY <1>1
  <2> HIDE DEF i
  <2>5. inodes'[i] = inodes[i] BY <2>1, <2>3, <2>4
  <2> QED BY <2>1, <2>5 DEF i
<1>8. ASSUME SyncDir \/ SealBlock PROVE Kept BY <1>1, <1>8 DEF SyncDir, SealBlock
<1>9. ASSUME Rename PROVE Kept
  <2>1. UNCHANGED <<inodes, ddir>> /\ slabPc = "sweep" /\ Current # NoBlock
        /\ dir' = [dir EXCEPT ![Sealed(Current)] = dir[Part(Current)], ![Part(Current)] = 0]
      BY <1>9 DEF Rename, MustSeal
  <2>2. Current = Oldest /\ Oldest \in Seqs BY <2>1, OldestFacts DEF SlabInv
  <2>3. s # Current
    <3>1. s < Oldest BY <1>1, <2>1 DEF SlabInv, SealedInOrder, SealedBelow
    <3> QED BY <1>1, <2>2, <3>1, OldestFacts DEF SlabInv
  <2>4. Sealed(s) # Sealed(Current) /\ Sealed(s) # Part(Current) BY <1>1, <2>2, <2>3, NameFacts
  <2>5. dir'[Sealed(s)] = dir[Sealed(s)] BY <1>3, <1>4, <2>1, <2>4
  <2> QED BY <2>1, <2>5
<1>10. ASSUME SlabCrash PROVE Kept
  <2>1. inodes'[i] = inodes[i] /\ ddir' = dir'
        /\ (dir'[Sealed(s)] = dir[Sealed(s)] \/ dir'[Sealed(s)] = ddir[Sealed(s)])
      BY <1>1, <1>3, <1>10, CrashFacts
  <2> QED BY <1>1, <2>1
<1>11. ASSUME SlabTick \/ SlabSeal \/ SlabOpen \/ SweepDone PROVE Kept
    BY <1>5, <1>11 DEF SlabTick, SlabSeal, SlabOpen, SweepDone
<1>12. CASE UNCHANGED slabVars BY <1>5, <1>12 DEF slabVars
<1>13. CASE SlabNext
  <2>1. CASE \E size \in 0 .. MaxSize : SlabAppend(size) \/ SlabAppendRaw(size)
      BY <1>6, <2>1 DEF SlabAppendRaw
  <2>2. CASE ~\E size \in 0 .. MaxSize : SlabAppend(size) \/ SlabAppendRaw(size)
      BY <1>7, <1>8, <1>9, <1>10, <1>11, <1>13, <2>2 DEF SlabNext
  <2> QED BY <2>1, <2>2
<1> QED BY <1>12, <1>13

\* The promises of slablock.rs, for any block and record size, any number of
\* records, and deaths of the writer at any step.
THEOREM SlabPromises == SlabSpec => SlabKeepsPromises
<1>1. SlabInv => SlabTypeOK /\ SealedAtPosition /\ TickedIsDurable /\ SealedIsPrefix
    BY TypesFollow, SealedStays, TickedStays, SealedFollow
<1>2. SlabInv /\ [SlabNext]_slabVars =>
        [\A s \in SealedSeqs(ddir) :
            /\ ddir'[Sealed(s)] = ddir[Sealed(s)] /\ dir'[Sealed(s)] = dir[Sealed(s)]
            /\ inodes'[ddir[Sealed(s)]] = inodes[ddir[Sealed(s)]]]_slabVars
    BY SealedStep
<1> QED BY <1>1, <1>2, SlabInvariant, PTL DEF SlabSpec, SlabKeepsPromises, SealedNeverRewritten
=============================================================================
