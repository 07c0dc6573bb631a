--------------------------- MODULE ServicesProofs ---------------------------
(***************************************************************************)
(* Proofs about AckPath for any number of request threads, rows and timed  *)
(* waits: acknowledgements are honest and leave no token behind; about     *)
(* Tasks for any number of joiners, tasks and listed handles: joins are    *)
(* exact; and about the pool of workers of Peers, for any number of        *)
(* workers, clients, requests and rows: it keeps serving.                  *)
(***************************************************************************)
EXTENDS AckPath, Peers, FunctionTheorems, SequenceTheorems, FiniteSetTheorems, TLAPS

\* The tokens handed out so far.
Minted == 1 .. Len(row)

\* A block that its request thread has sealed.
Past(b) == b[2] < seq[b[1]]

\* Whether i is an element of the sequence s.
In(i, s) == \E k \in 1 .. Len(s) : s[k] = i

\* The inductive invariant of the acknowledgement path, in named parts.

\* A row stands in a block already begun, and a block is begun only once its
\* predecessor has a row, so there are never more blocks than rows and one.
RowsPlaced ==
    /\ Len(row) = nextId - 1
    /\ \A i \in Minted : row[i][2] <= seq[row[i][1]]
    /\ \A r \in Requests : /\ seq[r] <= Len(row) + 1
                           /\ In(Active(r), row) => seq[r] <= Len(row)

\* Only sealed blocks reach the worker and the disk.
SealedOnly == /\ \A k \in 1 .. Len(flushq) : Past(flushq[k])
              /\ \A b \in durable : Past(b)

\* Tokens are minted ones, and a thread that waits has its own.
TokensKnown ==
    /\ registry \subseteq Minted /\ done \subseteq Minted
    /\ \A r \in Requests : /\ id[r] \notin Minted => id[r] = 0 /\ pc[r] = "run" /\ waits[r] = 0
                           /\ pc[r] = "minted" => row[id[r]] = Active(r)
                           /\ pc[r] = "retire" => id[r] \in done
    /\ \A b \in BlockIds : \A k \in 1 .. Len(acks[b]) : acks[b][k] \in Minted /\ row[acks[b][k]] = b
    /\ \A k \in 1 .. Len(todo) : todo[k] \in Minted

\* Whatever says that a token is signaled, its cell, its absence from the
\* registry or its place in the worker's hand, speaks of a durable block.
SignaledIsDurable ==
    /\ \A i \in done : row[i] \in durable
    /\ \A i \in Minted \ registry : row[i] \in durable
    /\ \A k \in 1 .. Len(todo) : row[todo[k]] \in durable

\* What the worker's position says of its queue and its hand.
WorkerPhases ==
    /\ wpc \in {"idle", "durable"} => todo = << >>
    /\ wpc = "durable" => flushq # << >> /\ Head(flushq) \in durable
    /\ wpc = "mark" => todo # << >> /\ Head(todo) \notin registry

\* A token still registered can be found: by its thread, in the list of its
\* block, or in the worker's hand; and once its block is durable the worker is
\* on its way to it.
TokensFindable ==
    \A i \in registry :
        /\ \/ \E r \in Requests : pc[r] = "minted" /\ id[r] = i
           \/ In(i, acks[row[i]])
           \/ In(i, todo)
        /\ row[i] \in durable => \/ wpc = "durable" /\ row[i] = Head(flushq)
                                 \/ wpc \in {"signal", "mark"} /\ In(i, todo)

\* The inductive invariant: the property the run checks and the parts it rests on.
AckInv == /\ AcksAreHonest /\ RowsPlaced /\ SealedOnly /\ TokensKnown
          /\ SignaledIsDurable /\ WorkerPhases /\ TokensFindable

-----------------------------------------------------------------------------
(* Sequences *)

\* What Append does to the places and to the members of a sequence: a token put
\* at the end of its block's list, a block put at the end of the flush queue.
LEMMA AppendIn ==
    ASSUME NEW S, NEW s \in Seq(S), NEW e \in S
    PROVE  /\ Append(s, e) \in Seq(S) /\ Len(Append(s, e)) = Len(s) + 1 /\ Len(s) \in Nat
           /\ \A k \in 1 .. Len(s) : Append(s, e)[k] = s[k]
           /\ Append(s, e)[Len(s) + 1] = e
           /\ Append(s, e) # << >>
           /\ s # << >> => Head(Append(s, e)) = Head(s)
           /\ \A x : In(x, Append(s, e)) <=> In(x, s) \/ x = e
  <1>1. /\ Append(s, e) \in Seq(S) /\ Len(Append(s, e)) = Len(s) + 1 /\ Len(s) \in Nat
        /\ \A k \in 1 .. Len(s) : Append(s, e)[k] = s[k]
        /\ Append(s, e)[Len(s) + 1] = e
    BY AppendProperties, LenProperties
  <1>2. \A k \in 1 .. (Len(s) + 1) : k \in 1 .. Len(s) \/ k = Len(s) + 1
    BY <1>1
  <1>3. \A k \in 1 .. Len(s) : k \in 1 .. (Len(s) + 1)
    BY <1>1
  <1>4. Len(s) + 1 \in 1 .. (Len(s) + 1)
    BY <1>1
  <1>5. ASSUME NEW x PROVE In(x, Append(s, e)) <=> In(x, s) \/ x = e
    BY <1>1, <1>2, <1>3, <1>4 DEF In
  <1>6. s # << >> => 1 \in 1 .. Len(s)
    BY <1>1, EmptySeq
  <1>7. s # << >> => Append(s, e)[1] = s[1]
    BY <1>1, <1>6
  <1>8. Append(s, e) # << >>
    BY <1>1, EmptySeq
  <1>9. s # << >> => Head(Append(s, e)) = Head(s)
    BY <1>7
  <1>. QED BY <1>1, <1>5, <1>8, <1>9

\* What Head and Tail take from the places and the members of a sequence: the
\* worker goes through its queue and its tokens one by one.
LEMMA TailIn ==
    ASSUME NEW S, NEW s \in Seq(S), s # << >>
    PROVE  /\ Tail(s) \in Seq(S) /\ Len(Tail(s)) = Len(s) - 1 /\ Len(s) \in Nat /\ Len(s) >= 1
           /\ Head(s) = s[1] /\ Head(s) \in S
           /\ \A k \in 1 .. Len(Tail(s)) : Tail(s)[k] = s[k + 1] /\ k + 1 \in 1 .. Len(s)
           /\ \A x : In(x, s) <=> x = Head(s) \/ In(x, Tail(s))
  <1>1. /\ Tail(s) \in Seq(S) /\ Len(Tail(s)) = Len(s) - 1 /\ Len(s) \in Nat \ {0}
        /\ Head(s) = s[1] /\ Head(s) \in S
        /\ \A k \in 1 .. Len(Tail(s)) : Tail(s)[k] = s[k + 1]
    BY HeadTailProperties, LenProperties, EmptySeq
  <1>2. \A k \in 1 .. Len(Tail(s)) : k + 1 \in 1 .. Len(s)
    BY <1>1
  <1>3. \A k \in 1 .. Len(s) : k = 1 \/ k - 1 \in 1 .. Len(Tail(s))
    BY <1>1
  <1>4. \A k \in 1 .. Len(s) : k # 1 => Tail(s)[k - 1] = s[k]
    BY <1>1, <1>3
  <1>5. 1 \in 1 .. Len(s)
    BY <1>1
  <1>6. ASSUME NEW x PROVE In(x, s) <=> x = Head(s) \/ In(x, Tail(s))
    <2>1. In(x, s) => x = Head(s) \/ In(x, Tail(s))
      BY <1>1, <1>3, <1>4 DEF In
    <2>2. x = Head(s) => In(x, s)
      BY <1>1, <1>5 DEF In
    <2>3. In(x, Tail(s)) => In(x, s)
      BY <1>1, <1>2 DEF In
    <2>. QED BY <2>1, <2>2, <2>3
  <1>. QED BY <1>1, <1>2, <1>6

-----------------------------------------------------------------------------
(* Types *)

\* Where a request thread can be between two critical sections.
Positions == {"run", "minted", "registered", "lookup", "check", "asleep", "awake", "retire"}

\* The block a request writes to is one.
LEMMA ActiveIsBlock ==
    ASSUME AckInv, NEW r \in Requests
    PROVE  Active(r) \in BlockIds /\ Active(r)[1] = r /\ Active(r)[2] = seq[r]
  <1>1. seq[r] \in 1 .. (MaxRows + 1)
    BY DEF AckInv, AcksAreHonest, TypeOK
  <1>. QED BY <1>1 DEF Active, BlockIds

\* A step of a request thread that touches its own waiting state only.
LEMMA WaitTypes ==
    ASSUME TypeOK, UNCHANGED <<nextId, registry, done, acks, seq, id, row, wvars>>,
           pc' \in [Requests -> Positions], timed' \in [Requests -> BOOLEAN],
           waits' \in [Requests -> 0 .. MaxWaits], elapsed' \in [Requests -> BOOLEAN],
           result' \in [Requests -> {"none", "true", "false"}]
    PROVE  TypeOK'
  BY DEF TypeOK, Positions, wvars

\* Every step keeps the types: tokens and blocks stay within the rows minted.
LEMMA TypeStep ==
    ASSUME AckInv, [Next]_vars
    PROVE  TypeOK'
  <1>0. TypeOK /\ MaxRows \in Nat /\ MaxWaits \in Nat
    BY AckAssumption DEF AckInv, AcksAreHonest
  <1>a. /\ "run" \in Positions /\ "minted" \in Positions /\ "registered" \in Positions
        /\ "lookup" \in Positions /\ "check" \in Positions /\ "asleep" \in Positions
        /\ "awake" \in Positions /\ "retire" \in Positions
    BY DEF Positions
  <1>b. pc \in [Requests -> Positions]
    BY <1>0 DEF TypeOK, Positions
  <1>1. ASSUME NEW r \in Requests, NewOneshot(r) PROVE TypeOK'
    <2>1. row' \in Seq(BlockIds)
      BY <1>0, <1>1, ActiveIsBlock, AppendIn DEF TypeOK, NewOneshot
    <2>2. nextId \in Ids /\ nextId' \in 1 .. (MaxRows + 1)
      BY <1>0, <1>1 DEF TypeOK, NewOneshot, Ids
    <2>3. registry' \subseteq Ids
      BY <1>0, <1>1, <2>2 DEF TypeOK, NewOneshot
    <2>4. id' \in [Requests -> 0 .. MaxRows]
      <3>1. nextId \in 0 .. MaxRows
        BY <1>0, <2>2 DEF Ids
      <3>. QED BY <1>0, <1>1, <3>1 DEF TypeOK, NewOneshot
    <2>5. waits' \in [Requests -> 0 .. MaxWaits]
      BY <1>0, <1>1 DEF TypeOK, NewOneshot
    <2>6. pc' \in [Requests -> Positions]
      BY <1>a, <1>b, <1>1 DEF NewOneshot, GoTo
    <2>. QED BY <1>0, <1>1, <2>1, <2>2, <2>3, <2>4, <2>5, <2>6
             DEF TypeOK, NewOneshot, wvars, Positions
  <1>2. ASSUME NEW r \in Requests, Register(r) PROVE TypeOK'
    <2>1. id[r] \in Ids
      BY <1>0, <1>2 DEF AckInv, TokensKnown, RowsPlaced, TypeOK, Register, Ids, Minted
    <2>2. acks' \in [BlockIds -> Seq(Ids)]
      <3>1. Append(acks[Active(r)], id[r]) \in Seq(Ids)
        BY <1>0, <2>1, ActiveIsBlock, AppendIn DEF TypeOK
      <3>. QED BY <1>0, <1>2, <3>1 DEF TypeOK, Register
    <2>3. pc' \in [Requests -> Positions]
      BY <1>a, <1>b, <1>2 DEF Register, GoTo
    <2>. QED BY <1>0, <1>2, <2>2, <2>3 DEF TypeOK, Register, wvars, Positions
  <1>3. ASSUME NEW r \in Requests, SealBlock(r) PROVE TypeOK'
    <2>1. In(Active(r), row)
      <3>1. CASE pc[r] = "run" /\ \E i \in 1 .. Len(row) : row[i] = Active(r)
        BY <3>1 DEF In
      <3>2. CASE pc[r] = "registered" /\ row[id[r]] = Active(r)
        BY <3>2 DEF In, AckInv, TokensKnown, Minted
      <3>. QED BY <1>3, <3>1, <3>2 DEF SealBlock
    <2>2. seq[r] + 1 \in 1 .. (MaxRows + 1)
      BY <1>0, <2>1 DEF AckInv, RowsPlaced, TypeOK
    <2>3. seq' \in [Requests -> 1 .. (MaxRows + 1)]
      BY <1>0, <1>3, <2>2 DEF TypeOK, SealBlock
    <2>4. flushq' \in Seq(BlockIds)
      BY <1>0, <1>3, ActiveIsBlock, AppendIn DEF TypeOK, SealBlock
    <2>. QED BY <1>0, <1>3, <2>3, <2>4 DEF TypeOK, SealBlock
  <1>4. ASSUME NEW r \in Requests, SkipWait(r) PROVE TypeOK'
    <2>1. pc' \in [Requests -> Positions]
      BY <1>a, <1>b, <1>4 DEF SkipWait, GoTo
    <2>. QED BY <1>0, <1>4, <2>1 DEF TypeOK, SkipWait, wvars, Positions
  <1>5. ASSUME NEW r \in Requests, WaitCall(r) PROVE TypeOK'
    <2>1. pc' \in [Requests -> Positions]
      BY <1>a, <1>b, <1>5 DEF WaitCall, GoTo
    <2>2. timed' \in [Requests -> BOOLEAN]
      BY <1>0, <1>5 DEF TypeOK, WaitCall
    <2>3. elapsed' \in [Requests -> BOOLEAN]
      BY <1>0, <1>5 DEF TypeOK, WaitCall
    <2>4. waits' \in [Requests -> 0 .. MaxWaits]
      <3>1. CASE UNCHANGED waits
        BY <1>0, <3>1 DEF TypeOK
      <3>2. CASE waits[r] < MaxWaits /\ waits' = [waits EXCEPT ![r] = @ + 1]
        <4>1. waits[r] + 1 \in 0 .. MaxWaits
          BY <1>0, <3>2 DEF TypeOK
        <4>. QED BY <1>0, <3>2, <4>1 DEF TypeOK
      <3>. QED BY <1>5, <3>1, <3>2 DEF WaitCall
    <2>. QED BY <1>0, <1>5, <2>1, <2>2, <2>3, <2>4, WaitTypes DEF TypeOK, WaitCall
  <1>6. ASSUME NEW r \in Requests, Lookup(r) \/ Check(r) \/ Awake(r) PROVE TypeOK'
    <2>1. pc' \in [Requests -> Positions]
      BY <1>a, <1>b, <1>6 DEF Lookup, Check, Awake, GoTo, Return
    <2>2. result' \in [Requests -> {"none", "true", "false"}]
      BY <1>0, <1>6 DEF TypeOK, Lookup, Check, Awake, Return
    <2>3. UNCHANGED <<nextId, registry, done, acks, seq, id, timed, waits, elapsed, row, wvars>>
      BY <1>6 DEF Lookup, Check, Awake
    <2>. QED BY <1>0, <2>1, <2>2, <2>3, WaitTypes DEF TypeOK
  <1>7. ASSUME NEW r \in Requests, Retire(r) PROVE TypeOK'
    <2>1. pc' \in [Requests -> Positions]
      BY <1>a, <1>b, <1>7 DEF Retire, Return, GoTo
    <2>2. result' \in [Requests -> {"none", "true", "false"}]
      BY <1>0, <1>7 DEF TypeOK, Retire, Return
    <2>. QED BY <1>0, <1>7, <2>1, <2>2 DEF TypeOK, Retire, wvars, Positions
  <1>8. ASSUME NEW r \in Requests, Timeout(r) \/ SpuriousWake(r) PROVE TypeOK'
    <2>1. pc' \in [Requests -> Positions]
      BY <1>a, <1>b, <1>8 DEF Timeout, SpuriousWake, GoTo
    <2>2. elapsed' \in [Requests -> BOOLEAN]
      BY <1>0, <1>8 DEF TypeOK, Timeout, SpuriousWake
    <2>3. UNCHANGED <<nextId, registry, done, acks, seq, id, timed, waits, result, row, wvars>>
      BY <1>8 DEF Timeout, SpuriousWake
    <2>. QED BY <1>0, <2>1, <2>2, <2>3, WaitTypes DEF TypeOK
  <1>9. CASE FsyncBlock
    <2>1. Head(flushq) \in BlockIds
      BY <1>0, <1>9, TailIn DEF TypeOK, FsyncBlock
    <2>2. durable' \subseteq BlockIds
      BY <1>0, <1>9, <2>1 DEF TypeOK, FsyncBlock
    <2>. QED BY <1>0, <1>9, <2>2 DEF TypeOK, FsyncBlock, rvars
  <1>10. CASE SignalBlock
    <2>1. flushq # << >>
      BY <1>10 DEF AckInv, WorkerPhases, SignalBlock
    <2>2. Head(flushq) \in BlockIds /\ flushq' \in Seq(BlockIds)
      BY <1>0, <1>10, <2>1, TailIn DEF TypeOK, SignalBlock
    <2>3. todo' \in Seq(Ids)
      BY <1>0, <1>10, <2>2 DEF TypeOK, SignalBlock
    <2>4. acks' \in [BlockIds -> Seq(Ids)]
      BY <1>0, <1>10, EmptySeq DEF TypeOK, SignalBlock
    <2>. QED BY <1>0, <1>10, <2>2, <2>3, <2>4 DEF TypeOK, SignalBlock, rvars
  <1>11. CASE SignalRemove
    <2>0. Tail(todo) \in Seq(Ids) /\ todo \in Seq(Ids)
      BY <1>0, <1>11, TailIn DEF TypeOK, SignalRemove
    <2>1. todo' \in Seq(Ids) /\ wpc' \in {"signal", "mark"}
      BY <1>11, <2>0 DEF SignalRemove
    <2>2. registry' \subseteq Ids
      BY <1>0, <1>11 DEF TypeOK, SignalRemove
    <2>. QED BY <1>0, <1>11, <2>1, <2>2 DEF TypeOK, SignalRemove, rvars
  <1>12. CASE SignalMark
    <2>1. todo # << >>
      BY <1>12 DEF AckInv, WorkerPhases, SignalMark
    <2>2. todo' \in Seq(Ids) /\ Head(todo) \in Ids
      BY <1>0, <1>12, <2>1, TailIn DEF TypeOK, SignalMark
    <2>3. done' \subseteq Ids
      BY <1>0, <1>12, <2>2 DEF TypeOK, SignalMark
    <2>4. pc' \in [Requests -> Positions]
      BY <1>a, <1>b, <1>12 DEF SignalMark
    <2>. QED BY <1>0, <1>12, <2>2, <2>3, <2>4 DEF TypeOK, SignalMark, Positions
  <1>13. CASE SignalDone
    BY <1>0, <1>13 DEF TypeOK, SignalDone, rvars
  <1>14. CASE UNCHANGED vars
    BY <1>0, <1>14 DEF TypeOK, vars, rvars, wvars
  <1>. QED BY <1>1, <1>2, <1>3, <1>4, <1>5, <1>6, <1>7, <1>8, <1>9, <1>10, <1>11, <1>12,
              <1>13, <1>14 DEF Next, Wait, Worker

-----------------------------------------------------------------------------
(* Rows and blocks *)

\* Steps of a request thread inside its waits, which touch nothing shared.
WaitStep(r) == \/ SkipWait(r) \/ WaitCall(r) \/ Lookup(r) \/ Check(r) \/ Awake(r)
               \/ Timeout(r) \/ SpuriousWake(r)

\* The waits of oneshot.rs only read the registry and the cells: they change
\* nothing but the caller's own position and answer.
LEMMA WaitFrame ==
    ASSUME NEW r \in Requests, WaitStep(r)
    PROVE  UNCHANGED <<nextId, registry, done, acks, seq, id, row, flushq, durable, wpc, todo>>
  BY DEF WaitStep, SkipWait, WaitCall, Lookup, Check, Awake, Timeout, SpuriousWake, wvars

\* The steps of the worker and of retirement leave rows and blocks alone.
LEMMA RowFrame ==
    ASSUME Worker \/ UNCHANGED vars \/ \E r \in Requests : WaitStep(r) \/ Retire(r) \/ Register(r)
    PROVE  UNCHANGED <<nextId, seq, id, row>>
  BY WaitFrame DEF Worker, FsyncBlock, SignalBlock, SignalRemove, SignalMark, SignalDone,
                   Retire, Register, vars, rvars

\* The steps, in the groups the proofs use.
LEMMA NextSplit ==
    ASSUME [Next]_vars
    PROVE  \/ \E r \in Requests : \/ NewOneshot(r) \/ Register(r) \/ SealBlock(r) \/ Retire(r)
                                  \/ WaitStep(r)
           \/ Worker
           \/ UNCHANGED vars
  BY DEF Next, Wait, WaitStep

\* SealBlock seals a block that has a row.
LEMMA SealedHasRow ==
    ASSUME AckInv, NEW r \in Requests, SealBlock(r)
    PROVE  In(Active(r), row)
  <1>1. CASE pc[r] = "run" /\ \E i \in 1 .. Len(row) : row[i] = Active(r)
    BY <1>1 DEF In
  <1>2. CASE pc[r] = "registered" /\ row[id[r]] = Active(r)
    BY <1>2 DEF In, AckInv, TokensKnown, Minted
  <1>. QED BY <1>1, <1>2 DEF SealBlock

\* What NewOneshot does to the rows.
LEMMA NewOneshotFacts ==
    ASSUME AckInv, NEW r \in Requests, NewOneshot(r)
    PROVE  /\ Len(row') = Len(row) + 1 /\ Len(row) \in Nat /\ nextId = Len(row) + 1
           /\ row'[nextId] = Active(r)
           /\ \A i \in Minted : row'[i] = row[i] /\ i # nextId
           /\ Minted' = Minted \union {nextId}
           /\ \A b : In(b, row') <=> In(b, row) \/ b = Active(r)
  <1>1. row \in Seq(BlockIds) /\ row' = Append(row, Active(r)) /\ Len(row) = nextId - 1
        /\ nextId \in Nat
    BY AckAssumption DEF AckInv, AcksAreHonest, TypeOK, RowsPlaced, NewOneshot
  <1>2. /\ Len(row') = Len(row) + 1 /\ Len(row) \in Nat
        /\ \A k \in 1 .. Len(row) : row'[k] = row[k]
        /\ row'[Len(row) + 1] = Active(r)
        /\ \A b : In(b, row') <=> In(b, row) \/ b = Active(r)
    BY <1>1, ActiveIsBlock, AppendIn
  <1>3. nextId = Len(row) + 1
    BY <1>1, <1>2
  <1>4. Minted' = Minted \union {nextId}
    BY <1>2, <1>3 DEF Minted
  <1>5. \A i \in Minted : i # nextId
    BY <1>2, <1>3 DEF Minted
  <1>. QED BY <1>2, <1>3, <1>4, <1>5 DEF Minted

\* Blocks are pairs of a request and a number.
LEMMA BlockParts ==
    ASSUME AckInv
    PROVE  /\ \A b \in BlockIds : b[1] \in Requests /\ b[2] \in Nat /\ b = <<b[1], b[2]>>
           /\ \A i \in Minted : row[i] \in BlockIds
           /\ \A k \in 1 .. Len(flushq) : flushq[k] \in BlockIds
           /\ durable \subseteq BlockIds
           /\ \A r \in Requests : seq[r] \in Nat
  <1>1. TypeOK
    BY DEF AckInv, AcksAreHonest
  <1>2. \A b \in BlockIds : b[1] \in Requests /\ b[2] \in Nat /\ b = <<b[1], b[2]>>
    BY AckAssumption DEF BlockIds
  <1>3. \A i \in Minted : row[i] \in BlockIds
    BY <1>1, ElementOfSeq DEF TypeOK, Minted
  <1>4. \A k \in 1 .. Len(flushq) : flushq[k] \in BlockIds
    BY <1>1, ElementOfSeq DEF TypeOK
  <1>5. \A r \in Requests : seq[r] \in Nat
    BY <1>1, AckAssumption DEF TypeOK
  <1>. QED BY <1>1, <1>2, <1>3, <1>4, <1>5 DEF TypeOK

\* Rows keep their blocks, and a block is sealed only with a row in it.
LEMMA RowsStep ==
    ASSUME AckInv, [Next]_vars
    PROVE  RowsPlaced'
  <1>0. TypeOK /\ RowsPlaced
    BY DEF AckInv, AcksAreHonest
  <1>1. CASE UNCHANGED <<nextId, seq, id, row>>
    BY <1>0, <1>1 DEF RowsPlaced, Minted, In, Active
  <1>2. ASSUME NEW r \in Requests, NewOneshot(r) PROVE RowsPlaced'
    <2>1. /\ Len(row') = Len(row) + 1 /\ Len(row) \in Nat /\ nextId = Len(row) + 1
          /\ row'[nextId] = Active(r)
          /\ \A i \in Minted : row'[i] = row[i]
          /\ Minted' = Minted \union {nextId}
          /\ \A b : In(b, row') <=> In(b, row) \/ b = Active(r)
      BY <1>2, NewOneshotFacts
    <2>2. seq' = seq /\ nextId' = nextId + 1
      BY <1>2 DEF NewOneshot
    <2>3. Len(row') = nextId' - 1
      BY <2>1, <2>2
    <2>4. \A i \in Minted' : row'[i][2] <= seq'[row'[i][1]]
      <3>1. row'[nextId][2] <= seq'[row'[nextId][1]]
        BY <2>1, <2>2, ActiveIsBlock, BlockParts
      <3>. QED BY <1>0, <2>1, <2>2, <3>1 DEF RowsPlaced
    <2>5. ASSUME NEW q \in Requests
          PROVE  seq'[q] <= Len(row') + 1 /\ (In(Active(q), row') => seq'[q] <= Len(row'))
      <3>1. seq[q] \in Nat /\ seq[q] <= Len(row) + 1
        BY <1>0, BlockParts DEF RowsPlaced
      <3>. QED BY <2>1, <2>2, <3>1
    <2>6. \A q \in Requests : Active(q)' = Active(q)
      BY <2>2 DEF Active
    <2>. QED BY <2>3, <2>4, <2>5, <2>6 DEF RowsPlaced
  <1>3. ASSUME NEW r \in Requests, SealBlock(r) PROVE RowsPlaced'
    <2>1. row' = row /\ nextId' = nextId /\ seq' = [seq EXCEPT ![r] = @ + 1]
      BY <1>3 DEF SealBlock
    <2>2. \A q \in Requests : seq'[q] = IF q = r THEN seq[r] + 1 ELSE seq[q]
      BY <1>0, <2>1 DEF TypeOK
    <2>3. seq[r] <= Len(row) /\ Len(row) \in Nat
      BY <1>0, <1>3, SealedHasRow, LenProperties DEF RowsPlaced, TypeOK
    <2>4. \A i \in Minted' : row'[i][2] <= seq'[row'[i][1]]
      BY <1>0, <2>1, <2>2, BlockParts DEF RowsPlaced, Minted
    <2>5. ~In(Active(r)', row)
      <3>1. Active(r)' = <<r, seq[r] + 1>>
        BY <2>2 DEF Active
      <3>2. ASSUME NEW i \in Minted, row[i] = <<r, seq[r] + 1>> PROVE FALSE
        <4>1. row[i][1] = r /\ row[i][2] = seq[r] + 1
          BY <3>2
        <4>2. row[i][2] <= seq[r]
          BY <1>0, <4>1 DEF RowsPlaced
        <4>. QED BY <4>1, <4>2, BlockParts
      <3>. QED BY <3>1, <3>2 DEF In, Minted
    <2>6. ASSUME NEW q \in Requests
          PROVE  seq'[q] <= Len(row') + 1 /\ (In(Active(q), row)' => seq'[q] <= Len(row'))
      <3>1. CASE q = r
        BY <2>1, <2>2, <2>3, <2>5, <3>1, BlockParts DEF In
      <3>2. CASE q # r
        <4>1. Active(q)' = Active(q)
          BY <2>2, <3>2 DEF Active
        <4>. QED BY <1>0, <2>1, <2>2, <3>2, <4>1 DEF RowsPlaced, In
      <3>. QED BY <3>1, <3>2
    <2>. QED BY <1>0, <2>1, <2>4, <2>6 DEF RowsPlaced
  <1>. QED BY <1>1, <1>2, <1>3, NextSplit, RowFrame

\* Only a sealed block enters the flush queue, and only from there the disk.
LEMMA SealedStep ==
    ASSUME AckInv, [Next]_vars
    PROVE  SealedOnly'
  <1>0. TypeOK /\ SealedOnly
    BY DEF AckInv, AcksAreHonest
  <1>1. CASE UNCHANGED <<seq, flushq, durable>>
    BY <1>0, <1>1 DEF SealedOnly, Past
  <1>2. ASSUME NEW r \in Requests, SealBlock(r) PROVE SealedOnly'
    <2>1. flushq' = Append(flushq, Active(r)) /\ durable' = durable
          /\ seq' = [seq EXCEPT ![r] = @ + 1]
      BY <1>2 DEF SealBlock
    <2>2. \A q \in Requests : seq'[q] = IF q = r THEN seq[r] + 1 ELSE seq[q]
      BY <1>0, <2>1 DEF TypeOK
    <2>3. ASSUME NEW b \in BlockIds, Past(b) PROVE Past(b)'
      BY <2>2, <2>3, BlockParts DEF Past
    <2>4. Active(r)[2] < seq'[Active(r)[1]]
      <3>1. Active(r)[1] = r /\ Active(r)[2] = seq[r] /\ seq[r] \in Nat
        BY ActiveIsBlock, BlockParts
      <3>. QED BY <2>2, <3>1
    <2>5. /\ Len(flushq') = Len(flushq) + 1 /\ Len(flushq) \in Nat
          /\ \A k \in 1 .. Len(flushq) : flushq'[k] = flushq[k]
          /\ flushq'[Len(flushq) + 1] = Active(r)
      BY <1>0, <2>1, ActiveIsBlock, AppendIn DEF TypeOK
    <2>6. ASSUME NEW k \in 1 .. Len(flushq') PROVE flushq'[k][2] < seq'[flushq'[k][1]]
      <3>1. CASE k \in 1 .. Len(flushq)
        <4>1. flushq[k] \in BlockIds /\ Past(flushq[k])
          BY <1>0, <3>1, BlockParts DEF SealedOnly
        <4>2. flushq[k][2] < seq'[flushq[k][1]]
          BY <2>3, <4>1 DEF Past
        <4>. QED BY <2>5, <3>1, <4>2
      <3>2. CASE k = Len(flushq) + 1
        BY <2>4, <2>5, <3>2
      <3>. QED BY <2>5, <3>1, <3>2
    <2>7. \A b \in durable' : b[2] < seq'[b[1]]
      BY <1>0, <2>1, <2>3, BlockParts DEF SealedOnly, Past
    <2>. QED BY <2>6, <2>7 DEF SealedOnly, Past
  <1>3. CASE FsyncBlock
    <2>1. durable' = durable \union {Head(flushq)} /\ flushq' = flushq /\ seq' = seq
      BY <1>3 DEF FsyncBlock, rvars
    <2>2. Head(flushq) = flushq[1] /\ Len(flushq) \in Nat /\ Len(flushq) >= 1
      BY <1>0, <1>3, TailIn DEF TypeOK, FsyncBlock
    <2>3. Past(Head(flushq))
      BY <1>0, <2>2 DEF SealedOnly
    <2>. QED BY <1>0, <2>1, <2>3 DEF SealedOnly, Past
  <1>4. CASE SignalBlock
    <2>1. durable' = durable /\ flushq' = Tail(flushq) /\ seq' = seq /\ flushq # << >>
      BY <1>4 DEF SignalBlock, rvars, AckInv, WorkerPhases
    <2>2. \A k \in 1 .. Len(Tail(flushq)) : Tail(flushq)[k] = flushq[k + 1] /\ k + 1 \in 1 .. Len(flushq)
      BY <1>0, <2>1, TailIn DEF TypeOK
    <2>. QED BY <1>0, <2>1, <2>2 DEF SealedOnly, Past
  <1>5. SignalRemove \/ SignalMark \/ SignalDone \/ UNCHANGED vars => UNCHANGED <<seq, flushq, durable>>
    BY DEF SignalRemove, SignalMark, SignalDone, vars, rvars, wvars
  <1>6. ASSUME NEW r \in Requests, NewOneshot(r) \/ Register(r) \/ Retire(r) \/ WaitStep(r)
        PROVE  UNCHANGED <<seq, flushq, durable>>
    BY <1>6, WaitFrame DEF NewOneshot, Register, Retire, wvars
  <1>. QED BY <1>1, <1>2, <1>3, <1>4, <1>5, <1>6, NextSplit DEF Worker

-----------------------------------------------------------------------------
(* Tokens *)

\* How a step inside a wait moves its thread.
LEMMA WaitMoves ==
    ASSUME AckInv, NEW r \in Requests, WaitStep(r)
    PROVE  /\ pc[r] # "run" /\ pc[r] # "minted" /\ pc'[r] # "minted"
           /\ pc'[r] = "retire" => id[r] \in done
           /\ pc'[r] = "asleep" => id[r] \notin done
           /\ pc'[r] = "run" /\ result'[r] = "true" /\ waits'[r] > 0 =>
                id[r] \in done \/ id[r] \notin registry
           /\ \A q \in Requests : q # r =>
                pc'[q] = pc[q] /\ result'[q] = result[q] /\ waits'[q] = waits[q]
  <1>0. TypeOK /\ pc \in [Requests -> Positions]
    BY DEF AckInv, AcksAreHonest, TypeOK, Positions
  <1>1. CASE SkipWait(r)
    <2>1. waits' = waits /\ waits[r] = 0 /\ result' = result
      BY <1>1 DEF SkipWait
    <2>. QED BY <1>0, <1>1, <2>1 DEF SkipWait, GoTo
  <1>2. CASE WaitCall(r)
    <2>1. pc' = [pc EXCEPT ![r] = "lookup"] /\ result' = result /\ pc[r] = "registered"
      BY <1>2 DEF WaitCall, GoTo
    <2>2. \A q \in Requests : q # r => waits'[q] = waits[q]
      BY <1>0, <1>2 DEF WaitCall, TypeOK
    <2>. QED BY <1>0, <2>1, <2>2
  <1>3. CASE Lookup(r)
    <2>1. waits' = waits /\ pc[r] = "lookup"
      BY <1>3 DEF Lookup
    <2>2. CASE id[r] \notin registry /\ Return(r, "true")
      BY <1>0, <2>1, <2>2 DEF Return, GoTo, TypeOK
    <2>3. CASE id[r] \in registry /\ GoTo(r, "check") /\ UNCHANGED result
      BY <1>0, <2>1, <2>3 DEF GoTo
    <2>. QED BY <1>3, <2>2, <2>3 DEF Lookup
  <1>4. CASE Check(r)
    <2>1. waits' = waits /\ pc[r] = "check"
      BY <1>4 DEF Check
    <2>2. CASE id[r] \in done /\ Return(r, "true")
      BY <1>0, <2>1, <2>2 DEF Return, GoTo, TypeOK
    <2>3. CASE id[r] \in done /\ GoTo(r, "retire") /\ UNCHANGED result
      BY <1>0, <2>1, <2>3 DEF GoTo
    <2>4. CASE id[r] \notin done /\ GoTo(r, "asleep") /\ UNCHANGED result
      BY <1>0, <2>1, <2>4 DEF GoTo
    <2>. QED BY <1>4, <2>2, <2>3, <2>4 DEF Check
  <1>5. CASE Awake(r)
    <2>1. waits' = waits /\ pc[r] = "awake"
      BY <1>5 DEF Awake
    <2>2. CASE id[r] \in done /\ GoTo(r, "retire") /\ UNCHANGED result
      BY <1>0, <2>1, <2>2 DEF GoTo
    <2>3. CASE id[r] \notin done /\ GoTo(r, "asleep") /\ UNCHANGED result
      BY <1>0, <2>1, <2>3 DEF GoTo
    <2>4. CASE id[r] \notin done /\ Return(r, "false")
      BY <1>0, <2>1, <2>4 DEF Return, GoTo, TypeOK
    <2>. QED BY <1>5, <2>2, <2>3, <2>4 DEF Awake
  <1>6. CASE Timeout(r) \/ SpuriousWake(r)
    <2>1. pc' = [pc EXCEPT ![r] = "awake"] /\ result' = result /\ waits' = waits /\ pc[r] = "asleep"
      BY <1>6 DEF Timeout, SpuriousWake, GoTo
    <2>. QED BY <1>0, <2>1
  <1>. QED BY <1>1, <1>2, <1>3, <1>4, <1>5, <1>6 DEF WaitStep

\* The parts of the invariant about tokens, which hold or fall together.
TokenInv == TokensKnown /\ SignaledIsDurable /\ WorkerPhases /\ TokensFindable

\* What the invariant says, with its types, in the form the steps use it.
LEMMA TokenFacts ==
    ASSUME AckInv
    PROVE  /\ TypeOK /\ TokenInv /\ pc \in [Requests -> Positions]
           /\ acks \in [BlockIds -> Seq(Ids)] /\ todo \in Seq(Ids) /\ flushq \in Seq(BlockIds)
           /\ id \in [Requests -> 0 .. MaxRows]
  BY DEF AckInv, AcksAreHonest, TypeOK, TokenInv, Positions

\* A wait, whether it looks up, checks, sleeps, times out or wakes for no reason,
\* reaches "retire" only with a signaled cell.
LEMMA TokensWait ==
    ASSUME AckInv, NEW r \in Requests, WaitStep(r)
    PROVE  TokenInv'
  <1>0. TokenInv
    BY TokenFacts
  <1>1. UNCHANGED <<nextId, registry, done, acks, seq, id, row, flushq, durable, wpc, todo>>
    BY WaitFrame
  <1>2. /\ pc[r] # "run" /\ pc[r] # "minted" /\ pc'[r] # "minted"
        /\ pc'[r] = "retire" => id[r] \in done
        /\ \A q \in Requests : q # r => pc'[q] = pc[q] /\ waits'[q] = waits[q]
    BY WaitMoves
  <1>3. TokensKnown'
    <2>1. \A q \in Requests : /\ id[q] \notin Minted => id[q] = 0 /\ pc'[q] = "run" /\ waits'[q] = 0
                              /\ pc'[q] = "minted" => row[id[q]] = Active(q)
                              /\ pc'[q] = "retire" => id[q] \in done
      BY <1>0, <1>2 DEF TokenInv, TokensKnown
    <2>. QED BY <1>0, <1>1, <2>1 DEF TokenInv, TokensKnown, Minted, Active
  <1>4. SignaledIsDurable' /\ WorkerPhases'
    BY <1>0, <1>1 DEF TokenInv, SignaledIsDurable, WorkerPhases, Minted
  <1>5. TokensFindable'
    <2>1. \A i : (\E q \in Requests : pc[q] = "minted" /\ id[q] = i)
                 => (\E q \in Requests : pc'[q] = "minted" /\ id'[q] = i)
      BY <1>1, <1>2
    <2>. QED BY <1>0, <1>1, <2>1 DEF TokenInv, TokensFindable, In
  <1>. QED BY <1>3, <1>4, <1>5 DEF TokenInv

\* The removal at the end of a successful wait takes a signaled token, which the
\* worker does not need to find any more.
LEMMA TokensRetire ==
    ASSUME AckInv, NEW r \in Requests, Retire(r)
    PROVE  TokenInv'
  <1>0. TokenInv /\ pc \in [Requests -> Positions]
    BY TokenFacts
  <1>1. UNCHANGED <<nextId, done, acks, seq, id, waits, row, flushq, durable, wpc, todo>>
        /\ registry' = registry \ {id[r]} /\ pc[r] = "retire" /\ pc' = [pc EXCEPT ![r] = "run"]
    BY DEF Retire, Return, GoTo, wvars
  <1>2. \A q \in Requests : pc'[q] = IF q = r THEN "run" ELSE pc[q]
    BY <1>0, <1>1
  <1>3. TokensKnown'
    <2>1. \A q \in Requests : /\ id[q] \notin Minted => id[q] = 0 /\ pc'[q] = "run" /\ waits[q] = 0
                              /\ pc'[q] = "minted" => row[id[q]] = Active(q)
                              /\ pc'[q] = "retire" => id[q] \in done
      BY <1>0, <1>1, <1>2 DEF TokenInv, TokensKnown
    <2>. QED BY <1>0, <1>1, <2>1 DEF TokenInv, TokensKnown, Minted, Active
  <1>4. row[id[r]] \in durable
    BY <1>0, <1>1 DEF TokenInv, TokensKnown, SignaledIsDurable
  <1>5. SignaledIsDurable'
    BY <1>0, <1>1, <1>4 DEF TokenInv, SignaledIsDurable, Minted
  <1>6. WorkerPhases'
    BY <1>0, <1>1 DEF TokenInv, WorkerPhases
  <1>7. TokensFindable'
    <2>1. \A i : (\E q \in Requests : pc[q] = "minted" /\ id[q] = i)
                 => (\E q \in Requests : pc'[q] = "minted" /\ id'[q] = i)
      BY <1>1, <1>2
    <2>. QED BY <1>0, <1>1, <2>1 DEF TokenInv, TokensFindable, In
  <1>. QED BY <1>3, <1>5, <1>6, <1>7 DEF TokenInv

\* oneshot_new hands out a token nobody has, registered before anyone sees it.
LEMMA TokensNew ==
    ASSUME AckInv, NEW r \in Requests, NewOneshot(r)
    PROVE  TokenInv'
  <1>0. TypeOK /\ TokenInv /\ pc \in [Requests -> Positions] /\ id \in [Requests -> 0 .. MaxRows]
        /\ acks \in [BlockIds -> Seq(Ids)]
    BY TokenFacts
  <1>1. UNCHANGED <<done, acks, seq, flushq, durable, wpc, todo>>
        /\ registry' = registry \union {nextId} /\ pc[r] = "run"
        /\ pc' = [pc EXCEPT ![r] = "minted"] /\ id' = [id EXCEPT ![r] = nextId]
        /\ waits' = [waits EXCEPT ![r] = 0]
    BY DEF NewOneshot, GoTo, wvars
  <1>2. /\ Len(row) \in Nat /\ nextId = Len(row) + 1 /\ row'[nextId] = Active(r)
        /\ \A i \in Minted : row'[i] = row[i] /\ i # nextId
        /\ Minted' = Minted \union {nextId}
    BY NewOneshotFacts
  <1>3. \A q \in Requests : /\ pc'[q] = IF q = r THEN "minted" ELSE pc[q]
                            /\ id'[q] = IF q = r THEN nextId ELSE id[q]
    BY <1>0, <1>1
  <1>4. \A q \in Requests : q # r => waits'[q] = waits[q]
    BY <1>0, <1>1 DEF TypeOK
  <1>5. \A q \in Requests : Active(q)' = Active(q)
    BY <1>1 DEF Active
  <1>6. TokensKnown'
    <2>1. \A q \in Requests : /\ id'[q] \notin Minted' => id'[q] = 0 /\ pc'[q] = "run" /\ waits'[q] = 0
                              /\ pc'[q] = "minted" => row'[id'[q]] = Active(q)
                              /\ pc'[q] = "retire" => id'[q] \in done
      BY <1>0, <1>2, <1>3, <1>4 DEF TokenInv, TokensKnown
    <2>2. registry' \subseteq Minted' /\ done' \subseteq Minted'
      BY <1>0, <1>1, <1>2 DEF TokenInv, TokensKnown
    <2>3. \A b \in BlockIds : \A k \in 1 .. Len(acks[b]) :
            acks[b][k] \in Minted' /\ row'[acks[b][k]] = b
      BY <1>0, <1>2 DEF TokenInv, TokensKnown
    <2>4. \A k \in 1 .. Len(todo) : todo[k] \in Minted'
      BY <1>0, <1>2 DEF TokenInv, TokensKnown
    <2>. QED BY <1>1, <1>5, <2>1, <2>2, <2>3, <2>4 DEF TokensKnown
  <1>7. SignaledIsDurable'
    <2>1. \A i \in done : row'[i] \in durable
      BY <1>0, <1>2 DEF TokenInv, TokensKnown, SignaledIsDurable
    <2>2. \A i \in Minted' \ registry' : row'[i] \in durable
      BY <1>0, <1>1, <1>2 DEF TokenInv, SignaledIsDurable
    <2>3. \A k \in 1 .. Len(todo) : row'[todo[k]] \in durable
      BY <1>0, <1>2 DEF TokenInv, TokensKnown, SignaledIsDurable
    <2>. QED BY <1>1, <2>1, <2>2, <2>3 DEF SignaledIsDurable
  <1>8. WorkerPhases'
    <2>1. wpc = "mark" => todo # << >> /\ Head(todo) \in Minted
      BY <1>0, TailIn DEF TokenInv, WorkerPhases, TokensKnown, TypeOK
    <2>. QED BY <1>0, <1>1, <1>2, <2>1 DEF TokenInv, WorkerPhases
  <1>9. TokensFindable'
    <2>1. Active(r) \notin durable
      <3>1. ~Past(Active(r))
        BY ActiveIsBlock, BlockParts DEF Past
      <3>. QED BY <3>1 DEF AckInv, SealedOnly
    <2>2. ASSUME NEW i \in registry'
          PROVE  /\ \/ \E q \in Requests : pc'[q] = "minted" /\ id'[q] = i
                    \/ In(i, acks[row'[i]])
                    \/ In(i, todo)
                 /\ row'[i] \in durable => \/ wpc = "durable" /\ row'[i] = Head(flushq)
                                           \/ wpc \in {"signal", "mark"} /\ In(i, todo)
      <3>1. CASE i = nextId
        BY <1>2, <1>3, <2>1, <3>1
      <3>2. CASE i # nextId
        <4>1. i \in registry /\ row'[i] = row[i]
          BY <1>0, <1>1, <1>2, <2>2, <3>2 DEF TokenInv, TokensKnown
        <4>2. (\E q \in Requests : pc[q] = "minted" /\ id[q] = i)
                 => (\E q \in Requests : pc'[q] = "minted" /\ id'[q] = i)
          BY <1>1, <1>3
        <4>. QED BY <1>0, <4>1, <4>2 DEF TokenInv, TokensFindable
      <3>. QED BY <3>1, <3>2
    <2>. QED BY <1>1, <2>2 DEF TokensFindable, In
  <1>. QED BY <1>6, <1>7, <1>8, <1>9 DEF TokenInv

\* ack_register puts a token into the list of its own block, which is not sealed
\* yet, so the worker cannot have gone by.
LEMMA TokensRegister ==
    ASSUME AckInv, NEW r \in Requests, Register(r)
    PROVE  TokenInv'
  <1>0. TypeOK /\ TokenInv /\ pc \in [Requests -> Positions] /\ acks \in [BlockIds -> Seq(Ids)]
    BY TokenFacts
  <1>1. UNCHANGED <<nextId, registry, done, seq, id, waits, row, flushq, durable, wpc, todo>>
        /\ acks' = [acks EXCEPT ![Active(r)] = Append(@, id[r])]
        /\ pc[r] = "minted" /\ pc' = [pc EXCEPT ![r] = "registered"]
    BY DEF Register, GoTo, wvars
  <1>2. \A q \in Requests : pc'[q] = IF q = r THEN "registered" ELSE pc[q]
    BY <1>0, <1>1
  <1>3. Active(r) \in BlockIds /\ id[r] \in Minted /\ row[id[r]] = Active(r)
    BY <1>0, <1>1, ActiveIsBlock DEF TokenInv, TokensKnown
  <1>4. id[r] \in Ids
    <2>1. Len(row) <= MaxRows /\ Len(row) \in Nat
      BY <1>0, AckAssumption, LenProperties DEF TypeOK, AckInv, RowsPlaced
    <2>. QED BY <1>3, <2>1, AckAssumption DEF Minted, Ids
  <1>5. /\ \A b \in BlockIds : b # Active(r) => acks'[b] = acks[b]
        /\ acks'[Active(r)] = Append(acks[Active(r)], id[r])
    BY <1>0, <1>1, <1>3
  <1>6. /\ Len(acks'[Active(r)]) = Len(acks[Active(r)]) + 1 /\ Len(acks[Active(r)]) \in Nat
        /\ \A k \in 1 .. Len(acks[Active(r)]) : acks'[Active(r)][k] = acks[Active(r)][k]
        /\ acks'[Active(r)][Len(acks[Active(r)]) + 1] = id[r]
        /\ \A x : In(x, acks'[Active(r)]) <=> In(x, acks[Active(r)]) \/ x = id[r]
    <2>1. acks[Active(r)] \in Seq(Ids)
      BY <1>0, <1>3
    <2>. QED BY <1>4, <1>5, <2>1, AppendIn
  <1>7. TokensKnown'
    <2>1. \A q \in Requests : /\ id[q] \notin Minted => id[q] = 0 /\ pc'[q] = "run" /\ waits[q] = 0
                              /\ pc'[q] = "minted" => row[id[q]] = Active(q)
                              /\ pc'[q] = "retire" => id[q] \in done
      BY <1>0, <1>1, <1>2 DEF TokenInv, TokensKnown
    <2>2. ASSUME NEW b \in BlockIds, NEW k \in 1 .. Len(acks'[b])
          PROVE  acks'[b][k] \in Minted /\ row[acks'[b][k]] = b
      <3>1. CASE b # Active(r)
        BY <1>0, <1>5, <2>2, <3>1 DEF TokenInv, TokensKnown
      <3>2. CASE b = Active(r) /\ k = Len(acks[b]) + 1
        BY <1>3, <1>6, <3>2
      <3>3. CASE b = Active(r) /\ k # Len(acks[b]) + 1
        <4>1. k \in 1 .. Len(acks[Active(r)])
          BY <1>6, <2>2, <3>3
        <4>. QED BY <1>0, <1>3, <1>6, <3>3, <4>1 DEF TokenInv, TokensKnown
      <3>. QED BY <3>1, <3>2, <3>3
    <2>. QED BY <1>0, <1>1, <2>1, <2>2 DEF TokenInv, TokensKnown, Minted, Active
  <1>8. SignaledIsDurable' /\ WorkerPhases'
    BY <1>0, <1>1 DEF TokenInv, SignaledIsDurable, WorkerPhases, Minted
  <1>9. TokensFindable'
    <2>1. ASSUME NEW i \in registry
          PROVE  \/ \E q \in Requests : pc'[q] = "minted" /\ id[q] = i
                 \/ In(i, acks'[row[i]])
                 \/ In(i, todo)
      <3>1. row[i] \in BlockIds
        BY <1>0, BlockParts DEF TokenInv, TokensKnown
      <3>2. In(i, acks[row[i]]) => In(i, acks'[row[i]])
        BY <1>5, <1>6, <3>1
      <3>3. CASE i = id[r]
        BY <1>3, <1>6, <3>3
      <3>4. CASE i # id[r]
        BY <1>0, <1>2, <3>2, <3>4 DEF TokenInv, TokensFindable
      <3>. QED BY <3>3, <3>4
    <2>2. \A i \in registry :
            row[i] \in durable => \/ wpc = "durable" /\ row[i] = Head(flushq)
                                  \/ wpc \in {"signal", "mark"} /\ In(i, todo)
      BY <1>0 DEF TokenInv, TokensFindable
    <2>. QED BY <1>1, <2>1, <2>2 DEF TokensFindable, In
  <1>. QED BY <1>7, <1>8, <1>9 DEF TokenInv

\* A thread seals behind the queue's head, and never between oneshot_new and
\* ack_register, when the worker could not find its token.
LEMMA TokensSeal ==
    ASSUME AckInv, NEW r \in Requests, SealBlock(r)
    PROVE  TokenInv'
  <1>0. TypeOK /\ TokenInv /\ flushq \in Seq(BlockIds)
    BY TokenFacts
  <1>1. UNCHANGED <<nextId, registry, done, acks, id, pc, waits, row, durable, wpc, todo>>
        /\ flushq' = Append(flushq, Active(r)) /\ pc[r] # "minted"
        /\ seq' = [seq EXCEPT ![r] = @ + 1]
    BY DEF SealBlock
  <1>2. flushq' # << >> /\ (flushq # << >> => Head(flushq') = Head(flushq))
    BY <1>0, <1>1, ActiveIsBlock, AppendIn
  <1>3. \A q \in Requests : q # r => Active(q)' = Active(q)
    BY <1>0, <1>1 DEF Active, TypeOK
  <1>4. TokensKnown'
    BY <1>0, <1>1, <1>3 DEF TokenInv, TokensKnown, Minted
  <1>5. SignaledIsDurable'
    BY <1>0, <1>1 DEF TokenInv, SignaledIsDurable, Minted
  <1>6. WorkerPhases'
    BY <1>0, <1>1, <1>2 DEF TokenInv, WorkerPhases
  <1>7. TokensFindable'
    <2>1. wpc = "durable" => Head(flushq') = Head(flushq)
      BY <1>0, <1>2 DEF TokenInv, WorkerPhases
    <2>. QED BY <1>0, <1>1, <2>1 DEF TokenInv, TokensFindable, In
  <1>. QED BY <1>4, <1>5, <1>6, <1>7 DEF TokenInv

\* The fsync makes the head of the queue durable, and the worker stands at it.
LEMMA TokensFsync ==
    ASSUME AckInv, FsyncBlock
    PROVE  TokenInv'
  <1>0. TokenInv
    BY TokenFacts
  <1>1. UNCHANGED <<nextId, registry, done, acks, id, pc, waits, seq, row, flushq, todo>>
        /\ durable' = durable \union {Head(flushq)} /\ wpc = "idle" /\ wpc' = "durable"
        /\ flushq # << >>
    BY DEF FsyncBlock, rvars
  <1>2. TokensKnown'
    BY <1>0, <1>1 DEF TokenInv, TokensKnown, Minted, Active
  <1>3. SignaledIsDurable' /\ WorkerPhases'
    BY <1>0, <1>1 DEF TokenInv, SignaledIsDurable, WorkerPhases, Minted
  <1>4. TokensFindable'
    BY <1>0, <1>1 DEF TokenInv, TokensFindable, In
  <1>. QED BY <1>2, <1>3, <1>4 DEF TokenInv

\* ack_signal_block takes the list of a durable block out of the map: from then
\* on its tokens are found in the worker's hand.
LEMMA TokensSignalBlock ==
    ASSUME AckInv, SignalBlock
    PROVE  TokenInv'
  <1>0. TokenInv /\ acks \in [BlockIds -> Seq(Ids)] /\ flushq \in Seq(BlockIds)
    BY TokenFacts
  <1>1. UNCHANGED <<nextId, registry, done, id, pc, waits, seq, row, durable>>
        /\ todo' = acks[Head(flushq)] /\ acks' = [acks EXCEPT ![Head(flushq)] = << >>]
        /\ wpc = "durable" /\ wpc' = "signal" /\ todo = << >>
        /\ flushq # << >> /\ Head(flushq) \in durable
    BY <1>0 DEF SignalBlock, rvars, TokenInv, WorkerPhases
  <1>2. Head(flushq) \in BlockIds /\ Head(flushq) = flushq[1] /\ 1 \in 1 .. Len(flushq)
    BY <1>0, <1>1, TailIn
  <1>3. \A b \in BlockIds : acks'[b] = IF b = Head(flushq) THEN << >> ELSE acks[b]
    BY <1>0, <1>1
  <1>a. Len(<< >>) = 0
    BY EmptySeq
  <1>4. TokensKnown'
    <2>1. \A b \in BlockIds : \A k \in 1 .. Len(acks'[b]) : acks'[b][k] \in Minted /\ row[acks'[b][k]] = b
      BY <1>0, <1>3, <1>a DEF TokenInv, TokensKnown
    <2>2. \A k \in 1 .. Len(todo') : todo'[k] \in Minted
      BY <1>0, <1>1, <1>2 DEF TokenInv, TokensKnown
    <2>. QED BY <1>0, <1>1, <2>1, <2>2 DEF TokenInv, TokensKnown, Minted, Active
  <1>5. SignaledIsDurable'
    <2>1. \A k \in 1 .. Len(todo') : row[todo'[k]] \in durable
      BY <1>0, <1>1, <1>2 DEF TokenInv, TokensKnown
    <2>. QED BY <1>0, <1>1, <2>1 DEF TokenInv, SignaledIsDurable, Minted
  <1>6. WorkerPhases'
    BY <1>1 DEF WorkerPhases
  <1>7. TokensFindable'
    <2>0. \A x : ~In(x, todo)
      BY <1>1, <1>a DEF In
    <2>1. ASSUME NEW i \in registry, row[i] = Head(flushq) PROVE In(i, todo')
      <3>1. ASSUME NEW q \in Requests, pc[q] = "minted", id[q] = i PROVE FALSE
        <4>1. row[i] = Active(q)
          BY <1>0, <3>1 DEF TokenInv, TokensKnown
        <4>2. Past(row[i])
          BY <1>2, <2>1 DEF AckInv, SealedOnly
        <4>. QED BY <4>1, <4>2, ActiveIsBlock, BlockParts DEF Past
      <3>2. In(i, acks[row[i]])
        BY <1>0, <2>0, <3>1 DEF TokenInv, TokensFindable
      <3>. QED BY <1>1, <2>1, <3>2
    <2>2. ASSUME NEW i \in registry
          PROVE  /\ \/ \E q \in Requests : pc[q] = "minted" /\ id[q] = i
                    \/ In(i, acks'[row[i]])
                    \/ In(i, todo')
                 /\ row[i] \in durable => In(i, todo')
      <3>1. row[i] \in BlockIds
        BY <1>0, BlockParts DEF TokenInv, TokensKnown
      <3>2. row[i] \in durable => row[i] = Head(flushq)
        BY <1>0, <1>1, <2>0 DEF TokenInv, TokensFindable
      <3>3. CASE row[i] = Head(flushq)
        BY <2>1, <3>3
      <3>4. CASE row[i] # Head(flushq)
        BY <1>0, <1>3, <2>0, <3>1, <3>2, <3>4 DEF TokenInv, TokensFindable
      <3>. QED BY <3>3, <3>4
    <2>. QED BY <1>1, <2>2 DEF TokensFindable, In
  <1>. QED BY <1>4, <1>5, <1>6, <1>7 DEF TokenInv

\* oneshot_signal takes the token out of the registry before it marks the cell:
\* absence is already an answer, and the block is durable.
LEMMA TokensSignalRemove ==
    ASSUME AckInv, SignalRemove
    PROVE  TokenInv'
  <1>0. TokenInv /\ todo \in Seq(Ids)
    BY TokenFacts
  <1>1. UNCHANGED <<nextId, done, acks, id, pc, waits, seq, row, durable, flushq>>
        /\ registry' = registry \ {Head(todo)} /\ wpc = "signal" /\ todo # << >>
        /\ \/ wpc' = "mark" /\ todo' = todo
           \/ Head(todo) \notin registry /\ todo' = Tail(todo) /\ wpc' = wpc
    BY DEF SignalRemove, rvars
  <1>2. /\ Head(todo) = todo[1] /\ 1 \in 1 .. Len(todo)
        /\ \A k \in 1 .. Len(Tail(todo)) : Tail(todo)[k] = todo[k + 1] /\ k + 1 \in 1 .. Len(todo)
        /\ \A x : In(x, todo) <=> x = Head(todo) \/ In(x, Tail(todo))
    BY <1>0, <1>1, TailIn
  <1>3. \A k \in 1 .. Len(todo') : \E j \in 1 .. Len(todo) : todo'[k] = todo[j]
    BY <1>1, <1>2
  <1>4. TokensKnown'
    <2>1. \A k \in 1 .. Len(todo') : todo'[k] \in Minted
      BY <1>0, <1>3 DEF TokenInv, TokensKnown
    <2>. QED BY <1>0, <1>1, <2>1 DEF TokenInv, TokensKnown, Minted, Active
  <1>5. SignaledIsDurable'
    <2>1. \A k \in 1 .. Len(todo') : row[todo'[k]] \in durable
      BY <1>0, <1>3 DEF TokenInv, SignaledIsDurable
    <2>2. row[Head(todo)] \in durable
      BY <1>0, <1>2 DEF TokenInv, SignaledIsDurable
    <2>. QED BY <1>0, <1>1, <2>1, <2>2 DEF TokenInv, SignaledIsDurable, Minted
  <1>6. WorkerPhases'
    BY <1>1 DEF WorkerPhases
  <1>7. TokensFindable'
    <2>1. \A i \in registry' : i \in registry /\ (In(i, todo) => In(i, todo'))
      BY <1>1, <1>2
    <2>2. wpc' \in {"signal", "mark"}
      BY <1>1
    <2>. QED BY <1>0, <1>1, <2>1, <2>2 DEF TokenInv, TokensFindable, In
  <1>. QED BY <1>4, <1>5, <1>6, <1>7 DEF TokenInv

\* Marking the cell wakes the sleeper on it and drops the token from the hand.
LEMMA TokensSignalMark ==
    ASSUME AckInv, SignalMark
    PROVE  TokenInv'
  <1>0. TokenInv /\ todo \in Seq(Ids) /\ pc \in [Requests -> Positions]
    BY TokenFacts
  <1>1. UNCHANGED <<nextId, registry, acks, id, waits, seq, row, durable, flushq>>
        /\ done' = done \union {Head(todo)} /\ wpc = "mark" /\ wpc' = "signal"
        /\ todo' = Tail(todo) /\ todo # << >> /\ Head(todo) \notin registry
    BY <1>0 DEF SignalMark, TokenInv, WorkerPhases
  <1>2. /\ Head(todo) = todo[1] /\ 1 \in 1 .. Len(todo)
        /\ \A k \in 1 .. Len(Tail(todo)) : Tail(todo)[k] = todo[k + 1] /\ k + 1 \in 1 .. Len(todo)
        /\ \A x : In(x, todo) <=> x = Head(todo) \/ In(x, Tail(todo))
    BY <1>0, <1>1, TailIn
  <1>3. \A q \in Requests : \/ pc'[q] = pc[q]
                            \/ pc[q] = "asleep" /\ pc'[q] = "awake"
    BY DEF SignalMark
  <1>4. TokensKnown'
    <2>1. \A k \in 1 .. Len(todo') : todo'[k] \in Minted
      BY <1>0, <1>1, <1>2 DEF TokenInv, TokensKnown
    <2>2. done' \subseteq Minted /\ done \subseteq done'
      BY <1>0, <1>1, <1>2 DEF TokenInv, TokensKnown
    <2>3. \A q \in Requests : /\ id[q] \notin Minted => id[q] = 0 /\ pc'[q] = "run" /\ waits[q] = 0
                              /\ pc'[q] = "minted" => row[id[q]] = Active(q)
                              /\ pc'[q] = "retire" => id[q] \in done'
      BY <1>0, <1>3, <2>2 DEF TokenInv, TokensKnown
    <2>. QED BY <1>0, <1>1, <2>1, <2>2, <2>3 DEF TokenInv, TokensKnown, Minted, Active
  <1>5. SignaledIsDurable'
    <2>1. \A k \in 1 .. Len(todo') : row[todo'[k]] \in durable
      BY <1>0, <1>1, <1>2 DEF TokenInv, SignaledIsDurable
    <2>2. row[Head(todo)] \in durable
      BY <1>0, <1>2 DEF TokenInv, SignaledIsDurable
    <2>. QED BY <1>0, <1>1, <2>1, <2>2 DEF TokenInv, SignaledIsDurable, Minted
  <1>6. WorkerPhases'
    BY <1>1 DEF WorkerPhases
  <1>7. TokensFindable'
    <2>1. \A i \in registry : In(i, todo) => In(i, todo')
      BY <1>1, <1>2
    <2>2. \A i : (\E q \in Requests : pc[q] = "minted" /\ id[q] = i)
                 => (\E q \in Requests : pc'[q] = "minted" /\ id'[q] = i)
      BY <1>1, <1>3
    <2>. QED BY <1>0, <1>1, <2>1, <2>2 DEF TokenInv, TokensFindable, In
  <1>. QED BY <1>4, <1>5, <1>6, <1>7 DEF TokenInv

\* The worker goes back to its queue with an empty hand.
LEMMA TokensSignalDone ==
    ASSUME AckInv, SignalDone
    PROVE  TokenInv'
  <1>0. TokenInv
    BY TokenFacts
  <1>1. UNCHANGED <<nextId, registry, done, acks, id, pc, waits, seq, row, durable, flushq, todo>>
        /\ wpc = "signal" /\ wpc' = "idle" /\ todo = << >>
    BY DEF SignalDone, rvars
  <1>2. TokensKnown'
    BY <1>0, <1>1 DEF TokenInv, TokensKnown, Minted, Active
  <1>3. SignaledIsDurable' /\ WorkerPhases'
    BY <1>0, <1>1 DEF TokenInv, SignaledIsDurable, WorkerPhases, Minted
  <1>4. TokensFindable'
    <2>1. \A x : ~In(x, todo)
      BY <1>1, EmptySeq DEF In
    <2>. QED BY <1>0, <1>1, <2>1 DEF TokenInv, TokensFindable, In
  <1>. QED BY <1>2, <1>3, <1>4 DEF TokenInv

\* Every step of a request thread or of the worker keeps the parts about tokens.
LEMMA TokenStep ==
    ASSUME AckInv, [Next]_vars
    PROVE  TokenInv'
  <1>1. CASE UNCHANGED vars
    <2>1. TokenInv
      BY TokenFacts
    <2>2. UNCHANGED <<nextId, registry, done, acks, id, pc, waits, seq, row, durable, flushq, wpc, todo>>
      BY <1>1 DEF vars, rvars, wvars
    <2>3. TokensKnown'
      BY <2>1, <2>2 DEF TokenInv, TokensKnown, Minted, Active
    <2>4. SignaledIsDurable' /\ WorkerPhases'
      BY <2>1, <2>2 DEF TokenInv, SignaledIsDurable, WorkerPhases, Minted
    <2>5. TokensFindable'
      BY <2>1, <2>2 DEF TokenInv, TokensFindable, In
    <2>. QED BY <2>3, <2>4, <2>5 DEF TokenInv
  <1>. QED BY <1>1, NextSplit, TokensWait, TokensRetire, TokensNew, TokensRegister, TokensSeal,
              TokensFsync, TokensSignalBlock, TokensSignalRemove, TokensSignalMark,
              TokensSignalDone DEF Worker

-----------------------------------------------------------------------------
(* Honest acknowledgements *)

\* A thread that a step leaves where it is, or moves to a place where it has no
\* answer and does not sleep, keeps both promises while durable only grows.
LEMMA HonestFrame ==
    ASSUME AckInv, id' = id, row' = row, done' = done, durable \subseteq durable',
           \A q \in Requests : \/ pc'[q] = pc[q] /\ result'[q] = result[q] /\ waits'[q] = waits[q]
                               \/ pc'[q] \notin {"run", "asleep"}
    PROVE  TrueMeansDurable' /\ NoSleepOnDone'
  <1>1. TrueMeansDurable /\ NoSleepOnDone
    BY DEF AckInv, AcksAreHonest
  <1>2. TrueMeansDurable'
    BY <1>1 DEF TrueMeansDurable
  <1>3. NoSleepOnDone'
    BY <1>1 DEF NoSleepOnDone
  <1>. QED BY <1>2, <1>3

\* new_oneshot gives the thread a token of its own: the others keep theirs, and
\* the rows those stand for.
LEMMA HonestNew ==
    ASSUME AckInv, NEW r \in Requests, NewOneshot(r)
    PROVE  TrueMeansDurable' /\ NoSleepOnDone'
  <1>0. /\ TrueMeansDurable /\ NoSleepOnDone /\ TypeOK /\ TokenInv
        /\ pc \in [Requests -> Positions] /\ id \in [Requests -> 0 .. MaxRows]
    BY TokenFacts DEF AckInv, AcksAreHonest
  <1>1. UNCHANGED <<done, result, durable>>
        /\ pc' = [pc EXCEPT ![r] = "minted"] /\ id' = [id EXCEPT ![r] = nextId]
        /\ waits' = [waits EXCEPT ![r] = 0]
    BY DEF NewOneshot, GoTo, wvars
  <1>2. \A q \in Requests : /\ pc'[q] = IF q = r THEN "minted" ELSE pc[q]
                            /\ q # r => id'[q] = id[q]
    BY <1>0, <1>1
  <1>3. \A q \in Requests : q # r => waits'[q] = waits[q]
    BY <1>0, <1>1 DEF TypeOK
  <1>4. \A i \in Minted : row'[i] = row[i]
    BY NewOneshotFacts
  <1>5. TrueMeansDurable'
    <2>1. ASSUME NEW q \in Requests, pc'[q] = "run", result'[q] = "true", waits'[q] > 0
          PROVE  row'[id'[q]] \in durable'
      <3>1. q # r /\ pc[q] = "run" /\ result[q] = "true" /\ waits[q] > 0 /\ id'[q] = id[q]
        BY <1>1, <1>2, <1>3, <2>1
      <3>2. id[q] \in Minted
        <4>1. waits[q] # 0
          BY <3>1
        <4>. QED BY <1>0, <4>1 DEF TokenInv, TokensKnown
      <3>3. row[id[q]] \in durable
        BY <1>0, <3>1 DEF TrueMeansDurable
      <3>. QED BY <1>1, <1>4, <3>1, <3>2, <3>3
    <2>. QED BY <2>1 DEF TrueMeansDurable
  <1>6. NoSleepOnDone'
    BY <1>0, <1>1, <1>2 DEF NoSleepOnDone
  <1>. QED BY <1>5, <1>6

\* A wait answers true only for a token that is done or gone from the registry,
\* and goes to sleep only on a cell that it has seen not done.
LEMMA HonestWait ==
    ASSUME AckInv, NEW r \in Requests, WaitStep(r)
    PROVE  TrueMeansDurable' /\ NoSleepOnDone'
  <1>0. /\ TrueMeansDurable /\ NoSleepOnDone /\ TokenInv
    BY TokenFacts DEF AckInv, AcksAreHonest
  <1>1. UNCHANGED <<nextId, registry, done, acks, seq, id, row, flushq, durable, wpc, todo>>
    BY WaitFrame
  <1>2. /\ pc[r] # "run" /\ pc'[r] = "asleep" => id[r] \notin done
        /\ pc'[r] = "run" /\ result'[r] = "true" /\ waits'[r] > 0 =>
                id[r] \in done \/ id[r] \notin registry
        /\ \A q \in Requests : q # r =>
                pc'[q] = pc[q] /\ result'[q] = result[q] /\ waits'[q] = waits[q]
    BY WaitMoves
  <1>3. id[r] \in Minted
    BY <1>0, WaitMoves DEF TokenInv, TokensKnown
  <1>4. id[r] \in done \/ id[r] \notin registry => row[id[r]] \in durable
    BY <1>0, <1>3 DEF TokenInv, SignaledIsDurable
  <1>5. TrueMeansDurable'
    BY <1>0, <1>1, <1>2, <1>4 DEF TrueMeansDurable
  <1>6. NoSleepOnDone'
    <2>1. pc'[r] = "asleep" => id[r] \notin done
      BY WaitMoves
    <2>. QED BY <1>0, <1>1, <1>2, <2>1 DEF NoSleepOnDone
  <1>. QED BY <1>5, <1>6

\* wait_oneshot retires a token whose cell it has seen done.
LEMMA HonestRetire ==
    ASSUME AckInv, NEW r \in Requests, Retire(r)
    PROVE  TrueMeansDurable' /\ NoSleepOnDone'
  <1>0. /\ TrueMeansDurable /\ NoSleepOnDone /\ TokenInv /\ TypeOK
        /\ pc \in [Requests -> Positions]
    BY TokenFacts DEF AckInv, AcksAreHonest
  <1>1. UNCHANGED <<done, id, waits, row, durable>> /\ pc[r] = "retire"
        /\ pc' = [pc EXCEPT ![r] = "run"] /\ result' = [result EXCEPT ![r] = "true"]
    BY DEF Retire, Return, GoTo, wvars
  <1>2. \A q \in Requests : pc'[q] = IF q = r THEN "run" ELSE pc[q]
    BY <1>0, <1>1
  <1>3. \A q \in Requests : q # r => result'[q] = result[q]
    BY <1>0, <1>1 DEF TypeOK
  <1>4. row[id[r]] \in durable
    BY <1>0, <1>1 DEF TokenInv, TokensKnown, SignaledIsDurable
  <1>5. TrueMeansDurable'
    BY <1>0, <1>1, <1>2, <1>3, <1>4 DEF TrueMeansDurable
  <1>6. NoSleepOnDone'
    BY <1>0, <1>1, <1>2 DEF NoSleepOnDone
  <1>. QED BY <1>5, <1>6

\* signal_oneshot marks the cell and wakes its sleepers in one critical section.
LEMMA HonestMark ==
    ASSUME AckInv, SignalMark
    PROVE  TrueMeansDurable' /\ NoSleepOnDone'
  <1>0. TrueMeansDurable /\ NoSleepOnDone
    BY DEF AckInv, AcksAreHonest
  <1>1. UNCHANGED <<id, waits, row, durable, result>> /\ done' = done \union {Head(todo)}
    BY DEF SignalMark
  <1>2. \A q \in Requests :
          pc'[q] = IF pc[q] = "asleep" /\ id[q] = Head(todo) THEN "awake" ELSE pc[q]
    BY DEF SignalMark
  <1>3. TrueMeansDurable'
    BY <1>0, <1>1, <1>2 DEF TrueMeansDurable
  <1>4. NoSleepOnDone'
    BY <1>0, <1>1, <1>2 DEF NoSleepOnDone
  <1>. QED BY <1>3, <1>4

\* Every step of the request threads and of the flush worker keeps the
\* acknowledgements honest.
LEMMA HonestStep ==
    ASSUME AckInv, [Next]_vars
    PROVE  AcksAreHonest'
  <1>0. TypeOK /\ pc \in [Requests -> Positions]
    BY TokenFacts
  <1>1. TrueMeansDurable' /\ NoSleepOnDone'
    <2>1. ASSUME NEW r \in Requests, Register(r) PROVE TrueMeansDurable' /\ NoSleepOnDone'
      <3>1. UNCHANGED <<id, row, done, durable, result, waits>> /\ pc' = [pc EXCEPT ![r] = "registered"]
        BY <2>1 DEF Register, GoTo, wvars
      <3>2. \A q \in Requests : pc'[q] = IF q = r THEN "registered" ELSE pc[q]
        BY <1>0, <3>1
      <3>. QED BY <3>1, <3>2, HonestFrame
    <2>2. ASSUME NEW r \in Requests, SealBlock(r) PROVE TrueMeansDurable' /\ NoSleepOnDone'
      <3>1. UNCHANGED <<id, row, done, durable, pc, result, waits>>
        BY <2>2 DEF SealBlock
      <3>. QED BY <3>1, HonestFrame
    <2>3. CASE FsyncBlock \/ SignalBlock \/ SignalRemove \/ SignalDone \/ UNCHANGED vars
      <3>1. UNCHANGED <<id, row, done, pc, result, waits>> /\ durable \subseteq durable'
        BY <2>3 DEF FsyncBlock, SignalBlock, SignalRemove, SignalDone, vars, rvars, wvars
      <3>. QED BY <3>1, HonestFrame
    <2>. QED BY <2>1, <2>2, <2>3, NextSplit, HonestNew, HonestWait, HonestRetire, HonestMark DEF Worker
  <1>2. SignaledTokensRetired'
    <2>1. TokensFindable'
      BY TokenStep DEF TokenInv
    <2>. QED BY <2>1 DEF TokensFindable, SignaledTokensRetired
  <1>. QED BY <1>1, <1>2, TypeStep DEF AcksAreHonest

-----------------------------------------------------------------------------

\* The state before the first row satisfies the invariant.
LEMMA AckInit ==
    ASSUME Init
    PROVE  AckInv
  <1>0. Len(<< >>) = 0 /\ << >> \in Seq(Ids) /\ << >> \in Seq(BlockIds)
    BY EmptySeq
  <1>1. Minted = {} /\ Len(row) = 0
    BY <1>0 DEF Init, Minted
  <1>2. TypeOK
    <2>1. nextId \in 1 .. (MaxRows + 1) /\ seq \in [Requests -> 1 .. (MaxRows + 1)]
      BY AckAssumption DEF Init
    <2>2. id \in [Requests -> 0 .. MaxRows] /\ waits \in [Requests -> 0 .. MaxWaits]
      BY AckAssumption DEF Init
    <2>3. acks \in [BlockIds -> Seq(Ids)]
      BY <1>0 DEF Init
    <2>4. timed \in [Requests -> BOOLEAN]
      BY DEF Init
    <2>5. elapsed \in [Requests -> BOOLEAN]
      BY DEF Init
    <2>6. pc \in [Requests -> Positions]
      BY DEF Init, Positions
    <2>7. result \in [Requests -> {"none", "true", "false"}]
      BY DEF Init
    <2>. QED BY <1>0, <2>1, <2>2, <2>3, <2>4, <2>5, <2>6, <2>7 DEF Init, TypeOK, Positions
  <1>3. AcksAreHonest
    BY <1>2 DEF Init, AcksAreHonest, TrueMeansDurable, NoSleepOnDone, SignaledTokensRetired
  <1>4. RowsPlaced
    BY <1>1, <1>0 DEF Init, RowsPlaced, In
  <1>5. SealedOnly
    BY <1>0 DEF Init, SealedOnly
  <1>6. TokensKnown
    BY <1>0, <1>1 DEF Init, TokensKnown
  <1>7. SignaledIsDurable
    BY <1>0, <1>1 DEF Init, SignaledIsDurable
  <1>8. WorkerPhases
    BY DEF Init, WorkerPhases
  <1>9. TokensFindable
    BY DEF Init, TokensFindable
  <1>. QED BY <1>3, <1>4, <1>5, <1>6, <1>7, <1>8, <1>9 DEF AckInv

\* The inductive invariant holds in every state, for any number of request
\* threads, rows and timed waits.
THEOREM AckInvariant == Spec => []AckInv
  <1>1. Init => AckInv
    BY AckInit
  <1>2. AckInv /\ [Next]_vars => AckInv'
    <2>. SUFFICES ASSUME AckInv, [Next]_vars PROVE AckInv'
      OBVIOUS
    <2>1. TokenInv' /\ AcksAreHonest' /\ RowsPlaced' /\ SealedOnly'
      BY TokenStep, HonestStep, RowsStep, SealedStep
    <2>. QED BY <2>1 DEF AckInv, TokenInv
  <1>. QED BY <1>1, <1>2, PTL DEF Spec

\* Acknowledgements are honest (oneshot.rs, ack_registry.rs): a wait that answers
\* true stands for a durable row, no thread sleeps on a signaled token, and a
\* token the worker is through with has left the registry.
THEOREM AcksHonest == Spec => []AcksAreHonest
  <1>1. AckInv => AcksAreHonest
    BY DEF AckInv
  <1>. QED BY <1>1, AckInvariant, PTL

-----------------------------------------------------------------------------
(***************************************************************************)
(* Tasks: the inductive invariant, in named parts.                         *)
(***************************************************************************)

\* The handles given out so far.
Handles == 1 .. Len(task)

\* The joins that wait with h in hand, and the spawns that have not put h in
\* the table yet.
Holders(h) == {j \in Joiners : jpc[j].at = "wait" /\ \E i \in 1 .. Len(jpc[j].asked) : jpc[j].asked[i] = h}
Spawners(h) == {j \in Joiners : spawning[j] = h}

\* The types of the tasks' state; what is named is a handle given out.
JoinPoints == [at : {"idle", "wait", "returned", "panicked"},
               asked : Seq(Nat), taken : Seq(Nat), out : Seq(Nat)]
TaskTypes ==
    /\ task \in Seq({"running", "done", "panicked"}) /\ given \in Seq({0, 1}) /\ Len(given) = Len(task)
    /\ parked \subseteq Handles /\ lost \subseteq Handles
    /\ spawning \in [Joiners -> Nat] /\ \A j \in Joiners : spawning[j] <= Len(task)
    /\ jpc \in [Joiners -> JoinPoints]

\* A join that waits has the answers so far, then the handles to come, in the
\* order asked, without a repetition; one that returned has all the answers.
Ordered(p) ==
    /\ p.at = "wait" => /\ p.asked = p.out \o p.taken
                        /\ \A i, k \in 1 .. Len(p.asked) : p.asked[i] = p.asked[k] => i = k
    /\ p.at = "returned" => p.out = p.asked
    /\ p.at \in {"wait", "returned"} =>
        /\ \A i \in 1 .. Len(p.asked) : p.asked[i] \in Handles
        /\ \A i \in 1 .. Len(p.out) : p.out[i] \in Handles /\ task[p.out[i]] = "done"
JoinsOrdered == \A j \in Joiners : Ordered(jpc[j])

\* Where a handle can be: with one join, with its spawn, in the table, dropped
\* by a panic, or returned once.
Unheld(h) == Holders(h) = {} /\ Spawners(h) = {}
OnePlace(h) ==
    \/ /\ \E j \in Joiners : Holders(h) = {j}
       /\ Spawners(h) = {} /\ h \notin parked /\ h \notin lost /\ given[h] = 0
    \/ /\ \E j \in Joiners : Spawners(h) = {j}
       /\ Holders(h) = {} /\ h \notin parked /\ h \notin lost /\ given[h] = 0
    \/ Unheld(h) /\ h \in parked /\ h \notin lost /\ given[h] = 0
    \/ Unheld(h) /\ h \notin parked /\ h \in lost /\ given[h] = 0
    \/ Unheld(h) /\ h \notin parked /\ h \notin lost /\ given[h] = 1

TaskInv == TaskTypes /\ JoinsOrdered /\ \A h \in Handles : OnePlace(h)

\* A list of a join is a sequence of handles.
LEMMA ListsAreSequences ==
    ASSUME TaskTypes, NEW hs \in Lists
    PROVE  hs \in Seq(Nat) /\ \A i \in 1 .. Len(hs) : hs[i] \in Handles
  <1>1. PICK m \in 0 .. MaxAsked : hs \in [1 .. m -> Known]
    BY DEF Lists, SeqOf
  <1>2. m \in Nat
    BY TasksAssumption
  <1>3. Known \subseteq Handles /\ Handles \subseteq Nat
    BY DEF Known, Handles, TaskTypes
  <1>4. hs \in [1 .. m -> Nat] /\ \A i \in 1 .. m : hs[i] \in Handles
    BY <1>1, <1>3
  <1>5. hs \in Seq(Nat) /\ Len(hs) = m
    BY <1>2, <1>4
  <1> QED
    BY <1>4, <1>5

\* The elements of a concatenation are those of its two parts.
LEMMA RangeOfConcat ==
    ASSUME NEW s \in Seq(Nat), NEW t \in Seq(Nat)
    PROVE  Range(s) \union Range(t) = {(s \o t)[i] : i \in 1 .. Len(s \o t)}
  <1>1. /\ s \o t \in Seq(Nat) /\ Len(s \o t) = Len(s) + Len(t)
        /\ \A i \in 1 .. Len(s) : (s \o t)[i] = s[i]
        /\ \A i \in 1 .. Len(t) : (s \o t)[i + Len(s)] = t[i]
    BY ConcatProperties
  <1>2. ASSUME NEW x \in Range(s) \union Range(t) PROVE x \in {(s \o t)[i] : i \in 1 .. Len(s \o t)}
    <2>1. CASE x \in Range(s)
      <3>1. PICK i \in 1 .. Len(s) : x = s[i]
        BY <2>1 DEF Range
      <3>2. i \in 1 .. Len(s \o t)
        BY <1>1
      <3> QED
        BY <1>1, <3>1, <3>2
    <2>2. CASE x \in Range(t)
      <3>1. PICK i \in 1 .. Len(t) : x = t[i]
        BY <2>2 DEF Range
      <3>2. i + Len(s) \in 1 .. Len(s \o t)
        BY <1>1
      <3> QED
        BY <1>1, <3>1, <3>2
    <2> QED
      BY <2>1, <2>2
  <1>3. ASSUME NEW i \in 1 .. Len(s \o t) PROVE (s \o t)[i] \in Range(s) \union Range(t)
    <2>1. CASE i <= Len(s)
      BY <1>1, <2>1 DEF Range
    <2>2. CASE i > Len(s)
      <3>1. i - Len(s) \in 1 .. Len(t) /\ (i - Len(s)) + Len(s) = i
        BY <1>1, <2>2
      <3>2. (s \o t)[i] = t[i - Len(s)]
        BY <1>1, <3>1
      <3> QED
        BY <3>1, <3>2 DEF Range
    <2> QED
      BY <2>1, <2>2
  <1> QED
    BY <1>2, <1>3

\* A list without repetition has a handle it names once.
LEMMA OccursOnce ==
    ASSUME NEW s \in Seq(Nat), \A i, k \in 1 .. Len(s) : s[i] = s[k] => i = k,
           NEW h, \E i \in 1 .. Len(s) : s[i] = h
    PROVE  Cardinality({i \in DOMAIN s : s[i] = h}) = 1
  <1>1. PICK i \in 1 .. Len(s) : s[i] = h
    OBVIOUS
  <1>2. {k \in DOMAIN s : s[k] = h} = {i}
    BY <1>1
  <1> QED
    BY <1>2, FS_Singleton

\* No list has a handle that it does not name.
LEMMA OccursNever ==
    ASSUME NEW s \in Seq(Nat), NEW h, \A i \in 1 .. Len(s) : s[i] # h
    PROVE  Cardinality({i \in DOMAIN s : s[i] = h}) = 0
  <1>1. {k \in DOMAIN s : s[k] = h} = {}
    OBVIOUS
  <1> QED
    BY <1>1, FS_EmptySet

\* A join returns every handle it holds once, and no other.
LEMMA ReturnedOnce ==
    ASSUME TaskInv, NEW j \in Joiners, JoinReturn(j)
    PROVE  /\ given' \in Seq({0, 1}) /\ Len(given') = Len(given)
           /\ jpc[j].out = jpc[j].asked
           /\ \A h \in Handles : given'[h] = IF j \in Holders(h) THEN 1 ELSE given[h]
  <1> USE DEF TaskInv, TaskTypes, JoinPoints, Handles
  <1>1. PICK p \in JoinPoints : p = jpc[j]
    OBVIOUS
  <1>2. p.at = "wait" /\ p.taken = <<>> /\ Ordered(p)
    BY <1>1 DEF JoinReturn, JoinsOrdered
  <1>3. p.out = p.asked
    BY <1>1, <1>2, ConcatEmptySeq DEF Ordered
  <1>4. ASSUME NEW h
        PROVE  /\ (\E i \in 1 .. Len(p.out) : p.out[i] = h) => Cardinality({i \in DOMAIN p.out : p.out[i] = h}) = 1
               /\ (\A i \in 1 .. Len(p.out) : p.out[i] # h) => Cardinality({i \in DOMAIN p.out : p.out[i] = h}) = 0
    <2>1. PICK s \in Seq(Nat) : s = p.out /\ s = p.asked
      BY <1>1, <1>3
    <2>2. \A i, k \in 1 .. Len(s) : s[i] = s[k] => i = k
      <3>1. \A i, k \in 1 .. Len(p.asked) : p.asked[i] = p.asked[k] => i = k
        BY <1>1, <1>2 DEF Ordered
      <3> QED
        BY <2>1, <3>1
    <2>3. ASSUME \E i \in 1 .. Len(s) : s[i] = h PROVE Cardinality({i \in DOMAIN s : s[i] = h}) = 1
      BY <2>2, <2>3, OccursOnce
    <2>4. ASSUME \A i \in 1 .. Len(s) : s[i] # h PROVE Cardinality({i \in DOMAIN s : s[i] = h}) = 0
      BY <2>4, OccursNever
    <2> QED
      BY <2>1, <2>3, <2>4
  <1>5. DOMAIN given = 1 .. Len(task) /\ given = [h \in 1 .. Len(task) |-> given[h]]
    OBVIOUS
  <1>6. given' = [h \in 1 .. Len(task) |-> given[h] + Cardinality({i \in DOMAIN p.out : p.out[i] = h})]
    BY <1>1, <1>5 DEF JoinReturn
  <1>7. \A h \in Handles : j \in Holders(h) <=> \E i \in 1 .. Len(p.out) : p.out[i] = h
    BY <1>1, <1>2, <1>3 DEF Holders
  <1>8. ASSUME NEW h \in Handles PROVE given'[h] = IF j \in Holders(h) THEN 1 ELSE given[h]
    <2>1. given[h] \in {0, 1} /\ (j \in Holders(h) => given[h] = 0)
      BY DEF OnePlace, Unheld
    <2>2. given'[h] = given[h] + Cardinality({i \in DOMAIN p.out : p.out[i] = h})
      BY <1>6
    <2>3. CASE j \in Holders(h)
      <3>1. Cardinality({i \in DOMAIN p.out : p.out[i] = h}) = 1
        BY <1>4, <1>7, <2>3
      <3> QED
        BY <2>1, <2>2, <2>3, <3>1
    <2>4. CASE j \notin Holders(h)
      <3>1. Cardinality({i \in DOMAIN p.out : p.out[i] = h}) = 0
        <4>1. \A i \in 1 .. Len(p.out) : p.out[i] # h
          BY <1>7, <2>4
        <4> QED
          BY <1>4, <4>1
      <3> QED
        BY <2>1, <2>2, <2>4, <3>1
    <2> QED
      BY <2>3, <2>4
  <1>9. ASSUME NEW h \in Handles PROVE given'[h] \in {0, 1}
    <2>1. given[h] \in {0, 1} /\ given'[h] = IF j \in Holders(h) THEN 1 ELSE given[h]
      BY <1>8
    <2> QED
      BY <2>1
  <1>10. given' \in Seq({0, 1}) /\ Len(given') = Len(given)
    <2>1. given' \in [1 .. Len(task) -> {0, 1}] /\ Len(task) \in Nat
      <3>1. DOMAIN given' = 1 .. Len(task) /\ given' = [h \in 1 .. Len(task) |-> given'[h]]
        BY <1>6
      <3> QED
        BY <1>9, <3>1
    <2>2. PICK n \in Nat : n = Len(task)
      BY <2>1
    <2>3. given' \in [1 .. n -> {0, 1}] /\ Len(given) = n
      BY <2>1, <2>2
    <2> QED
      BY <2>3
  <1> QED
    BY <1>1, <1>3, <1>8, <1>10

\* Every step of Tasks keeps the types.
LEMMA TaskTypesStep ==
    ASSUME TaskInv, [TNext]_tvars
    PROVE  TaskTypes'
  <1> USE DEF TaskInv, TaskTypes, Handles, JoinPoints
  <1>1. ASSUME NEW j \in Joiners, Spawn(j) PROVE TaskTypes'
    <2>1. /\ task' \in Seq({"running", "done", "panicked"}) /\ Len(task') = Len(task) + 1
          /\ given' \in Seq({0, 1}) /\ Len(given') = Len(given) + 1
      BY <1>1 DEF Spawn
    <2>2. spawning' \in [Joiners -> Nat] /\ \A k \in Joiners : spawning'[k] <= Len(task')
      BY <1>1, <2>1 DEF Spawn
    <2> QED
      BY <1>1, <2>1, <2>2 DEF Spawn
  <1>2. ASSUME NEW j \in Joiners, SpawnInsert(j) PROVE TaskTypes'
    <2>1. spawning[j] \in 1 .. Len(task)
      BY <1>2 DEF SpawnInsert
    <2>2. parked' \subseteq Handles
      BY <1>2, <2>1 DEF SpawnInsert
    <2>3. spawning' \in [Joiners -> Nat] /\ \A k \in Joiners : spawning'[k] <= Len(task)
      BY <1>2 DEF SpawnInsert
    <2> QED
      BY <1>2, <2>2, <2>3 DEF SpawnInsert
  <1>3. ASSUME NEW j \in Joiners, JoinWait(j) PROVE TaskTypes'
    <2>1. PICK p \in JoinPoints : p = jpc[j]
      OBVIOUS
    <2>2. CASE task[Head(p.taken)] = "done"
      <3>0. p.taken # <<>> /\ p.taken \in Seq(Nat) /\ p.out \in Seq(Nat)
        BY <1>3, <2>1 DEF JoinWait
      <3>1. Tail(p.taken) \in Seq(Nat) /\ Append(p.out, Head(p.taken)) \in Seq(Nat)
        BY <3>0
      <3>2. jpc' = [jpc EXCEPT ![j] = [at |-> p.at, asked |-> p.asked, taken |-> Tail(p.taken),
                                       out |-> Append(p.out, Head(p.taken))]]
        BY <1>3, <2>1, <2>2, SMTT(30) DEF JoinWait
      <3> QED
        <4>1. [at |-> p.at, asked |-> p.asked, taken |-> Tail(p.taken), out |-> Append(p.out, Head(p.taken))]
                \in JoinPoints
          BY <2>1, <3>1
        <4>2. jpc' \in [Joiners -> JoinPoints]
          BY <3>2, <4>1
        <4> QED
          BY <1>3, <2>1, <2>2, <4>2 DEF JoinWait
    <2>3. CASE task[Head(p.taken)] # "done"
      <3>1. /\ jpc' = [jpc EXCEPT ![j] = [JIdle EXCEPT !.at = "panicked", !.asked = p.asked]]
            /\ lost' = lost \union Range(p.taken) \union Range(p.out)
        BY <1>3, <2>1, <2>3 DEF JoinWait
      <3>2. Ordered(p) /\ p.at = "wait" /\ p.taken \in Seq(Nat) /\ p.out \in Seq(Nat)
        BY <1>3, <2>1 DEF JoinWait, JoinsOrdered
      <3>3. Range(p.taken) \union Range(p.out) \subseteq Handles
        <4>1. PICK s, t \in Seq(Nat) : s = p.out /\ t = p.taken
          BY <3>2
        <4>2. p.asked = s \o t /\ \A i \in 1 .. Len(s \o t) : (s \o t)[i] \in Handles
          BY <2>1, <3>2, <4>1 DEF Ordered
        <4>3. Range(s) \union Range(t) = {(s \o t)[i] : i \in 1 .. Len(s \o t)}
          BY <4>1, RangeOfConcat
        <4>4. Range(s) \union Range(t) \subseteq Handles
          BY <4>2, <4>3
        <4> QED
          BY <4>1, <4>4
      <3>4. [JIdle EXCEPT !.at = "panicked", !.asked = p.asked] \in JoinPoints
        BY EmptySeq DEF JIdle
      <3>5. jpc' \in [Joiners -> JoinPoints]
        BY <3>1, <3>4
      <3>6. lost' \subseteq Handles
        BY <3>1, <3>3
      <3> QED
        BY <1>3, <3>5, <3>6 DEF JoinWait
    <2> QED
      BY <2>2, <2>3
  <1>4. ASSUME NEW j \in Joiners, JoinReturn(j) PROVE TaskTypes'
    <2>1. given' \in Seq({0, 1}) /\ Len(given') = Len(given)
      BY <1>4, ReturnedOnce
    <2> QED
      BY <1>4, <2>1 DEF JoinReturn
  <1>5. ASSUME NEW j \in Joiners, JoinAgain(j) PROVE TaskTypes'
    BY <1>5 DEF JoinAgain, JIdle
  <1>6. ASSUME NEW j \in Joiners, NEW hs \in Lists, JoinTake(j, hs) PROVE TaskTypes'
    <2>1. [at |-> "wait", asked |-> hs, taken |-> hs, out |-> <<>>] \in JoinPoints
      BY ListsAreSequences, EmptySeq
    <2>2. jpc' \in [Joiners -> JoinPoints] /\ parked' \subseteq Handles
      BY <1>6, <2>1 DEF JoinTake
    <2> QED
      BY <1>6, <2>2 DEF JoinTake, Joins
  <1>7. ASSUME NEW j \in Joiners, NEW hs \in Lists, JoinMissing(j, hs) PROVE TaskTypes'
    <2>1. [JIdle EXCEPT !.at = "panicked", !.asked = hs] \in JoinPoints
      BY ListsAreSequences, EmptySeq DEF JIdle
    <2>2. hs \in Seq(Nat) /\ \A i \in 1 .. Len(hs) : hs[i] \in Handles
      BY ListsAreSequences
    <2>3. PICK i \in 1 .. Len(hs) :
            /\ parked' = parked \ {hs[k] : k \in 1 .. (i - 1)}
            /\ lost' = lost \union {hs[k] : k \in 1 .. (i - 1)}
      <3>1. DOMAIN hs = 1 .. Len(hs)
        BY <2>2
      <3>2. \E i \in DOMAIN hs : /\ parked' = parked \ {hs[k] : k \in 1 .. (i - 1)}
                                /\ lost' = lost \union {hs[k] : k \in 1 .. (i - 1)}
        BY <1>7, Zenon DEF JoinMissing
      <3> QED
        BY <3>1, <3>2, Zenon
    <2>4. jpc' \in [Joiners -> JoinPoints]
      BY <1>7, <2>1 DEF JoinMissing
    <2>5. {hs[k] : k \in 1 .. (i - 1)} \subseteq Handles
      BY <2>2
    <2>6. parked' \subseteq Handles /\ lost' \subseteq Handles
      BY <2>3, <2>5
    <2> QED
      BY <1>7, <2>4, <2>6 DEF JoinMissing, Joins
  <1>8. ASSUME NEW h \in DOMAIN task, TaskEnd(h) PROVE TaskTypes'
    BY <1>8 DEF TaskEnd
  <1>9. CASE UNCHANGED tvars
    BY <1>9 DEF tvars
  <1> QED
    BY <1>1, <1>2, <1>3, <1>4, <1>5, <1>6, <1>7, <1>8, <1>9 DEF TNext

\* A join stays ordered when no handle is forgotten and no finished task
\* changes its mind.
LEMMA OrderedKept ==
    ASSUME NEW p \in JoinPoints, Ordered(p), Len(task) \in Nat, Len(task') \in Nat, Len(task) <= Len(task'),
           \A h \in Handles : task[h] = "done" => task'[h] = "done"
    PROVE  Ordered(p)'
  <1>1. \A h \in Handles : h \in 1 .. Len(task')
    BY DEF Handles
  <1> QED
    BY <1>1 DEF Ordered, Handles

\* The handle of the next result moves from the handles to come to the end of
\* the answers so far.
LEMMA MoveHead ==
    ASSUME NEW s \in Seq(Nat), NEW t \in Seq(Nat), t # <<>>
    PROVE  Append(s, Head(t)) \o Tail(t) = s \o t
  <1>1. Append(s, Head(t)) \in Seq(Nat) /\ Tail(t) \in Seq(Nat) /\ Len(t) >= 1 /\ Head(t) = t[1]
    BY EmptySeq
  <1>2. PICK a \in Seq(Nat) : a = Append(s, Head(t))
    BY <1>1
  <1>3. PICK u \in Seq(Nat) : u = Tail(t)
    BY <1>1
  <1>4. PICK n \in Nat : n = Len(s)
    OBVIOUS
  <1>5. PICK m \in Nat : m = Len(t) /\ m >= 1
    BY <1>1
  <1>6. Len(a) = n + 1 /\ a[n + 1] = t[1] /\ \A i \in 1 .. n : a[i] = s[i]
    BY <1>1, <1>2, <1>4
  <1>7. Len(u) = m - 1 /\ \A i \in 1 .. (m - 1) : u[i] = t[i + 1]
    BY <1>1, <1>3, <1>5
  <1>8. /\ s \o t \in Seq(Nat) /\ Len(s \o t) = n + m
        /\ \A i \in 1 .. (n + m) : (s \o t)[i] = IF i <= n THEN s[i] ELSE t[i - n]
    BY <1>4, <1>5
  <1>9. /\ a \o u \in Seq(Nat) /\ Len(a \o u) = n + m
        /\ \A i \in 1 .. (n + m) : (a \o u)[i] = IF i <= n + 1 THEN a[i] ELSE u[i - (n + 1)]
    <2>1. /\ a \o u \in Seq(Nat) /\ Len(a \o u) = Len(a) + Len(u)
          /\ \A i \in 1 .. (Len(a) + Len(u)) : (a \o u)[i] = IF i <= Len(a) THEN a[i] ELSE u[i - Len(a)]
      BY <1>2, <1>3
    <2>2. Len(a) + Len(u) = n + m
      BY <1>6, <1>7
    <2> QED
      BY <1>6, <2>1, <2>2
  <1>10. ASSUME NEW i \in 1 .. (n + m) PROVE (a \o u)[i] = (s \o t)[i]
    <2>1. CASE i <= n
      BY <1>4, <1>5, <1>6, <1>8, <1>9, <2>1
    <2>2. CASE i = n + 1
      <3>1. (a \o u)[i] = t[1]
        BY <1>6, <1>9, <2>2
      <3>2. (s \o t)[i] = t[i - n] /\ i - n = 1
        BY <1>8, <2>2
      <3> QED
        BY <3>1, <3>2
    <2>3. CASE i > n + 1
      <3>1. i - (n + 1) \in 1 .. (m - 1) /\ (i - (n + 1)) + 1 = i - n
        BY <2>3
      <3>2. (a \o u)[i] = u[i - (n + 1)] /\ (s \o t)[i] = t[i - n]
        BY <1>4, <1>5, <1>8, <1>9, <2>3
      <3>3. u[i - (n + 1)] = t[i - n]
        BY <1>7, <3>1
      <3> QED
        BY <3>2, <3>3
    <2>4. i <= n \/ i = n + 1 \/ i > n + 1
      <3>1. i \in Nat /\ n \in Nat
        BY <1>4, <1>5
      <3> QED
        BY <3>1
    <2> QED
      BY <2>1, <2>2, <2>3, <2>4
  <1>11. a \o u = s \o t
    BY <1>8, <1>9, <1>10, SeqEqual
  <1> QED
    BY <1>2, <1>3, <1>11

\* Every step of Tasks keeps every join ordered.
LEMMA OrderedStep ==
    ASSUME TaskInv, [TNext]_tvars
    PROVE  JoinsOrdered'
  <1>0. /\ jpc \in [Joiners -> JoinPoints] /\ \A k \in Joiners : Ordered(jpc[k])
        /\ Len(task) \in Nat /\ task \in Seq({"running", "done", "panicked"})
    BY DEF TaskInv, TaskTypes, JoinsOrdered
  <1> DEFINE Still == /\ Len(task') \in Nat /\ Len(task) <= Len(task')
                      /\ \A h \in Handles : task[h] = "done" => task'[h] = "done"
  <1>1. ASSUME Still, jpc' = jpc PROVE JoinsOrdered'
    <2>1. ASSUME NEW k \in Joiners PROVE Ordered(jpc[k])'
      <3>1. PICK p \in JoinPoints : p = jpc'[k] /\ Ordered(p)
        BY <1>0, <1>1
      <3>2. Ordered(p)'
        BY <1>0, <1>1, <3>1, OrderedKept
      <3> QED
        BY <3>1, <3>2 DEF Ordered, Handles
    <2> QED
      BY <2>1 DEF JoinsOrdered
  <1>2. ASSUME task' = task, NEW j \in Joiners, NEW q \in JoinPoints, Ordered(q), jpc' = [jpc EXCEPT ![j] = q]
        PROVE  JoinsOrdered'
    <2>1. Still
      BY <1>0, <1>2
    <2>2. ASSUME NEW k \in Joiners PROVE Ordered(jpc[k])'
      <3>1. PICK p \in JoinPoints : p = jpc'[k] /\ Ordered(p)
        BY <1>0, <1>2
      <3>2. Ordered(p)'
        BY <1>0, <2>1, <3>1, OrderedKept
      <3> QED
        BY <3>1, <3>2 DEF Ordered, Handles
    <2> QED
      BY <2>2 DEF JoinsOrdered
  <1>3. ASSUME NEW j \in Joiners, Spawn(j) PROVE JoinsOrdered'
    <2>1. Still
      BY <1>0, <1>3 DEF Spawn, Handles
    <2> QED
      BY <1>1, <1>3, <2>1 DEF Spawn
  <1>4. ASSUME NEW j \in Joiners, SpawnInsert(j) PROVE JoinsOrdered'
    BY <1>0, <1>1, <1>4 DEF SpawnInsert
  <1>5. ASSUME NEW h \in DOMAIN task, TaskEnd(h) PROVE JoinsOrdered'
    <2>1. Still
      BY <1>0, <1>5 DEF TaskEnd, Handles
    <2> QED
      BY <1>1, <1>5, <2>1 DEF TaskEnd
  <1>6. ASSUME NEW j \in Joiners, NEW hs \in Lists, JoinTake(j, hs) PROVE JoinsOrdered'
    <2> DEFINE q == [at |-> "wait", asked |-> hs, taken |-> hs, out |-> <<>>]
    <2>1. hs \in Seq(Nat) /\ \A i \in 1 .. Len(hs) : hs[i] \in Handles
      BY ListsAreSequences DEF TaskInv
    <2>2. q \in JoinPoints
      BY <2>1, EmptySeq DEF JoinPoints
    <2>3. q.asked = q.out \o q.taken
      BY <2>1, ConcatEmptySeq
    <2>4. \A i, k \in 1 .. Len(hs) : hs[i] = hs[k] => i = k
      <3>1. ASSUME NEW i \in 1 .. Len(hs), NEW k \in 1 .. Len(hs), hs[i] = hs[k], i < k PROVE FALSE
        <4>1. ~Missing(hs, k) /\ i \in 1 .. (k - 1)
          BY <1>6, <2>1, <3>1 DEF JoinTake
        <4> QED
          BY <3>1, <4>1 DEF Missing
      <3> QED
        BY <2>1, <3>1
    <2>5. task' = task /\ jpc' = [jpc EXCEPT ![j] = q]
      BY <1>6 DEF JoinTake, Joins
    <2>6. q.at = "wait" /\ q.asked = hs /\ Len(q.out) = 0
      BY EmptySeq
    <2> HIDE DEF q
    <2>7. Ordered(q)
      BY <2>1, <2>3, <2>4, <2>6 DEF Ordered
    <2> QED
      BY <1>2, <2>2, <2>5, <2>7
  <1>7. ASSUME NEW j \in Joiners, NEW hs \in Lists, JoinMissing(j, hs) PROVE JoinsOrdered'
    <2> DEFINE q == [JIdle EXCEPT !.at = "panicked", !.asked = hs]
    <2>1. q \in JoinPoints /\ q.at = "panicked"
      BY ListsAreSequences, EmptySeq DEF JoinPoints, JIdle, TaskInv
    <2>2. task' = task /\ jpc' = [jpc EXCEPT ![j] = q]
      BY <1>7 DEF JoinMissing, Joins
    <2> HIDE DEF q
    <2>3. Ordered(q)
      BY <2>1 DEF Ordered
    <2> QED
      BY <1>2, <2>1, <2>2, <2>3
  <1>8. ASSUME NEW j \in Joiners, JoinWait(j) PROVE JoinsOrdered'
    <2>1. PICK p \in JoinPoints : p = jpc[j]
      BY <1>0
    <2>2. /\ p.asked \in Seq(Nat) /\ p.taken \in Seq(Nat) /\ p.out \in Seq(Nat)
          /\ p.at = "wait" /\ p.taken # <<>> /\ task' = task
      BY <1>8, <2>1 DEF JoinWait, JoinPoints
    <2>3. /\ p.asked = p.out \o p.taken
          /\ \A i, k \in 1 .. Len(p.asked) : p.asked[i] = p.asked[k] => i = k
          /\ \A i \in 1 .. Len(p.asked) : p.asked[i] \in Handles
          /\ \A i \in 1 .. Len(p.out) : p.out[i] \in Handles /\ task[p.out[i]] = "done"
      BY <1>0, <2>1, <2>2 DEF Ordered
    <2>4. CASE task[Head(p.taken)] = "done"
      <3> DEFINE q == [at |-> "wait", asked |-> p.asked, taken |-> Tail(p.taken), out |-> Append(p.out, Head(p.taken))]
      <3>1. Tail(p.taken) \in Seq(Nat) /\ Append(p.out, Head(p.taken)) \in Seq(Nat)
        BY <2>2
      <3>2. q \in JoinPoints
        BY <2>2, <3>1 DEF JoinPoints
      <3>3. jpc' = [jpc EXCEPT ![j] = q]
        BY <1>0, <1>8, <2>1, <2>2, <2>4 DEF JoinWait, JoinPoints
      <3>4. q.asked = q.out \o q.taken
        BY <2>2, <2>3, MoveHead
      <3>5. \A i \in 1 .. Len(q.out) : q.out[i] \in Handles /\ task[q.out[i]] = "done"
        <4>1. Head(p.taken) \in Handles
          <5>1. PICK s, t \in Seq(Nat) : s = p.out /\ t = p.taken
            BY <2>2
          <5>2. Range(s) \union Range(t) = {(s \o t)[i] : i \in 1 .. Len(s \o t)}
            BY <5>1, RangeOfConcat
          <5>3. \A i \in 1 .. Len(s \o t) : (s \o t)[i] \in Handles
            BY <2>3, <5>1
          <5>4. Head(t) \in Range(t)
            BY <2>2, <5>1, EmptySeq DEF Range
          <5>5. Head(t) \in {(s \o t)[i] : i \in 1 .. Len(s \o t)}
            BY <5>2, <5>4, Zenon
          <5>6. Head(t) \in Handles
            BY <5>3, <5>5, Zenon
          <5> QED
            BY <5>1, <5>6
        <4> QED
          BY <2>2, <2>3, <2>4, <4>1
      <3>6. q.at = "wait" /\ q.asked = p.asked
        OBVIOUS
      <3> HIDE DEF q
      <3>7. Ordered(q)
        BY <2>3, <3>4, <3>5, <3>6 DEF Ordered
      <3> QED
        BY <1>2, <2>2, <3>2, <3>3, <3>7
    <2>5. CASE task[Head(p.taken)] # "done"
      <3> DEFINE q == [JIdle EXCEPT !.at = "panicked", !.asked = p.asked]
      <3>1. q \in JoinPoints /\ q.at = "panicked"
        BY <2>2, EmptySeq DEF JoinPoints, JIdle
      <3>2. jpc' = [jpc EXCEPT ![j] = q]
        BY <1>8, <2>1, <2>5 DEF JoinWait
      <3> HIDE DEF q
      <3>3. Ordered(q)
        BY <3>1 DEF Ordered
      <3> QED
        BY <1>2, <2>2, <3>1, <3>2, <3>3
    <2> QED
      BY <2>4, <2>5
  <1>9. ASSUME NEW j \in Joiners, JoinReturn(j) PROVE JoinsOrdered'
    <2>1. PICK p \in JoinPoints : p = jpc[j]
      BY <1>0
    <2> DEFINE q == [p EXCEPT !.at = "returned"]
    <2>2. /\ q \in JoinPoints /\ q.at = "returned" /\ q.asked = p.asked /\ q.out = p.out
      BY <2>1 DEF JoinPoints
    <2>3. task' = task /\ jpc' = [jpc EXCEPT ![j] = q]
      BY <1>0, <1>9, <2>1 DEF JoinReturn
    <2>4. p.out = p.asked /\ p.at = "wait"
      BY <1>9, <2>1, ReturnedOnce DEF JoinReturn
    <2>5. /\ \A i \in 1 .. Len(p.asked) : p.asked[i] \in Handles
          /\ \A i \in 1 .. Len(p.out) : p.out[i] \in Handles /\ task[p.out[i]] = "done"
      BY <1>0, <2>1, <2>4 DEF Ordered
    <2> HIDE DEF q
    <2>6. Ordered(q)
      BY <2>2, <2>4, <2>5 DEF Ordered
    <2> QED
      BY <1>2, <2>2, <2>3, <2>6
  <1>10. ASSUME NEW j \in Joiners, JoinAgain(j) PROVE JoinsOrdered'
    <2>1. JIdle \in JoinPoints /\ JIdle.at = "idle"
      BY EmptySeq DEF JoinPoints, JIdle
    <2>2. task' = task /\ jpc' = [jpc EXCEPT ![j] = JIdle]
      BY <1>10 DEF JoinAgain
    <2>3. Ordered(JIdle)
      BY <2>1 DEF Ordered
    <2> QED
      BY <1>2, <2>1, <2>2, <2>3
  <1>11. CASE UNCHANGED tvars
    BY <1>0, <1>1, <1>11 DEF tvars
  <1> QED
    BY <1>3, <1>4, <1>5, <1>6, <1>7, <1>8, <1>9, <1>10, <1>11 DEF TNext

\* A handle stays where it is when the step leaves every place as it was.
LEMMA PlaceFrame ==
    ASSUME NEW h, OnePlace(h), Holders(h)' = Holders(h), Spawners(h)' = Spawners(h),
           (h \in parked)' <=> h \in parked, (h \in lost)' <=> h \in lost, given'[h] = given[h]
    PROVE  OnePlace(h)'
  BY DEF OnePlace, Unheld

\* A step that leaves the joins alone leaves the holders alone.
LEMMA HoldersFrame ==
    ASSUME jpc' = jpc, NEW h
    PROVE  Holders(h)' = Holders(h)
  BY DEF Holders

\* A step that leaves the spawns alone leaves the spawners alone.
LEMMA SpawnersFrame ==
    ASSUME spawning' = spawning, NEW h
    PROVE  Spawners(h)' = Spawners(h)
  BY DEF Spawners

\* A join that moves to q changes the holders by itself at most.
LEMMA HoldersMove ==
    ASSUME TaskInv, NEW j \in Joiners, NEW q \in JoinPoints, jpc' = [jpc EXCEPT ![j] = q], NEW h
    PROVE  /\ Holders(h)' \ {j} = Holders(h) \ {j}
           /\ j \in Holders(h)' <=> q.at = "wait" /\ \E i \in 1 .. Len(q.asked) : q.asked[i] = h
  <1>1. jpc \in [Joiners -> JoinPoints]
    BY DEF TaskInv, TaskTypes
  <1>2. jpc'[j] = q /\ \A k \in Joiners : k # j => jpc'[k] = jpc[k]
    BY <1>1
  <1>3. j \in Holders(h)' <=> q.at = "wait" /\ \E i \in 1 .. Len(q.asked) : q.asked[i] = h
    BY <1>2 DEF Holders
  <1>4. \A k \in Joiners : k # j => (k \in Holders(h)' <=> k \in Holders(h))
    BY <1>2 DEF Holders
  <1>5. Holders(h)' \subseteq Joiners /\ Holders(h) \subseteq Joiners
    BY DEF Holders
  <1> QED
    BY <1>3, <1>4, <1>5

\* A join that does not wait, or not for h, does not hold h.
LEMMA HoldersDrop ==
    ASSUME TaskInv, NEW j \in Joiners, NEW q \in JoinPoints, jpc' = [jpc EXCEPT ![j] = q],
           NEW h, q.at = "wait" => \A i \in 1 .. Len(q.asked) : q.asked[i] # h
    PROVE  Holders(h)' = Holders(h) \ {j}
  <1>1. Holders(h)' \ {j} = Holders(h) \ {j}
    BY HoldersMove
  <1>2. j \notin Holders(h)'
    <2>1. j \in Holders(h)' <=> q.at = "wait" /\ \E i \in 1 .. Len(q.asked) : q.asked[i] = h
      BY HoldersMove, ZenonT(60)
    <2> QED
      BY <2>1
  <1> QED
    BY <1>1, <1>2

\* A join that waits for h holds it.
LEMMA HoldersGain ==
    ASSUME TaskInv, NEW j \in Joiners, NEW q \in JoinPoints, jpc' = [jpc EXCEPT ![j] = q],
           NEW h, q.at = "wait", \E i \in 1 .. Len(q.asked) : q.asked[i] = h
    PROVE  Holders(h)' = Holders(h) \union {j}
  <1>1. Holders(h)' \ {j} = Holders(h) \ {j}
    BY HoldersMove
  <1>2. j \in Holders(h)'
    BY HoldersMove, ZenonT(30)
  <1> QED
    BY <1>1, <1>2

\* A new handle is with its spawn, the others stay.
LEMMA PlaceSpawn ==
    ASSUME TaskInv, NEW j \in Joiners, Spawn(j), NEW h \in Handles'
    PROVE  OnePlace(h)'
  <1> USE DEF TaskInv, TaskTypes, Handles
  <1>1. /\ Len(task) \in Nat /\ Len(task') = Len(task) + 1 /\ h \in 1 .. (Len(task) + 1)
        /\ spawning' = [spawning EXCEPT ![j] = Len(task) + 1] /\ spawning[j] = 0
        /\ given' = Append(given, 0) /\ jpc' = jpc /\ parked' = parked /\ lost' = lost
    BY DEF Spawn
  <1>2. Holders(h)' = Holders(h)
    BY <1>1, HoldersFrame
  <1>3. CASE h \in 1 .. Len(task)
    <2>1. Spawners(h)' = Spawners(h)
      BY <1>1, <1>3 DEF Spawners
    <2>2. given'[h] = given[h]
      BY <1>1, <1>3
    <2>3. OnePlace(h)
      BY <1>3
    <2> QED
      BY <1>1, <1>2, <2>1, <2>2, <2>3, PlaceFrame
  <1>4. CASE h = Len(task) + 1
    <2>1. Spawners(h)' = {j}
      BY <1>1, <1>4 DEF Spawners
    <2>2. Holders(h) = {}
      <3>1. \A k \in Joiners : jpc[k].at = "wait" =>
              \A i \in 1 .. Len(jpc[k].asked) : jpc[k].asked[i] \in 1 .. Len(task)
        BY DEF JoinsOrdered, Ordered
      <3> QED
        BY <1>1, <1>4, <3>1 DEF Holders
    <2>3. h \notin parked /\ h \notin lost
      BY <1>1, <1>4
    <2>4. given'[h] = 0
      BY <1>1, <1>4
    <2> QED
      BY <1>1, <1>2, <2>1, <2>2, <2>3, <2>4 DEF OnePlace
  <1> QED
    BY <1>1, <1>3, <1>4

\* The handle of a spawn goes into the table.
LEMMA PlaceInsert ==
    ASSUME TaskInv, NEW j \in Joiners, SpawnInsert(j), NEW h \in Handles'
    PROVE  OnePlace(h)'
  <1> USE DEF TaskInv, TaskTypes, Handles
  <1>1. /\ h \in 1 .. Len(task) /\ spawning[j] # 0 /\ spawning' = [spawning EXCEPT ![j] = 0]
        /\ given' = given /\ jpc' = jpc /\ parked' = parked \union {spawning[j]} /\ lost' = lost
    BY DEF SpawnInsert
  <1>2. Holders(h)' = Holders(h) /\ OnePlace(h)
    BY <1>1, HoldersFrame
  <1>3. Spawners(h)' = Spawners(h) \ {j}
    BY <1>1 DEF Spawners
  <1>4. CASE h = spawning[j]
    <2>1. j \in Spawners(h)
      BY <1>4 DEF Spawners
    <2>2. Spawners(h) = {j} /\ Holders(h) = {} /\ h \notin lost /\ given[h] = 0
      BY <1>2, <2>1 DEF OnePlace, Unheld
    <2> QED
      BY <1>1, <1>2, <1>3, <1>4, <2>2 DEF OnePlace, Unheld
  <1>5. CASE h # spawning[j]
    <2>1. Spawners(h)' = Spawners(h)
      BY <1>3, <1>5 DEF Spawners
    <2> QED
      BY <1>1, <1>2, <1>5, <2>1, PlaceFrame
  <1> QED
    BY <1>4, <1>5

\* A join takes its handles out of the table.
LEMMA PlaceTake ==
    ASSUME TaskInv, NEW j \in Joiners, NEW hs \in Lists, JoinTake(j, hs), NEW h \in Handles'
    PROVE  OnePlace(h)'
  <1> DEFINE q == [at |-> "wait", asked |-> hs, taken |-> hs, out |-> <<>>]
  <1>1. hs \in Seq(Nat)
    BY ListsAreSequences DEF TaskInv
  <1>2. q \in JoinPoints /\ q.at = "wait" /\ q.asked = hs
    BY <1>1, EmptySeq DEF JoinPoints
  <1>3. /\ task' = task /\ spawning' = spawning /\ given' = given /\ lost' = lost
        /\ jpc' = [jpc EXCEPT ![j] = q] /\ parked' = parked \ Range(hs) /\ jpc[j].at = "idle"
    BY DEF JoinTake, Joins
  <1> HIDE DEF q
  <1>4. h \in Handles /\ OnePlace(h) /\ Spawners(h)' = Spawners(h)
    BY <1>3, SpawnersFrame DEF Handles, TaskInv
  <1>5. j \notin Holders(h)
    BY <1>3 DEF Holders
  <1>6. CASE \E i \in 1 .. Len(hs) : hs[i] = h
    <2>1. Holders(h)' = Holders(h) \union {j}
      <3>1. \E i \in 1 .. Len(q.asked) : q.asked[i] = h
        BY <1>2, <1>6
      <3> QED
        BY <1>2, <1>3, <3>1, HoldersGain
    <2>2. h \in parked
      BY <1>1, <1>6 DEF JoinTake, Missing
    <2>3. h \notin parked'
      BY <1>1, <1>3, <1>6 DEF Range
    <2>4. Holders(h) = {} /\ Spawners(h) = {} /\ h \notin lost /\ given[h] = 0
      BY <1>4, <2>2 DEF OnePlace, Unheld
    <2>5. Holders(h)' = {j}
      BY <2>1, <2>4
    <2> QED
      BY <1>3, <1>4, <2>3, <2>4, <2>5 DEF OnePlace
  <1>7. CASE ~ \E i \in 1 .. Len(hs) : hs[i] = h
    <2>1. Holders(h)' = Holders(h)
      <3>1. \A i \in 1 .. Len(q.asked) : q.asked[i] # h
        BY <1>2, <1>7
      <3>2. Holders(h)' = Holders(h) \ {j}
        BY <1>2, <1>3, <3>1, HoldersDrop
      <3> QED
        BY <1>5, <3>2
    <2>2. h \in parked' <=> h \in parked
      BY <1>1, <1>3, <1>7 DEF Range
    <2> QED
      BY <1>3, <1>4, <2>1, <2>2, PlaceFrame
  <1> QED
    BY <1>6, <1>7

\* A join that meets a missing handle drops the ones it had taken.
LEMMA PlaceMissing ==
    ASSUME TaskInv, NEW j \in Joiners, NEW hs \in Lists, JoinMissing(j, hs), NEW h \in Handles'
    PROVE  OnePlace(h)'
  <1> DEFINE q == [JIdle EXCEPT !.at = "panicked", !.asked = hs]
  <1>1. hs \in Seq(Nat)
    BY ListsAreSequences DEF TaskInv
  <1>2. q \in JoinPoints /\ q.at = "panicked"
    BY <1>1, EmptySeq DEF JoinPoints, JIdle
  <1>3. /\ task' = task /\ spawning' = spawning /\ given' = given
        /\ jpc' = [jpc EXCEPT ![j] = q] /\ jpc[j].at = "idle"
    BY DEF JoinMissing, Joins
  <1> HIDE DEF q
  <1>4. h \in Handles /\ OnePlace(h) /\ Spawners(h)' = Spawners(h)
    BY <1>3, SpawnersFrame DEF Handles, TaskInv
  <1>5. Holders(h)' = Holders(h)
    <2>1. j \notin Holders(h)
      BY <1>3 DEF Holders
    <2>2. Holders(h)' = Holders(h) \ {j}
      BY <1>2, <1>3, HoldersDrop
    <2> QED
      BY <2>1, <2>2
  <1>6. PICK i \in DOMAIN hs : /\ parked' = parked \ {hs[k] : k \in 1 .. (i - 1)}
                              /\ lost' = lost \union {hs[k] : k \in 1 .. (i - 1)}
                              /\ \A k \in 1 .. (i - 1) : ~Missing(hs, k)
    BY Zenon DEF JoinMissing
  <1>7. \A k \in 1 .. (i - 1) : hs[k] \in parked
    BY <1>6 DEF Missing
  <1>8. CASE h \in {hs[k] : k \in 1 .. (i - 1)}
    <2>1. h \in parked
      BY <1>7, <1>8
    <2>2. h \notin parked' /\ h \in lost'
      BY <1>6, <1>8
    <2>3. Unheld(h) /\ given[h] = 0
      BY <1>4, <2>1 DEF OnePlace, Unheld
    <2> QED
      BY <1>3, <1>4, <1>5, <2>2, <2>3 DEF OnePlace, Unheld
  <1>9. CASE h \notin {hs[k] : k \in 1 .. (i - 1)}
    <2>1. (h \in parked' <=> h \in parked) /\ (h \in lost' <=> h \in lost)
      BY <1>6, <1>9
    <2> QED
      BY <1>3, <1>4, <1>5, <2>1, PlaceFrame
  <1> QED
    BY <1>8, <1>9

\* A join that goes on holds what it held; one that panics drops it.
LEMMA PlaceWait ==
    ASSUME TaskInv, NEW j \in Joiners, JoinWait(j), NEW h \in Handles'
    PROVE  OnePlace(h)'
  <1>1. PICK p \in JoinPoints : p = jpc[j]
    BY DEF TaskInv, TaskTypes
  <1>2. /\ task' = task /\ spawning' = spawning /\ given' = given /\ parked' = parked
        /\ p.at = "wait" /\ p.taken # <<>> /\ Ordered(p)
        /\ p.asked \in Seq(Nat) /\ p.taken \in Seq(Nat) /\ p.out \in Seq(Nat)
    BY <1>1 DEF JoinWait, TaskInv, JoinsOrdered, JoinPoints
  <1>3. h \in Handles /\ OnePlace(h) /\ Spawners(h)' = Spawners(h)
    BY <1>2, SpawnersFrame DEF Handles, TaskInv
  <1>4. j \in Holders(h) <=> \E i \in 1 .. Len(p.asked) : p.asked[i] = h
    BY <1>1, <1>2 DEF Holders
  <1>5. CASE task[Head(p.taken)] = "done"
    <2> DEFINE q == [at |-> "wait", asked |-> p.asked, taken |-> Tail(p.taken), out |-> Append(p.out, Head(p.taken))]
    <2>1. Tail(p.taken) \in Seq(Nat) /\ Append(p.out, Head(p.taken)) \in Seq(Nat)
      BY <1>2
    <2>2. q \in JoinPoints /\ q.at = "wait" /\ q.asked = p.asked
      BY <1>2, <2>1 DEF JoinPoints
    <2>3. jpc' = [jpc EXCEPT ![j] = q] /\ lost' = lost
      BY <1>1, <1>2, <1>5 DEF JoinWait, JoinPoints, TaskInv, TaskTypes
    <2> HIDE DEF q
    <2>4. CASE j \in Holders(h)
      <3>1. \E i \in 1 .. Len(q.asked) : q.asked[i] = h
        BY <1>4, <2>2, <2>4
      <3>2. Holders(h)' = Holders(h) \union {j}
        BY <2>2, <2>3, <3>1, HoldersGain
      <3>3. Holders(h)' = Holders(h)
        BY <2>4, <3>2
      <3> QED
        BY <1>2, <1>3, <2>3, <3>3, PlaceFrame
    <2>5. CASE j \notin Holders(h)
      <3>1. \A i \in 1 .. Len(q.asked) : q.asked[i] # h
        BY <1>4, <2>2, <2>5
      <3>2. Holders(h)' = Holders(h) \ {j}
        BY <2>2, <2>3, <3>1, HoldersDrop
      <3>3. Holders(h)' = Holders(h)
        BY <2>5, <3>2
      <3> QED
        BY <1>2, <1>3, <2>3, <3>3, PlaceFrame
    <2> QED
      BY <2>4, <2>5
  <1>6. CASE task[Head(p.taken)] # "done"
    <2> DEFINE q == [JIdle EXCEPT !.at = "panicked", !.asked = p.asked]
    <2>1. q \in JoinPoints /\ q.at = "panicked"
      BY <1>2, EmptySeq DEF JoinPoints, JIdle
    <2>2. jpc' = [jpc EXCEPT ![j] = q] /\ lost' = lost \union Range(p.taken) \union Range(p.out)
      BY <1>1, <1>6 DEF JoinWait
    <2> HIDE DEF q
    <2>3. Holders(h)' = Holders(h) \ {j}
      BY <2>1, <2>2, HoldersDrop
    <2>4. h \in lost' <=> h \in lost \/ j \in Holders(h)
      <3>1. PICK s, t \in Seq(Nat) : s = p.out /\ t = p.taken
        BY <1>2
      <3>2. p.asked = s \o t
        BY <1>2, <3>1 DEF Ordered
      <3>3. Range(s) \union Range(t) = {(s \o t)[i] : i \in 1 .. Len(s \o t)}
        BY <3>1, RangeOfConcat
      <3>4. j \in Holders(h) <=> h \in Range(s) \union Range(t)
        BY <1>4, <3>2, <3>3
      <3> QED
        BY <2>2, <3>1, <3>4
    <2>5. CASE j \in Holders(h)
      <3>1. Holders(h) = {j} /\ Spawners(h) = {} /\ h \notin parked /\ given[h] = 0
        BY <1>3, <2>5 DEF OnePlace, Unheld
      <3>2. Holders(h)' = {} /\ h \in lost'
        BY <2>3, <2>4, <2>5, <3>1
      <3> QED
        BY <1>2, <1>3, <3>1, <3>2 DEF OnePlace, Unheld
    <2>6. CASE j \notin Holders(h)
      <3>1. Holders(h)' = Holders(h) /\ (h \in lost' <=> h \in lost)
        BY <2>3, <2>4, <2>6
      <3> QED
        BY <1>2, <1>3, <3>1, PlaceFrame
    <2> QED
      BY <2>5, <2>6
  <1> QED
    BY <1>5, <1>6

\* A join returns what it held.
LEMMA PlaceReturn ==
    ASSUME TaskInv, NEW j \in Joiners, JoinReturn(j), NEW h \in Handles'
    PROVE  OnePlace(h)'
  <1>1. PICK p \in JoinPoints : p = jpc[j]
    BY DEF TaskInv, TaskTypes
  <1> DEFINE q == [p EXCEPT !.at = "returned"]
  <1>2. q \in JoinPoints /\ q.at = "returned"
    BY <1>1 DEF JoinPoints
  <1>3. /\ task' = task /\ spawning' = spawning /\ parked' = parked /\ lost' = lost
        /\ jpc' = [jpc EXCEPT ![j] = q]
    BY <1>1 DEF JoinReturn, TaskInv, TaskTypes
  <1> HIDE DEF q
  <1>4. h \in Handles /\ OnePlace(h) /\ Spawners(h)' = Spawners(h)
    BY <1>3, SpawnersFrame DEF Handles, TaskInv
  <1>5. Holders(h)' = Holders(h) \ {j}
    BY <1>2, <1>3, HoldersDrop
  <1>6. given'[h] = IF j \in Holders(h) THEN 1 ELSE given[h]
    BY <1>4, ReturnedOnce
  <1>7. CASE j \in Holders(h)
    <2>1. Holders(h) = {j} /\ Spawners(h) = {} /\ h \notin parked /\ h \notin lost
      BY <1>4, <1>7 DEF OnePlace, Unheld
    <2>2. Holders(h)' = {} /\ given'[h] = 1
      BY <1>5, <1>6, <1>7, <2>1
    <2> QED
      BY <1>3, <1>4, <2>1, <2>2 DEF OnePlace, Unheld
  <1>8. CASE j \notin Holders(h)
    <2>1. Holders(h)' = Holders(h) /\ given'[h] = given[h]
      BY <1>5, <1>6, <1>8
    <2> QED
      BY <1>3, <1>4, <2>1, PlaceFrame
  <1> QED
    BY <1>7, <1>8

\* The steps that move no handle.
LEMMA PlaceRest ==
    ASSUME TaskInv, NEW h \in Handles',
           \/ \E j \in Joiners : JoinAgain(j)
           \/ \E k \in DOMAIN task : TaskEnd(k)
           \/ UNCHANGED tvars
    PROVE  OnePlace(h)'
  <1>1. /\ parked' = parked /\ spawning' = spawning /\ given' = given /\ lost' = lost
        /\ Len(task') = Len(task)
    BY DEF JoinAgain, TaskEnd, tvars, TaskInv, TaskTypes
  <1>2. h \in Handles /\ OnePlace(h) /\ Spawners(h)' = Spawners(h)
    BY <1>1, SpawnersFrame DEF Handles, TaskInv
  <1>3. Holders(h)' = Holders(h)
    <2>1. ASSUME NEW j \in Joiners, JoinAgain(j) PROVE Holders(h)' = Holders(h)
      <3>1. JIdle \in JoinPoints /\ JIdle.at = "idle"
        BY EmptySeq DEF JoinPoints, JIdle
      <3>2. Holders(h)' = Holders(h) \ {j}
        BY <2>1, <3>1, HoldersDrop DEF JoinAgain
      <3>3. j \notin Holders(h)
        BY <2>1 DEF JoinAgain, Holders
      <3> QED
        BY <3>2, <3>3
    <2>2. ASSUME jpc' = jpc PROVE Holders(h)' = Holders(h)
      BY <2>2, HoldersFrame
    <2> QED
      BY <2>1, <2>2 DEF TaskEnd, tvars
  <1> QED
    BY <1>1, <1>2, <1>3, PlaceFrame

\* Every step of Tasks keeps every handle in one place.
LEMMA PlaceStep ==
    ASSUME TaskInv, [TNext]_tvars
    PROVE  (\A h \in Handles : OnePlace(h))'
  <1> SUFFICES ASSUME NEW h \in Handles' PROVE OnePlace(h)'
    OBVIOUS
  <1>1. ASSUME NEW j \in Joiners, NEW hs \in Lists, JoinTake(j, hs) \/ JoinMissing(j, hs) PROVE OnePlace(h)'
    BY <1>1, PlaceTake, PlaceMissing
  <1>2. ASSUME NEW j \in Joiners, Spawn(j) \/ SpawnInsert(j) PROVE OnePlace(h)'
    BY <1>2, PlaceSpawn, PlaceInsert
  <1>3. ASSUME NEW j \in Joiners, JoinWait(j) \/ JoinReturn(j) \/ JoinAgain(j) PROVE OnePlace(h)'
    BY <1>3, PlaceWait, PlaceReturn, PlaceRest
  <1>4. ASSUME NEW k \in DOMAIN task, TaskEnd(k) PROVE OnePlace(h)'
    BY <1>4, PlaceRest
  <1>5. CASE UNCHANGED tvars
    BY <1>5, PlaceRest
  <1> QED
    BY <1>1, <1>2, <1>3, <1>4, <1>5 DEF TNext

\* Nothing is spawned at first.
LEMMA TaskInit ==
    ASSUME TInit
    PROVE  TaskInv
  <1>1. task = <<>> /\ given = <<>> /\ Len(task) = 0 /\ Len(given) = 0
    BY EmptySeq DEF TInit
  <1>2. JIdle \in JoinPoints /\ JIdle.at = "idle"
    BY EmptySeq DEF JoinPoints, JIdle
  <1>3. TaskTypes
    BY <1>1, <1>2, EmptySeq DEF TInit, TaskTypes, Handles
  <1>4. JoinsOrdered
    BY <1>2 DEF TInit, JoinsOrdered, Ordered
  <1>5. \A h \in Handles : OnePlace(h)
    BY <1>1 DEF Handles
  <1> QED
    BY <1>3, <1>4, <1>5 DEF TaskInv

\* The inductive invariant answers for exactness: the places of the property
\* are the ones the invariant tells apart, counted.
LEMMA ExactFromInv ==
    ASSUME TaskInv
    PROVE  JoinIsExact
  <1>1. ASSUME NEW j \in Joiners, jpc[j].at = "returned"
        PROVE  jpc[j].out = jpc[j].asked /\ \A i \in DOMAIN jpc[j].out : task[jpc[j].out[i]] = "done"
    <2>1. Ordered(jpc[j]) /\ jpc[j].out \in Seq(Nat)
      BY DEF TaskInv, TaskTypes, JoinsOrdered, JoinPoints
    <2> QED
      BY <1>1, <2>1 DEF Ordered
  <1>2. ASSUME NEW h \in Handles
        PROVE  {j \in Joiners : jpc[j].at = "wait" /\ h \in Range(jpc[j].taken) \union Range(jpc[j].out)} = Holders(h)
    <2>1. ASSUME NEW j \in Joiners, jpc[j].at = "wait"
          PROVE  h \in Range(jpc[j].taken) \union Range(jpc[j].out)
                   <=> \E i \in 1 .. Len(jpc[j].asked) : jpc[j].asked[i] = h
      <3>1. /\ jpc[j].out \in Seq(Nat) /\ jpc[j].taken \in Seq(Nat)
            /\ jpc[j].asked = jpc[j].out \o jpc[j].taken
        BY <2>1 DEF TaskInv, TaskTypes, JoinsOrdered, JoinPoints, Ordered
      <3>2. PICK s, t \in Seq(Nat) : s = jpc[j].out /\ t = jpc[j].taken /\ jpc[j].asked = s \o t
        BY <3>1
      <3>3. Range(s) \union Range(t) = {(s \o t)[i] : i \in 1 .. Len(s \o t)}
        BY <3>2, RangeOfConcat
      <3>4. h \in Range(s) \union Range(t) <=> \E i \in 1 .. Len(s \o t) : (s \o t)[i] = h
        BY <3>3
      <3> QED
        BY <3>2, <3>4
    <2> QED
      BY <2>1 DEF Holders
  <1>3. ASSUME NEW h \in Handles
        PROVE  Cardinality(Holders(h)) + Cardinality(Spawners(h)) + given[h]
                 + (IF h \in parked THEN 1 ELSE 0) + (IF h \in lost THEN 1 ELSE 0) = 1
    <2>1. Cardinality({}) = 0 /\ \A x : Cardinality({x}) = 1
      BY FS_EmptySet, FS_Singleton
    <2>2. OnePlace(h)
      BY DEF TaskInv
    <2>3. CASE \E j \in Joiners : Holders(h) = {j}
      <3>1. /\ Cardinality(Holders(h)) = 1 /\ Holders(h) # {}
        BY <2>1, <2>3
      <3>2. Cardinality(Spawners(h)) = 0 /\ h \notin parked /\ h \notin lost /\ given[h] = 0
        BY <2>1, <2>2, <3>1 DEF OnePlace, Unheld
      <3> QED
        BY <3>1, <3>2
    <2>4. CASE \E j \in Joiners : Spawners(h) = {j}
      <3>1. /\ Cardinality(Spawners(h)) = 1 /\ Spawners(h) # {}
        BY <2>1, <2>4
      <3>2. Cardinality(Holders(h)) = 0 /\ h \notin parked /\ h \notin lost /\ given[h] = 0
        BY <2>1, <2>2, <3>1 DEF OnePlace, Unheld
      <3> QED
        BY <3>1, <3>2
    <2>5. CASE Unheld(h)
      BY <2>1, <2>2, <2>5 DEF OnePlace, Unheld
    <2> QED
      BY <2>2, <2>3, <2>4, <2>5 DEF OnePlace
  <1>4. DOMAIN task = Handles
    BY DEF TaskInv, TaskTypes, Handles
  <1> QED
    BY <1>1, <1>2, <1>3, <1>4 DEF JoinIsExact, Spawners

\* In every behaviour of spawns and joins, for any number of joiners, tasks and
\* listed handles, the inductive invariant holds.
THEOREM TaskInvariant == TSpec => []TaskInv
  <1>1. TInit => TaskInv
    BY TaskInit
  <1>2. TaskInv /\ [TNext]_tvars => TaskInv'
    <2> SUFFICES ASSUME TaskInv, [TNext]_tvars PROVE TaskInv'
      OBVIOUS
    <2>1. TaskTypes' /\ JoinsOrdered' /\ (\A h \in Handles : OnePlace(h))'
      BY TaskTypesStep, OrderedStep, PlaceStep
    <2> QED
      BY <2>1 DEF TaskInv
  <1> QED
    BY <1>1, <1>2, PTL DEF TSpec

\* In every behaviour of spawns and joins, for any number of joiners, tasks and
\* listed handles, joins are exact: a handle is in the table, with one join,
\* returned once or dropped by a panic, and a join that returns gives the
\* finished results of exactly the handles asked for, in that order.
THEOREM JoinsExact == TSpec => []JoinIsExact
  <1>1. TaskInv => JoinIsExact
    BY ExactFromInv
  <1> QED
    BY <1>1, TaskInvariant, PTL
-----------------------------------------------------------------------------
(* The pool of workers *)

\* Workers that serve a connection.
Serving == {w \in Workers : accepted[w] # NoSock}
Busy(w) == spc[w].at \in {"read", "write", "close"}

\* The inductive invariant of the pool, in named parts.

\* Workers out of service.
Stopped(w) == spc[w].at \in {"faulted", "out"}

WorkerStates == [at : {"start", "accept", "read", "write", "close", "faulted", "out"}, lh : Int, h : Int, rows : 0 .. Rows]

\* A worker has a connection between accept and close, under a positive
\* handle, or it has met an error; one in service stands on the one listener
\* from its first step on.
WellPlaced(w) ==
    /\ Busy(w) => accepted[w] # NoSock
    /\ accepted[w] # NoSock => (Busy(w) \/ Stopped(w)) /\ spc[w].h > 0 /\ listeners # NoSock
    /\ Stopped(w) => w \in erred
    /\ spc[w].at # "start" /\ ~Stopped(w) => listeners # NoSock /\ spc[w].lh = listeners

WorkersPlaced ==
    /\ shared \in BOOLEAN /\ counter \in Nat \ {0} /\ tlNext \in [Workers -> Nat \ {0}]
    /\ spc \in [Workers -> WorkerStates] /\ listeners \in Int \union {NoSock}
    /\ accepted \in [Workers -> Clients \union {NoSock}]
    /\ \A w \in Workers : WellPlaced(w)

\* Without sharing, a worker's table holds its one connection and the registry
\* the listener under a negative handle.
OwnTables ==
    /\ DOMAIN tl = Workers /\ tl = [w \in Workers |-> tl[w]]
    /\ \A w \in Workers : tl[w] = IF accepted[w] = NoSock THEN << >> ELSE [h \in {spc[w].h} |-> accepted[w]]
    /\ conns = [h \in (IF listeners = NoSock THEN {} ELSE {listeners}) |-> "listener"]
    /\ listeners # NoSock => listeners < 0

\* With sharing, the registry holds the listener and the connections, under
\* handles that differ.
OneTable ==
    /\ tl = [w \in Workers |-> << >>]
    /\ conns = [h \in DOMAIN conns |-> conns[h]]
    /\ DOMAIN conns = {spc[w].h : w \in Serving} \union {h \in {listeners} : h # NoSock}
    /\ \A w \in Serving : conns[spc[w].h] = accepted[w] /\ spc[w].h < counter
    /\ \A w, x \in Serving : w # x => spc[w].h # spc[x].h
    /\ listeners # NoSock => conns[listeners] = "listener" /\ listeners < counter

TablesExact == IF shared THEN OneTable ELSE OwnTables

\* Every connection is served by one worker, until that worker closes it.
ConnsServed ==
    /\ conn \in [Clients -> {"none", "backlog", "open", "gone", "closed"}]
    /\ \A w, x \in Serving : w # x => accepted[w] # accepted[x]
    /\ \A w \in Serving : conn[accepted[w]] \in {"open", "gone"}
    /\ \A c \in Clients : conn[c] = "open" => \E w \in Serving : accepted[w] = c

\* The frames of n whole answers.
Whole(n) == (Rows + 1) * n

\* What reached a client is whole answers, and of the one under way the rows
\* that the worker has no longer to write.
AnswersInOrder ==
    /\ inbox \in [Clients -> Nat] /\ sent \in [Clients -> Nat] /\ got \in [Clients -> Seq(0 .. Rows)]
    /\ \A c \in Clients :
        /\ inbox[c] <= sent[c] /\ Len(got[c]) <= Whole(sent[c])
        /\ \A i \in 1 .. Len(got[c]) : got[c][i] = Rows - ((i - 1) % (Rows + 1))
        /\ conn[c] \in {"none", "backlog"} => got[c] = << >> /\ inbox[c] = sent[c]
    /\ \A w \in Serving : Busy(w) /\ conn[accepted[w]] = "open" =>
        LET c == accepted[w]
        IN  IF spc[w].at = "write"
            THEN inbox[c] < sent[c] /\ Len(got[c]) = Whole(sent[c] - inbox[c] - 1) + (Rows - spc[w].rows)
            ELSE Len(got[c]) = Whole(sent[c] - inbox[c])

PoolInv == WorkersPlaced /\ TablesExact /\ ConnsServed /\ AnswersInOrder

\* Tables of one handle.
LEMMA OneHandle ==
    ASSUME NEW k, NEW v
    PROVE  /\ Put(<< >>, k, v) = [j \in {k} |-> v]
           /\ Without([j \in {k} |-> v], k) = << >>
           /\ [j \in {k} |-> v] # << >>
<1>1. DOMAIN << >> = {}
    OBVIOUS
<1>2. Put(<< >>, k, v) = [j \in {k} |-> v]
    BY <1>1 DEF Put
<1>3. Without([j \in {k} |-> v], k) = << >>
  <2>1. DOMAIN [j \in {k} |-> v] \ {k} = {}
    OBVIOUS
  <2>2. PICK f : f = Without([j \in {k} |-> v], k)
    OBVIOUS
  <2>3. f = [j \in {} |-> [i \in {k} |-> v][j]]
    BY <2>1, <2>2 DEF Without
  <2>4. f = << >>
    BY <2>3
  <2>. QED BY <2>2, <2>4
<1>4. [j \in {k} |-> v] # << >>
  <2>1. k \in DOMAIN [j \in {k} |-> v]
    OBVIOUS
  <2>. QED BY <1>1, <2>1
<1>. QED
    BY <1>2, <1>3, <1>4

\* Multiples of an answer's length.
LEMMA WholeAnswers ==
    ASSUME PoolAssumption, NEW n \in Nat
    PROVE  /\ Whole(n) \in Nat /\ Whole(0) = 0
           /\ Whole(n + 1) = Whole(n) + Rows + 1
           /\ \A k \in 0 .. Rows : (Whole(n) + k) % (Rows + 1) = k
<1>1. Rows \in Nat /\ Rows + 1 \in Nat \ {0}
    BY DEF PoolAssumption
<1>2. Whole(n) \in Nat /\ Whole(0) = 0 /\ Whole(n + 1) = Whole(n) + Rows + 1
    BY <1>1 DEF Whole
<1>3. ASSUME NEW k \in 0 .. Rows PROVE (Whole(n) + k) % (Rows + 1) = k
  <2>1. PICK d : d = Rows + 1
    OBVIOUS
  <2>2. d \in Nat \ {0} /\ k \in 0 .. d - 1
    BY <1>1, <2>1
  <2>3. (d * n + k) % d = k
    BY <2>2
  <2>. QED BY <2>1, <2>3 DEF Whole
<1>. QED
    BY <1>2, <1>3

\* More requests leave room for more frames.
LEMMA WholeGrows ==
    ASSUME PoolAssumption, NEW m \in Nat, NEW n \in Nat, m <= n
    PROVE  Whole(m) <= Whole(n)
<1>1. Rows \in Nat
    BY DEF PoolAssumption
<1>2. PICK d \in Nat : n = m + d
  <2>1. n - m \in Nat /\ n = m + (n - m)
    OBVIOUS
  <2>. QED BY <2>1
<1>3. (Rows + 1) * (m + d) = (Rows + 1) * m + (Rows + 1) * d
    BY <1>1
<1>4. (Rows + 1) * d \in Nat /\ (Rows + 1) * m \in Nat
    BY <1>1
<1>. QED
    BY <1>2, <1>3, <1>4 DEF Whole

\* The handle a worker holds is the connection it accepted, in whichever table
\* get_sock looks.
LEMMA SocketIs ==
    ASSUME PoolInv, NEW w \in Workers, Busy(w)
    PROVE  Knows(w, spc[w].h) /\ get_sock(w, spc[w].h) = accepted[w] /\ accepted[w] \in Clients
<1>1. spc[w].h > 0 /\ w \in Serving /\ accepted[w] \in Clients /\ accepted[w] # NoSock
    BY DEF PoolInv, WorkersPlaced, WellPlaced, Serving
<1>2. CASE shared
  <2>1. spc[w].h \in DOMAIN conns /\ conns[spc[w].h] = accepted[w]
    BY <1>1, <1>2 DEF PoolInv, TablesExact, OneTable
  <2>. QED BY <1>1, <1>2, <2>1 DEF Knows, Table, get_sock
<1>3. CASE ~shared
  <2>1. tl[w] = [h \in {spc[w].h} |-> accepted[w]]
    BY <1>1, <1>3 DEF PoolInv, TablesExact, OwnTables
  <2>. QED BY <1>1, <1>3, <2>1 DEF Knows, Table, get_sock
<1>. QED
    BY <1>2, <1>3 DEF PoolInv, WorkersPlaced

\* Serving workers do not change while accepted stays.
LEMMA TablesRest ==
    ASSUME PoolInv, UNCHANGED <<shared, conns, counter, tl, listeners, accepted>>,
           \A w \in Workers : spc'[w].h = spc[w].h
    PROVE  TablesExact'
<1>1. Serving' = Serving
    BY DEF Serving
<1>2. CASE shared
  <2>1. {spc'[w].h : w \in Serving'} = {spc[w].h : w \in Serving}
    BY <1>1 DEF Serving
  <2>2. OneTable
    BY <1>2 DEF PoolInv, TablesExact
  <2>3. OneTable'
    BY <1>1, <2>1, <2>2 DEF OneTable, Serving
  <2>. QED BY <1>2, <2>3 DEF TablesExact
<1>3. CASE ~shared
  <2>1. OwnTables
    BY <1>3 DEF PoolInv, TablesExact
  <2>2. ASSUME NEW w \in Workers
        PROVE  tl'[w] = IF accepted'[w] = NoSock THEN << >> ELSE [h \in {spc'[w].h} |-> accepted'[w]]
    <3>1. tl[w] = IF accepted[w] = NoSock THEN << >> ELSE [h \in {spc[w].h} |-> accepted[w]]
      BY <2>1 DEF OwnTables
    <3>2. spc'[w].h = spc[w].h /\ tl' = tl /\ accepted' = accepted
      OBVIOUS
    <3>. QED BY <3>1, <3>2
  <2>3. /\ DOMAIN tl' = Workers /\ tl' = [w \in Workers |-> tl'[w]]
        /\ conns' = [h \in (IF listeners' = NoSock THEN {} ELSE {listeners'}) |-> "listener"]
        /\ listeners' # NoSock => listeners' < 0
    BY <2>1 DEF OwnTables
  <2>4. OwnTables'
    BY <2>2, <2>3 DEF OwnTables
  <2>. QED BY <1>3, <2>4 DEF TablesExact
<1>. QED
    BY <1>2, <1>3 DEF PoolInv, WorkersPlaced

\* The pool starts without sockets.
LEMMA PoolInit == ASSUME PoolAssumption, SInit PROVE PoolInv
<1>1. /\ accepted = [w \in Workers |-> NoSock] /\ Serving = {}
      /\ spc = [w \in Workers |-> [at |-> "start", lh |-> 0, h |-> 0, rows |-> 0]]
    BY DEF SInit, Serving
<1>2. [at |-> "start", lh |-> 0, h |-> 0, rows |-> 0] \in WorkerStates
    BY DEF WorkerStates, PoolAssumption
<1>3. WorkersPlaced
    BY <1>1, <1>2 DEF SInit, WorkersPlaced, Busy, Stopped, WellPlaced
<1>4. TablesExact
  <2>1. conns = << >> /\ tl = [w \in Workers |-> << >>] /\ listeners = NoSock
    BY DEF SInit
  <2>2. DOMAIN << >> = {} /\ << >> = [h \in {} |-> "listener"] /\ << >> = [h \in DOMAIN << >> |-> << >>[h]]
    OBVIOUS
  <2>3. OneTable
    BY <1>1, <2>1, <2>2 DEF OneTable
  <2>4. OwnTables
    BY <1>1, <2>1, <2>2 DEF OwnTables
  <2>. QED BY <2>3, <2>4 DEF TablesExact
<1>5. ConnsServed
    BY <1>1 DEF SInit, ConnsServed
<1>6. AnswersInOrder
  <2>1. << >> \in Seq(0 .. Rows) /\ Len(<< >>) = 0
    OBVIOUS
  <2>2. Whole(0) = 0
    BY WholeAnswers
  <2>. QED BY <1>1, <2>1, <2>2 DEF SInit, AnswersInOrder
<1>. QED
    BY <1>3, <1>4, <1>5, <1>6 DEF PoolInv

\* Connections and answers rest while nobody starts or ends writing.
LEMMA AnswersRest ==
    ASSUME PoolInv, UNCHANGED <<conn, inbox, sent, got, accepted>>,
           \A w \in Workers : Busy(w)' => Busy(w) /\ (spc[w].at = "write" \/ spc'[w].at = "write" => spc'[w] = spc[w])
    PROVE  ConnsServed' /\ AnswersInOrder'
<1>1. Serving' = Serving
    BY DEF Serving
<1>2. ConnsServed'
    BY <1>1 DEF PoolInv, ConnsServed
<1>3. ASSUME NEW w \in Serving, Busy(w)', conn[accepted[w]] = "open"
      PROVE  LET c == accepted[w]
             IN  IF spc'[w].at = "write"
                 THEN inbox[c] < sent[c] /\ Len(got[c]) = Whole(sent[c] - inbox[c] - 1) + (Rows - spc'[w].rows)
                 ELSE Len(got[c]) = Whole(sent[c] - inbox[c])
  <2>1. LET c == accepted[w]
        IN  IF spc[w].at = "write"
            THEN inbox[c] < sent[c] /\ Len(got[c]) = Whole(sent[c] - inbox[c] - 1) + (Rows - spc[w].rows)
            ELSE Len(got[c]) = Whole(sent[c] - inbox[c])
    <3>1. Busy(w)
      BY <1>3 DEF Serving
    <3>. QED BY <1>3, <3>1 DEF PoolInv, AnswersInOrder
  <2>2. w \in Workers
    BY DEF Serving
  <2>. QED BY <1>3, <2>1, <2>2
<1>4. AnswersInOrder'
    BY <1>1, <1>3 DEF PoolInv, AnswersInOrder
<1>. QED
    BY <1>2, <1>4

\* Before the listener is bound, no worker has got beyond its start.
LEMMA NothingBound ==
    ASSUME PoolInv, listeners = NoSock
    PROVE  Serving = {} /\ conns = << >>
<1>1. Serving = {}
    BY DEF PoolInv, WorkersPlaced, Busy, Stopped, WellPlaced, Serving
<1>2. DOMAIN conns = {} /\ conns = [h \in DOMAIN conns |-> conns[h]]
  <2>1. CASE shared
    <3>1. OneTable
      BY <2>1 DEF PoolInv, TablesExact
    <3>2. DOMAIN conns = {spc[w].h : w \in Serving} \union {h \in {listeners} : h # NoSock}
      BY <3>1 DEF OneTable
    <3>. QED BY <1>1, <3>1, <3>2 DEF OneTable
  <2>2. CASE ~shared
    BY <2>2 DEF PoolInv, TablesExact, OwnTables
  <2>. QED BY <2>1, <2>2
<1>3. conns = << >>
    BY <1>2
<1>. QED
    BY <1>1, <1>3

\* One worker binds and registers the listener, the others find it
\* (tcp_listen_shared).
LEMMA ListenKeeps ==
    ASSUME PoolAssumption, PoolInv, NEW w \in Workers, ListenShared(w)
    PROVE  PoolInv'
<1>1. /\ UNCHANGED <<shared, tl, tlNext, conn, inbox, sent, got, accepted, erred>>
      /\ spc[w] \in WorkerStates /\ spc[w].at = "start" /\ accepted[w] = NoSock
    BY DEF ListenShared, peers, PoolInv, WorkersPlaced, Busy, Stopped, WellPlaced
<1>2. PICK l : l = listeners'
    OBVIOUS
<1>3. l \in Int /\ l # NoSock /\ spc' = [spc EXCEPT ![w].at = "accept", ![w].lh = l]
      /\ counter' \in Nat \ {0} /\ (listeners # NoSock => l = listeners)
    BY <1>2 DEF ListenShared, PoolInv, WorkersPlaced, PoolAssumption
<1>4. PICK st : st = [spc[w] EXCEPT !.at = "accept", !.lh = l]
    OBVIOUS
<1>5. st \in WorkerStates /\ st.at = "accept" /\ st.lh = l /\ st.h = spc[w].h
    BY <1>1, <1>3, <1>4 DEF WorkerStates
<1>6. spc' \in [Workers -> WorkerStates] /\ spc'[w] = st /\ \A x \in Workers : x # w => spc'[x] = spc[x]
    BY <1>3, <1>4, <1>5 DEF PoolInv, WorkersPlaced
<1>7. WorkersPlaced'
  <2>1. ASSUME NEW x \in Workers
        PROVE  WellPlaced(x)'
    <3>1. CASE x = w
      BY <1>1, <1>2, <1>3, <1>5, <1>6, <3>1 DEF Busy, Stopped, WellPlaced
    <3>2. CASE x # w
      <4>1. spc'[x] = spc[x] /\ accepted' = accepted /\ erred' = erred
        BY <1>1, <1>6, <3>2
      <4>2. WellPlaced(x)
        BY DEF PoolInv, WorkersPlaced
      <4>. QED BY <1>2, <1>3, <4>1, <4>2 DEF Busy, Stopped, WellPlaced
    <3>. QED BY <3>1, <3>2
  <2>. QED BY <1>1, <1>2, <1>3, <1>6, <2>1 DEF PoolInv, WorkersPlaced
<1>8. ConnsServed' /\ AnswersInOrder'
  <2>1. \A x \in Workers : Busy(x)' => Busy(x) /\ (spc[x].at = "write" \/ spc'[x].at = "write" => spc'[x] = spc[x])
    BY <1>1, <1>5, <1>6 DEF Busy
  <2>. QED BY <1>1, <2>1, AnswersRest
<1>9. TablesExact'
  <2>1. CASE listeners # NoSock
    <3>1. UNCHANGED <<shared, conns, counter, tl, listeners, accepted>>
      BY <1>1, <2>1 DEF ListenShared
    <3>2. \A x \in Workers : spc'[x].h = spc[x].h
      BY <1>5, <1>6
    <3>. QED BY <3>1, <3>2, TablesRest
  <2>2. CASE listeners = NoSock
    <3>1. Serving' = {} /\ conns = << >> /\ \A x \in Workers : accepted[x] = NoSock
      BY <1>1, <2>2, NothingBound DEF Serving
    <3>2. /\ l = (IF shared THEN counter ELSE -counter)
          /\ conns' = Put(<< >>, l, "listener") /\ counter' = counter + 1
      BY <1>2, <2>2, <3>1 DEF ListenShared
    <3>3. conns' = [h \in {l} |-> "listener"]
      BY <3>2, OneHandle
    <3>4. counter \in Nat \ {0}
      BY DEF PoolInv, WorkersPlaced
    <3>5. CASE shared
      <4>1. tl = [x \in Workers |-> << >>]
        BY <3>5 DEF PoolInv, TablesExact, OneTable
      <4>2. DOMAIN conns' = {spc'[x].h : x \in Serving'} \union {h \in {l} : h # NoSock}
        BY <1>3, <3>1, <3>3
      <4>3. conns' = [h \in DOMAIN conns' |-> conns'[h]] /\ conns'[l] = "listener" /\ l < counter'
        BY <3>2, <3>3, <3>4, <3>5
      <4>4. OneTable'
        BY <1>1, <1>2, <3>1, <4>1, <4>2, <4>3 DEF OneTable
      <4>. QED BY <1>1, <3>5, <4>4 DEF TablesExact
    <3>6. CASE ~shared
      <4>1. OwnTables
        BY <3>6 DEF PoolInv, TablesExact
      <4>2. \A x \in Workers : tl'[x] = << >> /\ accepted'[x] = NoSock
        BY <1>1, <3>1, <4>1 DEF OwnTables
      <4>3. l < 0
        BY <3>2, <3>4, <3>6
      <4>4. conns' = [h \in (IF listeners' = NoSock THEN {} ELSE {listeners'}) |-> "listener"]
        BY <1>2, <1>3, <3>3
      <4>5. DOMAIN tl' = Workers /\ tl' = [x \in Workers |-> tl'[x]]
        BY <1>1, <4>1 DEF OwnTables
      <4>6. OwnTables'
        BY <1>2, <4>2, <4>3, <4>4, <4>5 DEF OwnTables
      <4>. QED BY <1>1, <3>6, <4>6 DEF TablesExact
    <3>. QED BY <3>5, <3>6
  <2>. QED BY <2>1, <2>2
<1>. QED
    BY <1>7, <1>8, <1>9 DEF PoolInv

\* A worker that moves on among read, write and close keeps its place.
LEMMA PlaceKept ==
    ASSUME PoolInv, NEW w \in Workers, Busy(w), NEW st \in WorkerStates,
           st.at \in {"read", "write", "close"}, st.h = spc[w].h, st.lh = spc[w].lh,
           spc' = [spc EXCEPT ![w] = st],
           UNCHANGED <<shared, conns, counter, tl, tlNext, listeners, accepted, erred>>
    PROVE  WorkersPlaced' /\ TablesExact'
<1>1. spc' \in [Workers -> WorkerStates] /\ spc'[w] = st /\ \A x \in Workers : x # w => spc'[x] = spc[x]
    BY DEF PoolInv, WorkersPlaced
<1>2. TablesExact'
    BY <1>1, TablesRest
<1>3. ASSUME NEW x \in Workers
      PROVE  WellPlaced(x)'
  <2>1. WellPlaced(x)
    BY DEF PoolInv, WorkersPlaced
  <2>2. CASE x = w
    BY <1>1, <2>1, <2>2 DEF Busy, Stopped, WellPlaced
  <2>3. CASE x # w
    BY <1>1, <2>1, <2>3 DEF Busy, Stopped, WellPlaced
  <2>. QED BY <2>2, <2>3
<1>4. WorkersPlaced'
    BY <1>1, <1>3 DEF PoolInv, WorkersPlaced
<1>. QED
    BY <1>2, <1>4

\* A request, or none: the worker writes or closes (tcp_read).
LEMMA ReadKeeps ==
    ASSUME PoolAssumption, PoolInv, NEW w \in Workers, Read(w)
    PROVE  PoolInv'
<1>1. PICK c : c = get_sock(w, spc[w].h)
    OBVIOUS
<1>2. /\ spc[w] \in WorkerStates /\ spc[w].at = "read" /\ Busy(w) /\ w \in Serving
      /\ c = accepted[w] /\ c \in Clients
      /\ UNCHANGED <<shared, conns, counter, tl, tlNext, listeners, conn, sent, got, accepted, erred>>
    BY <1>1, SocketIs DEF Read, Busy, Stopped, WellPlaced, tables, PoolInv, WorkersPlaced, Serving
<1>3. Rows \in 0 .. Rows
    BY DEF PoolAssumption
<1>4. CASE inbox[c] = 0 /\ spc' = [spc EXCEPT ![w].at = "close"] /\ UNCHANGED inbox
  <2>1. PICK st : st = [spc[w] EXCEPT !.at = "close"]
    OBVIOUS
  <2>2. st \in WorkerStates /\ st.at = "close" /\ st.h = spc[w].h /\ st.lh = spc[w].lh
    BY <1>2, <2>1 DEF WorkerStates
  <2>3. spc' = [spc EXCEPT ![w] = st]
    BY <1>4, <2>1
  <2>4. \A x \in Workers : Busy(x)' => Busy(x) /\ (spc[x].at = "write" \/ spc'[x].at = "write" => spc'[x] = spc[x])
    BY <1>2, <2>2, <2>3 DEF PoolInv, WorkersPlaced, Busy
  <2>5. WorkersPlaced' /\ TablesExact'
    BY <1>2, <2>2, <2>3, PlaceKept
  <2>6. ConnsServed' /\ AnswersInOrder'
    BY <1>2, <1>4, <2>4, AnswersRest
  <2>. QED BY <2>5, <2>6 DEF PoolInv
<1>5. CASE inbox[c] > 0 /\ inbox' = [inbox EXCEPT ![c] = @ - 1]
           /\ spc' = [spc EXCEPT ![w].at = "write", ![w].rows = Rows]
  <2>1. PICK st : st = [spc[w] EXCEPT !.at = "write", !.rows = Rows]
    OBVIOUS
  <2>2. st \in WorkerStates /\ st.at = "write" /\ st.h = spc[w].h /\ st.lh = spc[w].lh /\ st.rows = Rows
    BY <1>2, <1>3, <2>1 DEF WorkerStates
  <2>3. spc' = [spc EXCEPT ![w] = st]
    BY <1>5, <2>1
  <2>4. WorkersPlaced' /\ TablesExact'
    BY <1>2, <2>2, <2>3, PlaceKept
  <2>5. Serving' = Serving /\ spc'[w] = st /\ \A x \in Workers : x # w => spc'[x] = spc[x]
    BY <1>2, <2>3 DEF Serving, PoolInv, WorkersPlaced
  <2>6. ConnsServed'
    BY <1>2, <2>5 DEF PoolInv, ConnsServed
  <2>7. /\ inbox' \in [Clients -> Nat] /\ inbox'[c] = inbox[c] - 1 /\ \A d \in Clients : d # c => inbox'[d] = inbox[d]
        /\ inbox[c] \in Nat /\ sent[c] \in Nat /\ inbox[c] <= sent[c]
    BY <1>2, <1>5 DEF PoolInv, AnswersInOrder
  <2>8. ASSUME NEW x \in Serving, Busy(x)', conn[accepted[x]] = "open"
        PROVE  LET d == accepted[x]
               IN  IF spc'[x].at = "write"
                   THEN inbox'[d] < sent[d] /\ Len(got[d]) = Whole(sent[d] - inbox'[d] - 1) + (Rows - spc'[x].rows)
                   ELSE Len(got[d]) = Whole(sent[d] - inbox'[d])
    <3>1. LET d == accepted[x]
          IN  IF spc[x].at = "write"
              THEN inbox[d] < sent[d] /\ Len(got[d]) = Whole(sent[d] - inbox[d] - 1) + (Rows - spc[x].rows)
              ELSE Len(got[d]) = Whole(sent[d] - inbox[d])
      <4>1. Busy(x)
        BY <1>2, <2>5, <2>8 DEF Busy, Serving
      <4>. QED BY <2>8, <4>1 DEF PoolInv, AnswersInOrder
    <3>2. CASE x = w
      <4>1. Len(got[c]) = Whole(sent[c] - inbox[c])
        BY <1>2, <3>1, <3>2
      <4>2. sent[c] - inbox'[c] - 1 = sent[c] - inbox[c] /\ inbox'[c] < sent[c] /\ Rows - st.rows = 0
        BY <1>3, <2>2, <2>7
      <4>3. Whole(sent[c] - inbox[c]) \in Nat
        <5>1. sent[c] - inbox[c] \in Nat
          BY <2>7
        <5>. QED BY <5>1, WholeAnswers
      <4>4. Len(got[c]) = Whole(sent[c] - inbox'[c] - 1) + (Rows - st.rows)
        BY <4>1, <4>2, <4>3
      <4>. QED BY <1>2, <2>2, <2>5, <3>2, <4>2, <4>4
    <3>3. CASE x # w
      <4>1. x \in Workers /\ accepted[x] # c /\ accepted[x] \in Clients
        BY <1>2, <3>3 DEF PoolInv, ConnsServed, WorkersPlaced, Serving
      <4>. QED BY <2>5, <2>7, <3>1, <3>3, <4>1
    <3>. QED BY <3>2, <3>3
  <2>9. \A d \in Clients : /\ inbox'[d] <= sent[d]
                           /\ conn[d] \in {"none", "backlog"} => inbox'[d] = sent[d]
    <3>1. conn[c] \in {"open", "gone"}
      BY <1>2 DEF PoolInv, ConnsServed
    <3>. QED BY <2>7, <3>1 DEF PoolInv, AnswersInOrder
  <2>10. AnswersInOrder'
    BY <1>2, <2>5, <2>7, <2>8, <2>9 DEF PoolInv, AnswersInOrder
  <2>. QED BY <2>4, <2>6, <2>10 DEF PoolInv
<1>. QED
    BY <1>1, <1>4, <1>5 DEF Read

\* The next frame, to a client that is still there: the answer goes on where it
\* was (raw_write under pg_stream_rows).
LEMMA WriteKeeps ==
    ASSUME PoolAssumption, PoolInv, NEW w \in Workers, Write(w)
    PROVE  PoolInv'
<1>1. PICK c : c = get_sock(w, spc[w].h)
    OBVIOUS
<1>2. /\ spc[w] \in WorkerStates /\ spc[w].at = "write" /\ Busy(w) /\ w \in Serving
      /\ c = accepted[w] /\ c \in Clients
      /\ UNCHANGED <<shared, conns, counter, tl, tlNext, listeners, conn, inbox, sent, accepted, erred>>
    BY <1>1, SocketIs DEF Write, Busy, Stopped, WellPlaced, tables, PoolInv, WorkersPlaced, Serving
<1>3. PICK k \in 0 .. Rows : k = spc[w].rows
    BY <1>2 DEF WorkerStates
<1>4. Rows \in Nat
    BY DEF PoolAssumption
<1>5. got' = IF conn[c] = "open" THEN [got EXCEPT ![c] = Append(@, k)] ELSE got
    BY <1>1, <1>3 DEF Write, Delivered
<1>6. PICK st : st = [spc[w] EXCEPT !.at = IF k = 0 THEN "read" ELSE "write", !.rows = IF k = 0 THEN 0 ELSE k - 1]
    OBVIOUS
<1>7. /\ st \in WorkerStates /\ st.h = spc[w].h /\ st.lh = spc[w].lh
      /\ st.at = (IF k = 0 THEN "read" ELSE "write") /\ st.rows = (IF k = 0 THEN 0 ELSE k - 1)
  <2>1. (IF k = 0 THEN 0 ELSE k - 1) \in 0 .. Rows
    BY <1>4
  <2>. QED BY <1>2, <1>6, <2>1 DEF WorkerStates
<1>8. spc' = [spc EXCEPT ![w] = st]
    BY <1>3, <1>6 DEF Write, Answered
<1>9. WorkersPlaced' /\ TablesExact'
    BY <1>2, <1>7, <1>8, PlaceKept
<1>10. Serving' = Serving /\ spc'[w] = st /\ \A x \in Workers : x # w => spc'[x] = spc[x]
    BY <1>2, <1>8 DEF Serving, PoolInv, WorkersPlaced
<1>11. ConnsServed'
    BY <1>2, <1>10 DEF PoolInv, ConnsServed
<1>12. /\ inbox[c] \in Nat /\ sent[c] \in Nat /\ got[c] \in Seq(0 .. Rows) /\ Len(got[c]) \in Nat
       /\ conn[c] \in {"open", "gone"}
       /\ \A i \in 1 .. Len(got[c]) : got[c][i] = Rows - ((i - 1) % (Rows + 1))
  <2>1. inbox[c] \in Nat /\ sent[c] \in Nat /\ got[c] \in Seq(0 .. Rows)
    BY <1>2 DEF PoolInv, AnswersInOrder
  <2>2. \A i \in 1 .. Len(got[c]) : got[c][i] = Rows - ((i - 1) % (Rows + 1))
    BY <1>2 DEF PoolInv, AnswersInOrder
  <2>3. conn[c] \in {"open", "gone"}
    BY <1>2 DEF PoolInv, ConnsServed
  <2>4. Len(got[c]) \in Nat
    BY <2>1, LenProperties
  <2>. QED BY <2>1, <2>2, <2>3, <2>4
<1>13. CASE conn[c] # "open"
  <2>1. got' = got
    BY <1>5, <1>13
  <2>2. ASSUME NEW x \in Serving, Busy(x)', conn[accepted[x]] = "open"
        PROVE  LET d == accepted[x]
               IN  IF spc'[x].at = "write"
                   THEN inbox[d] < sent[d] /\ Len(got[d]) = Whole(sent[d] - inbox[d] - 1) + (Rows - spc'[x].rows)
                   ELSE Len(got[d]) = Whole(sent[d] - inbox[d])
    <3>1. x # w /\ x \in Workers
      BY <1>2, <1>13, <2>2 DEF Serving
    <3>2. spc'[x] = spc[x]
      BY <1>10, <3>1
    <3>3. LET d == accepted[x]
          IN  IF spc[x].at = "write"
              THEN inbox[d] < sent[d] /\ Len(got[d]) = Whole(sent[d] - inbox[d] - 1) + (Rows - spc[x].rows)
              ELSE Len(got[d]) = Whole(sent[d] - inbox[d])
      BY <2>2, <3>2 DEF PoolInv, AnswersInOrder, Busy
    <3>. QED BY <3>2, <3>3
  <2>3. AnswersInOrder'
    BY <1>2, <1>10, <2>1, <2>2 DEF PoolInv, AnswersInOrder
  <2>. QED BY <1>9, <1>11, <2>3 DEF PoolInv
<1>14. CASE conn[c] = "open"
  <2>1. /\ got' \in [Clients -> Seq(0 .. Rows)] /\ got'[c] = Append(got[c], k)
        /\ \A d \in Clients : d # c => got'[d] = got[d]
    BY <1>2, <1>5, <1>12, <1>14 DEF PoolInv, AnswersInOrder
  <2>2. PICK q \in Nat : q = sent[c] - inbox[c] - 1
    <3>1. inbox[c] < sent[c]
      BY <1>2, <1>14 DEF PoolInv, AnswersInOrder
    <3>. QED BY <1>12, <3>1
  <2>3. Len(got[c]) = Whole(q) + (Rows - k)
    BY <1>2, <1>3, <1>14, <2>2 DEF PoolInv, AnswersInOrder
  <2>4. /\ Whole(q) \in Nat /\ Whole(q + 1) = Whole(q) + Rows + 1
        /\ (Whole(q) + (Rows - k)) % (Rows + 1) = Rows - k
    <3>1. Rows - k \in 0 .. Rows
      BY <1>4
    <3>. QED BY <3>1, WholeAnswers
  <2>5. Len(got'[c]) = Whole(q) + (Rows - k) + 1
    BY <1>12, <2>1, <2>3
  <2>6. ASSUME NEW i \in 1 .. Len(got'[c]) PROVE got'[c][i] = Rows - ((i - 1) % (Rows + 1))
    <3>1. CASE i \in 1 .. Len(got[c])
      <4>1. got'[c][i] = got[c][i]
        BY <1>12, <2>1, <3>1, AppendProperties
      <4>. QED BY <1>12, <3>1, <4>1
    <3>2. CASE i \notin 1 .. Len(got[c])
      <4>1. i = Len(got[c]) + 1 /\ i - 1 = Whole(q) + (Rows - k)
        <5>1. PICK n \in Nat : n = Len(got[c])
          BY <1>12
        <5>2. i \in 1 .. n + 1 /\ i \notin 1 .. n
          BY <2>3, <2>5, <3>2, <5>1
        <5>3. i = n + 1 /\ i - 1 = n
          BY <5>2
        <5>. QED BY <2>3, <5>1, <5>3
      <4>2. got'[c][i] = k
        BY <1>12, <2>1, <4>1, AppendProperties
      <4>3. (i - 1) % (Rows + 1) = Rows - k
        BY <2>4, <4>1
      <4>. QED BY <1>4, <4>2, <4>3
    <3>. QED BY <3>1, <3>2
  <2>7. Len(got'[c]) <= Whole(sent[c])
    <3>1. q + 1 \in Nat /\ q + 1 <= sent[c] /\ sent[c] \in Nat
      BY <1>12, <2>2
    <3>2. Whole(q + 1) <= Whole(sent[c])
      BY <3>1, WholeGrows
    <3>3. Whole(sent[c]) \in Nat
      BY <3>1, WholeAnswers
    <3>. QED BY <1>4, <2>4, <2>5, <3>2, <3>3
  <2>8. ASSUME NEW x \in Serving, Busy(x)', conn[accepted[x]] = "open"
        PROVE  LET d == accepted[x]
               IN  IF spc'[x].at = "write"
                   THEN inbox[d] < sent[d] /\ Len(got'[d]) = Whole(sent[d] - inbox[d] - 1) + (Rows - spc'[x].rows)
                   ELSE Len(got'[d]) = Whole(sent[d] - inbox[d])
    <3>1. CASE x = w
      <4>1. CASE k = 0
        <5>1. Len(got'[c]) = Whole(sent[c] - inbox[c])
          <6>1. q + 1 = sent[c] - inbox[c]
            BY <1>12, <2>2
          <6>2. Len(got'[c]) = Whole(q + 1)
            BY <1>4, <2>4, <2>5, <4>1
          <6>. QED BY <6>1, <6>2
        <5>. QED BY <1>2, <1>7, <1>10, <3>1, <4>1, <5>1
      <4>2. CASE k # 0
        <5>1. Len(got'[c]) = Whole(q) + (Rows - (k - 1))
          BY <1>4, <2>4, <2>5
        <5>2. inbox[c] < sent[c]
          BY <1>12, <2>2
        <5>. QED BY <1>2, <1>7, <1>10, <2>2, <3>1, <4>2, <5>1, <5>2
      <4>. QED BY <4>1, <4>2
    <3>2. CASE x # w
      <4>1. x \in Workers /\ accepted[x] # c /\ accepted[x] \in Clients
        BY <1>2, <3>2 DEF PoolInv, ConnsServed, WorkersPlaced, Serving
      <4>2. got'[accepted[x]] = got[accepted[x]] /\ spc'[x] = spc[x]
        BY <1>10, <2>1, <3>2, <4>1
      <4>. QED BY <2>8, <4>2 DEF PoolInv, AnswersInOrder, Busy
    <3>. QED BY <3>1, <3>2
  <2>9. ASSUME NEW d \in Clients
        PROVE  /\ inbox[d] <= sent[d] /\ Len(got'[d]) <= Whole(sent[d])
               /\ \A i \in 1 .. Len(got'[d]) : got'[d][i] = Rows - ((i - 1) % (Rows + 1))
               /\ conn[d] \in {"none", "backlog"} => got'[d] = << >> /\ inbox[d] = sent[d]
    <3>1. CASE d = c
      BY <1>12, <2>6, <2>7, <3>1 DEF PoolInv, AnswersInOrder
    <3>2. CASE d # c
      <4>1. /\ inbox[d] <= sent[d] /\ Len(got[d]) <= Whole(sent[d])
            /\ \A i \in 1 .. Len(got[d]) : got[d][i] = Rows - ((i - 1) % (Rows + 1))
            /\ conn[d] \in {"none", "backlog"} => got[d] = << >> /\ inbox[d] = sent[d]
        BY DEF PoolInv, AnswersInOrder
      <4>2. got'[d] = got[d]
        BY <2>1, <3>2
      <4>. QED BY <4>1, <4>2
    <3>. QED BY <3>1, <3>2
  <2>10. AnswersInOrder'
    <3>1. /\ inbox' \in [Clients -> Nat] /\ sent' \in [Clients -> Nat]
          /\ inbox' = inbox /\ sent' = sent /\ conn' = conn /\ accepted' = accepted
      BY <1>2 DEF PoolInv, AnswersInOrder
    <3>2. \A x \in Serving' : Busy(x)' /\ conn'[accepted'[x]] = "open" =>
            LET d == accepted'[x]
            IN  IF spc'[x].at = "write"
                THEN inbox'[d] < sent'[d] /\ Len(got'[d]) = Whole(sent'[d] - inbox'[d] - 1) + (Rows - spc'[x].rows)
                ELSE Len(got'[d]) = Whole(sent'[d] - inbox'[d])
      BY <1>10, <2>8, <3>1
    <3>. QED BY <2>1, <2>9, <3>1, <3>2 DEF AnswersInOrder
  <2>. QED BY <1>9, <1>11, <2>10 DEF PoolInv
<1>. QED
    BY <1>13, <1>14

\* Clients connect, ask and vanish; the workers' side rests.
LEMMA PeersKeep ==
    ASSUME PoolAssumption, PoolInv, NEW c \in Clients, PeerConnect(c) \/ PeerAsk(c) \/ PeerVanish(c)
    PROVE  PoolInv'
<1>1. UNCHANGED <<shared, conns, counter, tl, tlNext, listeners, got, spc, accepted, erred>>
    BY DEF PeerConnect, PeerAsk, PeerVanish, tables
<1>2. WorkersPlaced'
    BY <1>1 DEF PoolInv, WorkersPlaced, Busy, Stopped, WellPlaced
<1>3. TablesExact'
    BY <1>1, TablesRest
<1>4. Serving' = Serving /\ \A w \in Workers : Busy(w)' <=> Busy(w)
    BY <1>1 DEF Serving, Busy
<1>5. /\ conn \in [Clients -> {"none", "backlog", "open", "gone", "closed"}]
      /\ inbox \in [Clients -> Nat] /\ sent \in [Clients -> Nat]
      /\ \A w \in Serving : accepted[w] \in Clients
    BY DEF PoolInv, ConnsServed, AnswersInOrder, WorkersPlaced, Serving
<1>6. CASE PeerConnect(c)
  <2>1. conn[c] = "none" /\ conn' = [conn EXCEPT ![c] = "backlog"] /\ UNCHANGED <<inbox, sent>>
    BY <1>6 DEF PeerConnect
  <2>2. conn'[c] = "backlog" /\ \A d \in Clients : d # c => conn'[d] = conn[d]
    BY <1>5, <2>1
  <2>3. \A w \in Serving : accepted[w] # c
    BY <2>1 DEF PoolInv, ConnsServed
  <2>4. ConnsServed'
    BY <1>1, <1>4, <1>5, <2>1, <2>2, <2>3 DEF PoolInv, ConnsServed
  <2>5. AnswersInOrder'
    <3>1. \A w \in Serving : conn'[accepted[w]] = conn[accepted[w]]
      BY <1>5, <2>2, <2>3
    <3>2. \A d \in Clients : conn'[d] \in {"none", "backlog"} => conn[d] \in {"none", "backlog"}
      BY <2>1, <2>2
    <3>3. /\ got' = got /\ spc' = spc /\ accepted' = accepted /\ inbox' = inbox /\ sent' = sent
          /\ AnswersInOrder /\ Serving' = Serving /\ \A w \in Serving : w \in Workers /\ (Busy(w)' <=> Busy(w))
      BY <1>1, <1>4, <2>1 DEF PoolInv, Serving
    <3>4. \A w \in Serving' : Busy(w)' /\ conn'[accepted'[w]] = "open" => Busy(w) /\ conn[accepted[w]] = "open"
      BY <3>1, <3>3
    <3>5. \A w \in Serving' : Busy(w)' /\ conn'[accepted'[w]] = "open" =>
            LET d == accepted'[w]
            IN  IF spc'[w].at = "write"
                THEN inbox'[d] < sent'[d] /\ Len(got'[d]) = Whole(sent'[d] - inbox'[d] - 1) + (Rows - spc'[w].rows)
                ELSE Len(got'[d]) = Whole(sent'[d] - inbox'[d])
      BY <3>3, <3>4 DEF AnswersInOrder
    <3>6. /\ inbox' \in [Clients -> Nat] /\ sent' \in [Clients -> Nat] /\ got' \in [Clients -> Seq(0 .. Rows)]
          /\ \A d \in Clients :
              /\ inbox'[d] <= sent'[d] /\ Len(got'[d]) <= Whole(sent'[d])
              /\ \A i \in 1 .. Len(got'[d]) : got'[d][i] = Rows - ((i - 1) % (Rows + 1))
              /\ conn'[d] \in {"none", "backlog"} => got'[d] = << >> /\ inbox'[d] = sent'[d]
      BY <3>2, <3>3 DEF AnswersInOrder
    <3>. QED BY <3>5, <3>6 DEF AnswersInOrder
  <2>. QED BY <1>2, <1>3, <2>4, <2>5 DEF PoolInv
<1>7. CASE PeerAsk(c)
  <2>1. /\ conn[c] \in {"backlog", "open"} /\ conn' = conn
        /\ inbox' = [inbox EXCEPT ![c] = @ + 1] /\ sent' = [sent EXCEPT ![c] = @ + 1]
    BY <1>7 DEF PeerAsk
  <2>2. /\ inbox' \in [Clients -> Nat] /\ sent' \in [Clients -> Nat]
        /\ inbox'[c] = inbox[c] + 1 /\ sent'[c] = sent[c] + 1
        /\ \A d \in Clients : d # c => inbox'[d] = inbox[d] /\ sent'[d] = sent[d]
    BY <1>5, <2>1
  <2>3. ConnsServed'
    BY <1>1, <1>4, <2>1 DEF PoolInv, ConnsServed
  <2>4. \A d \in Clients : sent'[d] - inbox'[d] = sent[d] - inbox[d] /\ (inbox[d] < sent[d] <=> inbox'[d] < sent'[d])
    BY <1>5, <2>2
  <2>5. ASSUME NEW d \in Clients
        PROVE  /\ inbox'[d] <= sent'[d] /\ Len(got[d]) <= Whole(sent'[d])
               /\ inbox[d] = sent[d] => inbox'[d] = sent'[d]
    <3>1. inbox[d] \in Nat /\ sent[d] \in Nat /\ inbox[d] <= sent[d] /\ Len(got[d]) <= Whole(sent[d]) /\ Len(got[d]) \in Nat
      BY <1>5 DEF PoolInv, AnswersInOrder
    <3>2. sent'[d] \in Nat /\ sent[d] <= sent'[d]
      BY <1>5, <2>2
    <3>3. Whole(sent[d]) <= Whole(sent'[d]) /\ Whole(sent[d]) \in Nat /\ Whole(sent'[d]) \in Nat
      BY <3>1, <3>2, WholeGrows, WholeAnswers
    <3>4. (d = c \/ d # c) /\ sent[c] \in Nat /\ inbox[c] \in Nat
      BY <1>5
    <3>5. inbox'[d] <= sent'[d] /\ (inbox[d] = sent[d] => inbox'[d] = sent'[d])
      BY <2>2, <3>1, <3>4
    <3>. QED BY <3>1, <3>3, <3>5
  <2>6. ASSUME NEW w \in Serving, Busy(w), conn[accepted[w]] = "open"
        PROVE  LET d == accepted[w]
               IN  IF spc[w].at = "write"
                   THEN inbox'[d] < sent'[d] /\ Len(got[d]) = Whole(sent'[d] - inbox'[d] - 1) + (Rows - spc[w].rows)
                   ELSE Len(got[d]) = Whole(sent'[d] - inbox'[d])
    <3>1. PICK d \in Clients : d = accepted[w]
      BY <1>5
    <3>2. IF spc[w].at = "write"
          THEN inbox[d] < sent[d] /\ Len(got[d]) = Whole(sent[d] - inbox[d] - 1) + (Rows - spc[w].rows)
          ELSE Len(got[d]) = Whole(sent[d] - inbox[d])
      BY <2>6, <3>1 DEF PoolInv, AnswersInOrder
    <3>3. sent'[d] - inbox'[d] = sent[d] - inbox[d] /\ (inbox[d] < sent[d] => inbox'[d] < sent'[d])
      BY <2>4
    <3>4. PICK a, b : a = sent[d] - inbox[d] /\ b = Rows - spc[w].rows
      OBVIOUS
    <3>5. IF spc[w].at = "write"
          THEN inbox[d] < sent[d] /\ Len(got[d]) = Whole(a - 1) + b
          ELSE Len(got[d]) = Whole(a)
      BY <3>2, <3>4
    <3>6. IF spc[w].at = "write"
          THEN inbox'[d] < sent'[d] /\ Len(got[d]) = Whole(sent'[d] - inbox'[d] - 1) + b
          ELSE Len(got[d]) = Whole(sent'[d] - inbox'[d])
      BY <3>3, <3>4, <3>5
    <3>. QED BY <3>1, <3>4, <3>6
  <2>7. ASSUME NEW d \in Clients
        PROVE  /\ inbox'[d] <= sent'[d] /\ Len(got'[d]) <= Whole(sent'[d])
               /\ \A i \in 1 .. Len(got'[d]) : got'[d][i] = Rows - ((i - 1) % (Rows + 1))
               /\ conn'[d] \in {"none", "backlog"} => got'[d] = << >> /\ inbox'[d] = sent'[d]
    <3>1. /\ \A i \in 1 .. Len(got[d]) : got[d][i] = Rows - ((i - 1) % (Rows + 1))
          /\ conn[d] \in {"none", "backlog"} => got[d] = << >> /\ inbox[d] = sent[d]
      BY DEF PoolInv, AnswersInOrder
    <3>2. got' = got /\ conn' = conn
      BY <1>1, <2>1
    <3>. QED BY <2>5, <3>1, <3>2
  <2>8. got' \in [Clients -> Seq(0 .. Rows)]
    BY <1>1 DEF PoolInv, AnswersInOrder
  <2>9. \A w \in Serving' : Busy(w)' /\ conn'[accepted'[w]] = "open" =>
          LET d == accepted'[w]
          IN  IF spc'[w].at = "write"
              THEN inbox'[d] < sent'[d] /\ Len(got'[d]) = Whole(sent'[d] - inbox'[d] - 1) + (Rows - spc'[w].rows)
              ELSE Len(got'[d]) = Whole(sent'[d] - inbox'[d])
    BY <1>1, <1>4, <2>1, <2>6 DEF Serving
  <2>10. AnswersInOrder'
    BY <2>2, <2>7, <2>8, <2>9 DEF AnswersInOrder
  <2>. QED BY <1>2, <1>3, <2>3, <2>10 DEF PoolInv
<1>8. CASE PeerVanish(c)
  <2>1. /\ conn[c] = "open" /\ conn' = [conn EXCEPT ![c] = "gone"] /\ inbox' = [inbox EXCEPT ![c] = 0] /\ sent' = sent
    BY <1>8 DEF PeerVanish
  <2>2. /\ inbox' \in [Clients -> Nat] /\ inbox'[c] = 0 /\ conn'[c] = "gone"
        /\ \A d \in Clients : d # c => inbox'[d] = inbox[d] /\ conn'[d] = conn[d]
    BY <1>5, <2>1
  <2>3. ConnsServed'
    BY <1>1, <1>4, <1>5, <2>1, <2>2 DEF PoolInv, ConnsServed
  <2>4. ASSUME NEW d \in Clients
        PROVE  inbox'[d] <= sent[d] /\ (conn'[d] \in {"none", "backlog"} => inbox'[d] = inbox[d] /\ conn'[d] = conn[d])
    <3>1. inbox[d] <= sent[d] /\ sent[d] \in Nat
      BY <1>5 DEF PoolInv, AnswersInOrder
    <3>. QED BY <2>2, <3>1
  <2>5. \A w \in Serving : conn'[accepted[w]] = "open" =>
            conn[accepted[w]] = "open" /\ inbox'[accepted[w]] = inbox[accepted[w]]
    BY <1>5, <2>2
  <2>6. AnswersInOrder'
    <3>1. /\ inbox' \in [Clients -> Nat] /\ sent' \in [Clients -> Nat] /\ got' \in [Clients -> Seq(0 .. Rows)]
          /\ sent' = sent /\ got' = got /\ spc' = spc /\ accepted' = accepted
      BY <1>1, <2>1, <2>2 DEF PoolInv, AnswersInOrder
    <3>2. ASSUME NEW d \in Clients
          PROVE  /\ inbox'[d] <= sent[d] /\ Len(got[d]) <= Whole(sent[d])
                 /\ \A i \in 1 .. Len(got[d]) : got[d][i] = Rows - ((i - 1) % (Rows + 1))
                 /\ conn'[d] \in {"none", "backlog"} => got[d] = << >> /\ inbox'[d] = sent[d]
      BY <2>4 DEF PoolInv, AnswersInOrder
    <3>3. ASSUME NEW w \in Serving, Busy(w), conn'[accepted[w]] = "open"
          PROVE  LET d == accepted[w]
                 IN  IF spc[w].at = "write"
                     THEN inbox'[d] < sent[d] /\ Len(got[d]) = Whole(sent[d] - inbox'[d] - 1) + (Rows - spc[w].rows)
                     ELSE Len(got[d]) = Whole(sent[d] - inbox'[d])
      <4>1. conn[accepted[w]] = "open" /\ inbox'[accepted[w]] = inbox[accepted[w]]
        BY <2>5, <3>3
      <4>2. LET d == accepted[w]
            IN  IF spc[w].at = "write"
                THEN inbox[d] < sent[d] /\ Len(got[d]) = Whole(sent[d] - inbox[d] - 1) + (Rows - spc[w].rows)
                ELSE Len(got[d]) = Whole(sent[d] - inbox[d])
        BY <3>3, <4>1 DEF PoolInv, AnswersInOrder
      <4>. QED BY <4>1, <4>2
    <3>. QED BY <1>4, <3>1, <3>2, <3>3 DEF AnswersInOrder, Serving
  <2>. QED BY <1>2, <1>3, <2>3, <2>6 DEF PoolInv
<1>. QED
    BY <1>6, <1>7, <1>8

\* A waiting connection goes to one worker, under a handle of its own
\* (tcp_accept and insert_stream).
LEMMA AcceptKeeps ==
    ASSUME PoolAssumption, PoolInv, NEW w \in Workers, NEW c \in Clients, Accept(w, c)
    PROVE  PoolInv'
<1>1. /\ spc[w] \in WorkerStates /\ spc[w].at = "accept" /\ accepted[w] = NoSock /\ conn[c] = "backlog"
      /\ listeners # NoSock /\ spc[w].lh = listeners /\ c # NoSock
      /\ UNCHANGED <<shared, listeners, inbox, sent, got, erred>>
    BY DEF Accept, PoolInv, WorkersPlaced, Busy, Stopped, WellPlaced, PoolAssumption
<1>2. PICK n : n = NewHandle(w)
    OBVIOUS
<1>3. n \in Int /\ n > 0 /\ counter \in Nat \ {0} /\ tlNext[w] \in Nat \ {0}
    BY <1>2 DEF NewHandle, PoolInv, WorkersPlaced
<1>4. PICK st : st = [spc[w] EXCEPT !.at = "read", !.h = n]
    OBVIOUS
<1>5. st \in WorkerStates /\ st.at = "read" /\ st.h = n /\ st.lh = listeners
    BY <1>1, <1>3, <1>4 DEF WorkerStates
<1>6. /\ spc' = [spc EXCEPT ![w] = st] /\ accepted' = [accepted EXCEPT ![w] = c]
      /\ InsertStream(w, c) /\ \E k \in {"open", "gone"} : conn' = [conn EXCEPT ![c] = k]
    BY <1>2, <1>4 DEF Accept
<1>7. /\ spc' \in [Workers -> WorkerStates] /\ spc'[w] = st /\ \A x \in Workers : x # w => spc'[x] = spc[x]
      /\ accepted' \in [Workers -> Clients \union {NoSock}] /\ accepted'[w] = c
      /\ \A x \in Workers : x # w => accepted'[x] = accepted[x]
    BY <1>5, <1>6 DEF PoolInv, WorkersPlaced
<1>8. /\ conn'[c] \in {"open", "gone"} /\ \A d \in Clients : d # c => conn'[d] = conn[d]
      /\ conn' \in [Clients -> {"none", "backlog", "open", "gone", "closed"}]
    BY <1>6 DEF PoolInv, ConnsServed
<1>9. Serving' = Serving \union {w} /\ w \notin Serving
    BY <1>1, <1>7 DEF Serving
<1>10. \A x \in Serving : x \in Workers /\ x # w /\ accepted[x] \in Clients /\ accepted[x] # c
    BY <1>1 DEF PoolInv, ConnsServed, WorkersPlaced, Serving
<1>11. WorkersPlaced'
  <2>1. counter' \in Nat \ {0} /\ tlNext' \in [Workers -> Nat \ {0}]
    <3>1. tlNext \in [Workers -> Nat \ {0}]
      BY DEF PoolInv, WorkersPlaced
    <3>2. counter' = counter \/ counter' = counter + 1
      BY <1>6 DEF InsertStream
    <3>3. tlNext' = tlNext \/ tlNext' = [tlNext EXCEPT ![w] = @ + 1]
      BY <1>6 DEF InsertStream
    <3>. QED BY <1>3, <3>1, <3>2, <3>3
  <2>2. ASSUME NEW x \in Workers
        PROVE  WellPlaced(x)'
    <3>1. CASE x = w
      BY <1>1, <1>3, <1>5, <1>7, <3>1 DEF Busy, Stopped, WellPlaced
    <3>2. CASE x # w
      <4>1. WellPlaced(x)
        BY DEF PoolInv, WorkersPlaced
      <4>. QED BY <1>1, <1>7, <3>2, <4>1 DEF Busy, Stopped, WellPlaced
    <3>. QED BY <3>1, <3>2
  <2>. QED BY <1>1, <1>7, <2>1, <2>2 DEF PoolInv, WorkersPlaced
<1>12. TablesExact'
  <2>1. CASE shared
    <3>1. OneTable /\ n = counter /\ conns' = Put(conns, n, c) /\ counter' = n + 1 /\ tl' = tl
      BY <1>2, <1>6, <2>1 DEF PoolInv, TablesExact, NewHandle, InsertStream
    <3>2. n \notin DOMAIN conns
      <4>1. \A x \in Serving : spc[x].h < n /\ spc[x].h \in Int
        BY <3>1 DEF OneTable, PoolInv, WorkersPlaced, WorkerStates, Serving
      <4>2. listeners < n /\ listeners \in Int
        BY <1>1, <3>1 DEF OneTable, PoolInv, WorkersPlaced
      <4>. QED BY <1>3, <3>1, <4>1, <4>2 DEF OneTable
    <3>3. /\ DOMAIN conns' = DOMAIN conns \union {n} /\ conns'[n] = c
          /\ \A h \in DOMAIN conns : conns'[h] = conns[h]
          /\ conns' = [h \in DOMAIN conns' |-> conns'[h]]
      BY <3>1, <3>2 DEF Put
    <3>4. {spc'[x].h : x \in Serving'} = {spc[x].h : x \in Serving} \union {n}
      BY <1>5, <1>7, <1>9, <1>10
    <3>5. DOMAIN conns = {spc[x].h : x \in Serving} \union {h \in {listeners} : h # NoSock}
      BY <3>1 DEF OneTable
    <3>6. DOMAIN conns' = {spc'[x].h : x \in Serving'} \union {h \in {listeners'} : h # NoSock}
      BY <1>1, <3>3, <3>4, <3>5
    <3>7. ASSUME NEW x \in Serving' PROVE conns'[spc'[x].h] = accepted'[x] /\ spc'[x].h < counter'
      <4>1. CASE x = w
        BY <1>3, <1>5, <1>7, <3>1, <3>3, <4>1
      <4>2. CASE x # w
        <5>1. x \in Serving /\ spc[x].h \in DOMAIN conns /\ spc'[x] = spc[x] /\ accepted'[x] = accepted[x]
          BY <1>7, <1>9, <1>10, <3>5, <4>2
        <5>2. conns[spc[x].h] = accepted[x] /\ spc[x].h < counter /\ spc[x].h \in Int
          BY <3>1, <5>1 DEF OneTable, PoolInv, WorkersPlaced, WorkerStates, Serving
        <5>. QED BY <1>3, <3>1, <3>3, <5>1, <5>2
      <4>. QED BY <4>1, <4>2
    <3>8. ASSUME NEW x \in Serving', NEW y \in Serving', x # y PROVE spc'[x].h # spc'[y].h
      <4>1. \A z \in Serving : spc[z].h \in DOMAIN conns /\ spc'[z] = spc[z] /\ spc[z].h # n
        BY <1>7, <1>10, <3>2, <3>5
      <4>2. CASE x # w /\ y # w
        BY <1>9, <3>1, <3>8, <4>1, <4>2 DEF OneTable
      <4>3. CASE x = w \/ y = w
        BY <1>5, <1>7, <1>9, <3>8, <4>1, <4>3
      <4>. QED BY <4>2, <4>3
    <3>9. conns'[listeners] = "listener" /\ listeners < counter'
      <4>1. listeners \in DOMAIN conns /\ conns[listeners] = "listener" /\ listeners < counter /\ listeners \in Int
        BY <1>1, <3>1, <3>5 DEF OneTable, PoolInv, WorkersPlaced
      <4>. QED BY <1>3, <3>1, <3>3, <4>1
    <3>10. OneTable'
      BY <1>1, <3>1, <3>3, <3>6, <3>7, <3>8, <3>9 DEF OneTable
    <3>. QED BY <1>1, <2>1, <3>10 DEF TablesExact
  <2>2. CASE ~shared
    <3>1. OwnTables /\ n = tlNext[w] /\ tl' = [tl EXCEPT ![w] = Put(@, n, c)] /\ conns' = conns
      BY <1>2, <1>6, <2>2 DEF PoolInv, TablesExact, NewHandle, InsertStream
    <3>2. tl[w] = << >> /\ DOMAIN tl = Workers
      BY <1>1, <3>1 DEF OwnTables
    <3>3. tl'[w] = [h \in {n} |-> c] /\ (\A x \in Workers : x # w => tl'[x] = tl[x])
          /\ DOMAIN tl' = Workers /\ tl' = [x \in Workers |-> tl'[x]]
      <4>1. PICK f : f = Put(tl[w], n, c)
        OBVIOUS
      <4>2. f = [h \in {n} |-> c]
        <5>1. f = Put(<< >>, n, c)
          BY <3>2, <4>1
        <5>. QED BY <5>1, OneHandle
      <4>3. tl' = [tl EXCEPT ![w] = f]
        BY <3>1, <4>1
      <4>. QED BY <3>2, <4>2, <4>3
    <3>4. ASSUME NEW x \in Workers
          PROVE  tl'[x] = IF accepted'[x] = NoSock THEN << >> ELSE [h \in {spc'[x].h} |-> accepted'[x]]
      <4>1. CASE x = w
        BY <1>1, <1>5, <1>7, <3>3, <4>1
      <4>2. CASE x # w
        <5>1. tl[x] = IF accepted[x] = NoSock THEN << >> ELSE [h \in {spc[x].h} |-> accepted[x]]
          BY <3>1 DEF OwnTables
        <5>. QED BY <1>7, <3>3, <4>2, <5>1
      <4>. QED BY <4>1, <4>2
    <3>5. /\ conns' = [h \in (IF listeners' = NoSock THEN {} ELSE {listeners'}) |-> "listener"]
          /\ listeners' # NoSock => listeners' < 0
      BY <1>1, <3>1 DEF OwnTables
    <3>6. OwnTables'
      BY <3>3, <3>4, <3>5 DEF OwnTables
    <3>. QED BY <1>1, <2>2, <3>6 DEF TablesExact
  <2>. QED BY <2>1, <2>2
<1>13. ConnsServed'
  <2>1. \A x \in Serving : conn'[accepted'[x]] \in {"open", "gone"} /\ accepted'[x] = accepted[x]
    BY <1>7, <1>8, <1>10 DEF PoolInv, ConnsServed
  <2>2. ASSUME NEW d \in Clients, conn'[d] = "open" PROVE \E x \in Serving' : accepted'[x] = d
    <3>1. CASE d = c
      BY <1>7, <1>9, <3>1
    <3>2. CASE d # c
      <4>1. PICK x \in Serving : accepted[x] = d
        BY <1>8, <2>2, <3>2 DEF PoolInv, ConnsServed
      <4>. QED BY <1>9, <2>1, <4>1
    <3>. QED BY <3>1, <3>2
  <2>3. \A x, y \in Serving : x # y => accepted[x] # accepted[y]
    BY DEF PoolInv, ConnsServed
  <2>4. \A x, y \in Serving' : x # y => accepted'[x] # accepted'[y]
    BY <1>7, <1>9, <1>10, <2>1, <2>3
  <2>5. \A x \in Serving' : conn'[accepted'[x]] \in {"open", "gone"}
    BY <1>7, <1>8, <1>9, <2>1
  <2>. QED BY <1>8, <2>2, <2>4, <2>5 DEF ConnsServed
<1>14. AnswersInOrder'
  <2>1. ASSUME NEW x \in Serving', Busy(x)', conn'[accepted'[x]] = "open"
        PROVE  LET d == accepted'[x]
               IN  IF spc'[x].at = "write"
                   THEN inbox[d] < sent[d] /\ Len(got[d]) = Whole(sent[d] - inbox[d] - 1) + (Rows - spc'[x].rows)
                   ELSE Len(got[d]) = Whole(sent[d] - inbox[d])
    <3>1. CASE x = w
      <4>1. got[c] = << >> /\ inbox[c] = sent[c] /\ sent[c] \in Nat
        BY <1>1 DEF PoolInv, AnswersInOrder
      <4>2. Len(got[c]) = 0 /\ sent[c] - inbox[c] = 0 /\ Whole(0) = 0
        BY <4>1, WholeAnswers
      <4>. QED BY <1>5, <1>7, <3>1, <4>2
    <3>2. CASE x # w
      <4>1. x \in Serving /\ spc'[x] = spc[x] /\ accepted'[x] = accepted[x] /\ conn[accepted[x]] = "open"
        BY <1>7, <1>8, <1>9, <1>10, <2>1, <3>2
      <4>2. LET d == accepted[x]
            IN  IF spc[x].at = "write"
                THEN inbox[d] < sent[d] /\ Len(got[d]) = Whole(sent[d] - inbox[d] - 1) + (Rows - spc[x].rows)
                ELSE Len(got[d]) = Whole(sent[d] - inbox[d])
        BY <2>1, <4>1 DEF PoolInv, AnswersInOrder, Busy
      <4>. QED BY <4>1, <4>2
    <3>. QED BY <3>1, <3>2
  <2>2. \A d \in Clients : conn'[d] \in {"none", "backlog"} => conn[d] \in {"none", "backlog"}
    BY <1>8
  <2>. QED BY <1>1, <2>1, <2>2 DEF PoolInv, AnswersInOrder
<1>. QED
    BY <1>11, <1>12, <1>13, <1>14 DEF PoolInv

\* A connection leaves the table it is in and its worker goes back to accept
\* or out of service.
LEMMA LeaveKeeps ==
    ASSUME PoolAssumption, PoolInv, NEW w \in Workers, w \in Serving,
           NEW st \in WorkerStates, st.at \in {"accept", "out"},
           st.at = "accept" => spc[w].lh = listeners /\ st.lh = spc[w].lh,
           st.at = "out" => w \in erred,
           spc' = [spc EXCEPT ![w] = st], accepted' = [accepted EXCEPT ![w] = NoSock],
           RemoveSock(w, spc[w].h), conn' = [conn EXCEPT ![accepted[w]] = "closed"],
           UNCHANGED <<shared, counter, tlNext, listeners, inbox, sent, got, erred>>
    PROVE  PoolInv'
<1>1. PICK c : c = accepted[w]
    OBVIOUS
<1>2. PICK n : n = spc[w].h
    OBVIOUS
<1>3. /\ spc[w] \in WorkerStates /\ c = accepted[w] /\ c \in Clients /\ n \in Int /\ n > 0 /\ listeners # NoSock
      /\ UNCHANGED <<shared, counter, tlNext, listeners, inbox, sent, got, erred>>
    BY <1>1, <1>2 DEF PoolInv, WorkersPlaced, WellPlaced, WorkerStates, Serving
<1>6. RemoveSock(w, n) /\ conn' = [conn EXCEPT ![c] = "closed"]
    BY <1>1, <1>2
<1>7. /\ spc' \in [Workers -> WorkerStates] /\ spc'[w] = st /\ \A x \in Workers : x # w => spc'[x] = spc[x]
      /\ accepted' \in [Workers -> Clients \union {NoSock}] /\ accepted'[w] = NoSock
      /\ \A x \in Workers : x # w => accepted'[x] = accepted[x]
    BY DEF PoolInv, WorkersPlaced
<1>8. /\ conn'[c] = "closed" /\ \A d \in Clients : d # c => conn'[d] = conn[d]
      /\ conn' \in [Clients -> {"none", "backlog", "open", "gone", "closed"}]
    BY <1>3, <1>6 DEF PoolInv, ConnsServed
<1>9. Serving' = Serving \ {w}
    BY <1>7 DEF Serving
<1>10. \A x \in Serving' : /\ x \in Serving /\ x \in Workers /\ x # w
                           /\ spc'[x] = spc[x] /\ accepted'[x] = accepted[x]
                           /\ accepted[x] \in Clients /\ accepted[x] # c
    BY <1>3, <1>7, <1>9 DEF PoolInv, ConnsServed, WorkersPlaced, Serving
<1>11. WorkersPlaced'
  <2>1. ASSUME NEW x \in Workers
        PROVE  WellPlaced(x)'
    <3>1. WellPlaced(x)
      BY DEF PoolInv, WorkersPlaced
    <3>2. CASE x = w
      BY <1>3, <1>7, <3>2 DEF Busy, Stopped, WellPlaced
    <3>3. CASE x # w
      BY <1>3, <1>7, <3>1, <3>3 DEF Busy, Stopped, WellPlaced
    <3>. QED BY <3>2, <3>3
  <2>. QED BY <1>3, <1>7, <2>1 DEF PoolInv, WorkersPlaced
<1>12. TablesExact'
  <2>1. CASE shared
    <3>1. OneTable /\ conns' = Without(conns, n) /\ tl' = tl
      BY <1>6, <2>1 DEF PoolInv, TablesExact, RemoveSock
    <3>2. /\ DOMAIN conns' = DOMAIN conns \ {n} /\ conns' = [h \in DOMAIN conns' |-> conns'[h]]
          /\ \A h \in DOMAIN conns' : conns'[h] = conns[h]
      BY <3>1 DEF Without
    <3>3. DOMAIN conns = {spc[x].h : x \in Serving} \union {h \in {listeners} : h # NoSock}
      BY <3>1 DEF OneTable
    <3>4. \A x \in Serving' : spc'[x].h = spc[x].h /\ spc[x].h # n /\ spc[x].h \in DOMAIN conns'
      BY <1>2, <1>3, <1>10, <3>1, <3>2, <3>3 DEF OneTable
    <3>5. listeners # NoSock => listeners # n
      <4>1. conns[n] = c
        BY <1>2, <1>3, <3>1 DEF OneTable
      <4>. QED BY <1>3, <3>1, <4>1 DEF OneTable, PoolAssumption
    <3>6. DOMAIN conns' = {spc'[x].h : x \in Serving'} \union {h \in {listeners'} : h # NoSock}
      <4>1. ASSUME NEW h \in DOMAIN conns' PROVE h \in {spc'[x].h : x \in Serving'} \union {k \in {listeners'} : k # NoSock}
        <5>1. h # n /\ h \in {spc[x].h : x \in Serving} \union {k \in {listeners} : k # NoSock}
          BY <3>2, <3>3
        <5>2. CASE h \in {k \in {listeners} : k # NoSock}
          BY <1>3, <5>2
        <5>3. CASE h \in {spc[x].h : x \in Serving}
          <6>1. PICK x \in Serving : h = spc[x].h
            BY <5>3
          <6>2. x \in Serving'
            BY <1>2, <1>9, <5>1, <6>1
          <6>. QED BY <1>10, <6>1, <6>2
        <5>. QED BY <5>1, <5>2, <5>3
      <4>2. ASSUME NEW h \in {k \in {listeners'} : k # NoSock} PROVE h \in DOMAIN conns'
        BY <1>3, <3>2, <3>3, <3>5
      <4>3. ASSUME NEW h \in {spc'[x].h : x \in Serving'} PROVE h \in DOMAIN conns'
        BY <3>4
      <4>. QED BY <4>1, <4>2, <4>3
    <3>7. \A x \in Serving' : conns'[spc'[x].h] = accepted'[x] /\ spc'[x].h < counter'
      <4>1. \A x \in Serving : conns[spc[x].h] = accepted[x] /\ spc[x].h < counter
        BY <3>1 DEF OneTable
      <4>. QED BY <1>3, <1>10, <3>2, <3>4, <4>1
    <3>8. \A x, y \in Serving' : x # y => spc'[x].h # spc'[y].h
      BY <1>10, <3>1 DEF OneTable
    <3>9. listeners' # NoSock => conns'[listeners'] = "listener" /\ listeners' < counter'
      BY <1>3, <3>1, <3>2, <3>3, <3>5 DEF OneTable
    <3>10. OneTable'
      BY <3>1, <3>2, <3>6, <3>7, <3>8, <3>9 DEF OneTable
    <3>. QED BY <1>3, <2>1, <3>10 DEF TablesExact
  <2>2. CASE ~shared
    <3>1. OwnTables /\ tl' = [tl EXCEPT ![w] = Without(@, n)] /\ conns' = conns
      BY <1>3, <1>6, <2>2 DEF PoolInv, TablesExact, RemoveSock
    <3>2. tl[w] = [h \in {n} |-> c] /\ DOMAIN tl = Workers
      <4>1. tl[w] = IF accepted[w] = NoSock THEN << >> ELSE [h \in {spc[w].h} |-> accepted[w]]
        BY <3>1 DEF OwnTables
      <4>2. accepted[w] = c /\ accepted[w] # NoSock /\ spc[w].h = n
        BY <1>2, <1>3 DEF Serving
      <4>3. tl[w] = [h \in {spc[w].h} |-> accepted[w]]
        BY <4>1, <4>2
      <4>. QED BY <3>1, <4>2, <4>3 DEF OwnTables
    <3>3. tl'[w] = << >> /\ (\A x \in Workers : x # w => tl'[x] = tl[x])
          /\ DOMAIN tl' = Workers /\ tl' = [x \in Workers |-> tl'[x]]
      <4>1. PICK f : f = Without(tl[w], n)
        OBVIOUS
      <4>2. f = << >>
        <5>1. f = Without([h \in {n} |-> c], n)
          BY <3>2, <4>1
        <5>. QED BY <5>1, OneHandle
      <4>3. tl' = [tl EXCEPT ![w] = f]
        BY <3>1, <4>1
      <4>. QED BY <3>2, <4>2, <4>3
    <3>4. ASSUME NEW x \in Workers
          PROVE  tl'[x] = IF accepted'[x] = NoSock THEN << >> ELSE [h \in {spc'[x].h} |-> accepted'[x]]
      <4>1. CASE x = w
        BY <1>7, <3>3, <4>1
      <4>2. CASE x # w
        <5>1. tl[x] = IF accepted[x] = NoSock THEN << >> ELSE [h \in {spc[x].h} |-> accepted[x]]
          BY <3>1 DEF OwnTables
        <5>. QED BY <1>7, <3>3, <4>2, <5>1
      <4>. QED BY <4>1, <4>2
    <3>5. /\ conns' = [h \in (IF listeners' = NoSock THEN {} ELSE {listeners'}) |-> "listener"]
          /\ listeners' # NoSock => listeners' < 0
      BY <1>3, <3>1 DEF OwnTables
    <3>6. OwnTables'
      BY <3>3, <3>4, <3>5 DEF OwnTables
    <3>. QED BY <1>3, <2>2, <3>6 DEF TablesExact
  <2>. QED BY <2>1, <2>2
<1>13. ConnsServed'
  <2>1. \A x, y \in Serving' : x # y => accepted'[x] # accepted'[y]
    BY <1>10 DEF PoolInv, ConnsServed
  <2>2. \A x \in Serving' : conn'[accepted'[x]] \in {"open", "gone"}
    BY <1>8, <1>10 DEF PoolInv, ConnsServed
  <2>3. ASSUME NEW d \in Clients, conn'[d] = "open" PROVE \E x \in Serving' : accepted'[x] = d
    <3>1. d # c /\ conn[d] = "open"
      BY <1>8, <2>3
    <3>2. PICK x \in Serving : accepted[x] = d
      BY <3>1 DEF PoolInv, ConnsServed
    <3>3. x # w
      BY <1>3, <3>1, <3>2
    <3>. QED BY <1>9, <1>10, <3>2, <3>3
  <2>. QED BY <1>8, <2>1, <2>2, <2>3 DEF ConnsServed
<1>14. AnswersInOrder'
  <2>1. ASSUME NEW x \in Serving', Busy(x)', conn'[accepted'[x]] = "open"
        PROVE  LET d == accepted'[x]
               IN  IF spc'[x].at = "write"
                   THEN inbox[d] < sent[d] /\ Len(got[d]) = Whole(sent[d] - inbox[d] - 1) + (Rows - spc'[x].rows)
                   ELSE Len(got[d]) = Whole(sent[d] - inbox[d])
    <3>1. x \in Serving /\ spc'[x] = spc[x] /\ accepted'[x] = accepted[x] /\ conn[accepted[x]] = "open"
      BY <1>8, <1>10, <2>1
    <3>2. LET d == accepted[x]
          IN  IF spc[x].at = "write"
              THEN inbox[d] < sent[d] /\ Len(got[d]) = Whole(sent[d] - inbox[d] - 1) + (Rows - spc[x].rows)
              ELSE Len(got[d]) = Whole(sent[d] - inbox[d])
      BY <2>1, <3>1 DEF PoolInv, AnswersInOrder, Busy
    <3>. QED BY <2>1, <3>1, <3>2
  <2>2. \A d \in Clients : conn'[d] \in {"none", "backlog"} => conn[d] \in {"none", "backlog"}
    BY <1>8
  <2>3. /\ inbox \in [Clients -> Nat] /\ sent \in [Clients -> Nat] /\ got \in [Clients -> Seq(0 .. Rows)]
        /\ inbox' = inbox /\ sent' = sent /\ got' = got
    BY <1>3 DEF PoolInv, AnswersInOrder
  <2>4. ASSUME NEW d \in Clients
        PROVE  /\ inbox[d] <= sent[d] /\ Len(got[d]) <= Whole(sent[d])
               /\ \A i \in 1 .. Len(got[d]) : got[d][i] = Rows - ((i - 1) % (Rows + 1))
               /\ conn'[d] \in {"none", "backlog"} => got[d] = << >> /\ inbox[d] = sent[d]
    BY <2>2 DEF PoolInv, AnswersInOrder
  <2>. QED BY <2>1, <2>3, <2>4 DEF AnswersInOrder
<1>. QED
    BY <1>11, <1>12, <1>13, <1>14 DEF PoolInv

\* The connection is closed and its worker accepts the next (tcp_close).
LEMMA CloseKeeps ==
    ASSUME PoolAssumption, PoolInv, NEW w \in Workers, Close(w)
    PROVE  PoolInv'
<1>1. /\ spc[w] \in WorkerStates /\ spc[w].at = "close" /\ Busy(w) /\ ~Stopped(w) /\ w \in Serving
      /\ get_sock(w, spc[w].h) = accepted[w] /\ spc[w].lh = listeners
    BY SocketIs DEF Close, Busy, Stopped, PoolInv, WorkersPlaced, WellPlaced, Serving
<1>2. PICK st : st = [spc[w] EXCEPT !.at = "accept", !.h = 0]
    OBVIOUS
<1>3. st \in WorkerStates /\ st.at = "accept" /\ st.lh = spc[w].lh
  <2>1. PICK q \in WorkerStates : q = spc[w]
    BY <1>1
  <2>2. st = [q EXCEPT !.at = "accept", !.h = 0]
    BY <1>2, <2>1
  <2>3. st = [at |-> "accept", lh |-> q.lh, h |-> 0, rows |-> q.rows]
    BY <2>2 DEF WorkerStates
  <2>4. q.lh \in Int /\ q.rows \in 0 .. Rows /\ 0 \in Int
    BY DEF WorkerStates
  <2>. QED BY <2>1, <2>3, <2>4 DEF WorkerStates
<1>4. /\ spc' = [spc EXCEPT ![w] = st] /\ accepted' = [accepted EXCEPT ![w] = NoSock]
      /\ RemoveSock(w, spc[w].h) /\ conn' = [conn EXCEPT ![accepted[w]] = "closed"]
      /\ UNCHANGED <<shared, counter, tlNext, listeners, inbox, sent, got, erred>>
    BY <1>1, <1>2 DEF Close
<1>. QED
    BY <1>1, <1>3, <1>4, LeaveKeeps

\* A worker that only goes out of service leaves the tables and the clients as
\* they are.
LEMMA StopKeeps ==
    ASSUME PoolAssumption, PoolInv, NEW w \in Workers, NEW st \in WorkerStates,
           st.at \in {"faulted", "out"}, st.h = spc[w].h, spc' = [spc EXCEPT ![w] = st],
           accepted[w] # NoSock => Busy(w) \/ Stopped(w),
           w \in erred', erred \subseteq erred',
           UNCHANGED <<shared, conns, counter, tl, tlNext, listeners, conn, inbox, sent, got, accepted>>
    PROVE  PoolInv'
<1>1. spc' \in [Workers -> WorkerStates] /\ spc'[w] = st /\ \A x \in Workers : x # w => spc'[x] = spc[x]
    BY DEF PoolInv, WorkersPlaced
<1>2. TablesExact'
    BY <1>1, TablesRest
<1>3. ASSUME NEW x \in Workers PROVE WellPlaced(x)'
  <2>1. WellPlaced(x)
    BY DEF PoolInv, WorkersPlaced
  <2>2. CASE x = w
    BY <1>1, <2>1, <2>2 DEF Busy, Stopped, WellPlaced
  <2>3. CASE x # w
    BY <1>1, <2>1, <2>3 DEF Busy, Stopped, WellPlaced
  <2>. QED BY <2>2, <2>3
<1>4. WorkersPlaced'
    BY <1>1, <1>3 DEF PoolInv, WorkersPlaced
<1>5. \A x \in Workers : Busy(x)' => Busy(x) /\ (spc[x].at = "write" \/ spc'[x].at = "write" => spc'[x] = spc[x])
    BY <1>1 DEF Busy
<1>6. ConnsServed' /\ AnswersInOrder'
    BY <1>5, AnswersRest
<1>. QED
    BY <1>2, <1>4, <1>6 DEF PoolInv

\* An error outside peer_gone's list, and the end of the thread it faulted.
LEMMA FaultKeeps ==
    ASSUME PoolAssumption, PoolInv, NEW w \in Workers, Unexpected(w) \/ EndFaulted(w)
    PROVE  PoolInv'
<1>1. spc[w] \in WorkerStates /\ WellPlaced(w)
    BY DEF PoolInv, WorkersPlaced
<1>2. CASE Unexpected(w)
  <2>1. PICK st : st = [spc[w] EXCEPT !.at = "faulted"]
    OBVIOUS
  <2>2. st \in WorkerStates /\ st.at = "faulted" /\ st.h = spc[w].h
    BY <1>1, <2>1 DEF WorkerStates
  <2>3. /\ spc' = [spc EXCEPT ![w] = st] /\ erred' = erred \union {w}
        /\ UNCHANGED <<shared, conns, counter, tl, tlNext, listeners, conn, inbox, sent, got, accepted>>
    BY <1>2, <2>1 DEF Unexpected, tables, peers
  <2>. QED BY <1>1, <2>2, <2>3, StopKeeps DEF WellPlaced
<1>3. CASE EndFaulted(w)
  <2>1. PICK st : st = [spc[w] EXCEPT !.at = "out"]
    OBVIOUS
  <2>2. st \in WorkerStates /\ st.at = "out" /\ st.h = spc[w].h
    BY <1>1, <2>1 DEF WorkerStates
  <2>3. /\ spc' = [spc EXCEPT ![w] = st] /\ w \in erred
        /\ UNCHANGED <<shared, conns, counter, tlNext, listeners, inbox, sent, got, erred>>
    BY <1>1, <1>3, <2>1 DEF EndFaulted, WellPlaced, Stopped
  <2>4. CASE shared \/ accepted[w] = NoSock
    <3>1. UNCHANGED <<tl, conn, accepted>>
      BY <1>3, <2>4 DEF EndFaulted
    <3>. QED BY <1>1, <2>2, <2>3, <3>1, StopKeeps DEF WellPlaced
  <2>5. CASE ~shared /\ accepted[w] # NoSock
    <3>1. /\ tl' = [tl EXCEPT ![w] = <<>>] /\ conn' = [conn EXCEPT ![accepted[w]] = "closed"]
          /\ accepted' = [accepted EXCEPT ![w] = NoSock]
      BY <1>3, <2>5 DEF EndFaulted
    <3>2. w \in Serving /\ spc[w].h > 0
      BY <1>1, <2>5 DEF Serving, WellPlaced
    <3>3. tl[w] = [h \in {spc[w].h} |-> accepted[w]]
      BY <2>5 DEF PoolInv, TablesExact, OwnTables
    <3>4. PICK n, c : n = spc[w].h /\ c = accepted[w]
      OBVIOUS
    <3>5. Without(tl[w], n) = <<>>
      <4>1. PICK f : f = Without(tl[w], n)
        OBVIOUS
      <4>2. f = Without([h \in {n} |-> c], n)
        BY <3>3, <3>4, <4>1
      <4>3. Without([h \in {n} |-> c], n) = <<>>
        BY OneHandle
      <4>. QED BY <4>1, <4>2, <4>3
    <3>6. RemoveSock(w, spc[w].h)
      BY <2>3, <2>5, <3>1, <3>2, <3>4, <3>5 DEF RemoveSock
    <3>. QED BY <2>2, <2>3, <3>1, <3>2, <3>6, LeaveKeeps
  <2>. QED BY <2>4, <2>5
<1>. QED
    BY <1>2, <1>3

\* Every step keeps the invariant of the pool.
LEMMA PoolStep == ASSUME PoolAssumption PROVE PoolInv /\ [SNext]_svars => PoolInv'
<1>. SUFFICES ASSUME PoolInv, [SNext]_svars PROVE PoolInv'
    OBVIOUS
<1>1. CASE UNCHANGED svars
  <2>1. UNCHANGED <<shared, conns, counter, tl, tlNext, listeners, conn, inbox, sent, got, spc, accepted, erred>>
    BY <1>1 DEF svars
  <2>2. WorkersPlaced'
    BY <2>1 DEF PoolInv, WorkersPlaced, Busy, Stopped, WellPlaced
  <2>3. TablesExact'
    BY <2>1, TablesRest
  <2>4. ConnsServed' /\ AnswersInOrder'
    BY <2>1, AnswersRest DEF Busy
  <2>. QED BY <2>2, <2>3, <2>4 DEF PoolInv
<1>2. CASE SNext
    BY <1>2, ListenKeeps, ReadKeeps, WriteKeeps, CloseKeeps, AcceptKeeps, PeersKeep, FaultKeeps DEF SNext
<1>. QED
    BY <1>1, <1>2

\* What the tables hold is one entry for each serving worker and one for the
\* listener.
LEMMA NothingLeft ==
    ASSUME PoolAssumption, PoolInv
    PROVE  Cardinality(DOMAIN conns) + Cardinality({w \in Workers : tl[w] # <<>>})
             = Cardinality(Serving) + (IF listeners = NoSock THEN 0 ELSE 1)
<1>1. IsFiniteSet(Serving)
    BY FS_Subset DEF PoolAssumption, Serving
<1>2. PICK L : L = {h \in {listeners} : h # NoSock}
    OBVIOUS
<1>3. IsFiniteSet(L) /\ Cardinality(L) = (IF listeners = NoSock THEN 0 ELSE 1)
  <2>1. L = IF listeners = NoSock THEN {} ELSE {listeners}
    BY <1>2
  <2>. QED BY <2>1, FS_EmptySet, FS_Singleton
<1>4. CASE shared
  <2>1. OneTable
    BY <1>4 DEF PoolInv, TablesExact
  <2>2. {w \in Workers : tl[w] # <<>>} = {}
    BY <2>1 DEF OneTable
  <2>3. PICK H : H = {spc[w].h : w \in Serving}
    OBVIOUS
  <2>4. DOMAIN conns = H \union L
    BY <1>2, <2>1, <2>3 DEF OneTable
  <2>5. H \intersect L = {}
    <3>1. \A w \in Serving : conns[spc[w].h] \in Clients
      BY <2>1 DEF OneTable, PoolInv, WorkersPlaced, Serving
    <3>2. \A h \in L : conns[h] = "listener"
      BY <1>2, <2>1 DEF OneTable
    <3>. QED BY <2>3, <3>1, <3>2 DEF PoolAssumption
  <2>6. [w \in Serving |-> spc[w].h] \in Bijection(Serving, H)
    <3>1. PICK f : f = [w \in Serving |-> spc[w].h]
      OBVIOUS
    <3>2. f \in [Serving -> H] /\ \A h \in H : \E w \in Serving : f[w] = h
      BY <2>3, <3>1
    <3>3. \A w, x \in Serving : f[w] = f[x] => w = x
      BY <2>1, <3>1 DEF OneTable
    <3>4. f \in Bijection(Serving, H)
      BY <3>2, <3>3, Fun_IsBij
    <3>. QED BY <3>1, <3>4
  <2>7. IsFiniteSet(H) /\ Cardinality(H) = Cardinality(Serving)
    BY <1>1, <2>6, FS_Bijection DEF ExistsBijection
  <2>8. Cardinality(H \union L) = Cardinality(H) + Cardinality(L) - Cardinality(H \intersect L)
    BY <1>3, <2>7, FS_Union
  <2>9. Cardinality({}) = 0 /\ Cardinality(Serving) \in Nat
    BY <1>1, FS_EmptySet, FS_CardinalityType
  <2>10. PICK a \in Nat, b \in Nat : a = Cardinality(Serving) /\ b = Cardinality(L)
    BY <1>3, <2>9
  <2>11. Cardinality(DOMAIN conns) = a + b
    <3>1. Cardinality(H \intersect L) = 0
      BY <2>5, <2>9
    <3>2. Cardinality(H) = a /\ Cardinality(L) = b
      BY <2>7, <2>10
    <3>3. Cardinality(DOMAIN conns) = Cardinality(H \union L)
      BY <2>4
    <3>. QED BY <2>8, <3>1, <3>2, <3>3
  <2>12. Cardinality({w \in Workers : tl[w] # <<>>}) = 0
    BY <2>2, <2>9
  <2>. QED BY <1>3, <2>10, <2>11, <2>12
<1>5. CASE ~shared
  <2>1. OwnTables
    BY <1>5 DEF PoolInv, TablesExact
  <2>2. DOMAIN conns = L
    BY <1>2, <2>1 DEF OwnTables
  <2>3. \A w \in Workers : tl[w] # <<>> <=> accepted[w] # NoSock
    <3>. SUFFICES ASSUME NEW w \in Workers PROVE tl[w] # <<>> <=> accepted[w] # NoSock
      OBVIOUS
    <3>1. PICK k, v : k = spc[w].h /\ v = accepted[w]
      OBVIOUS
    <3>2. [h \in {k} |-> v] # << >>
      BY OneHandle
    <3>3. tl[w] = IF accepted[w] = NoSock THEN << >> ELSE [h \in {spc[w].h} |-> accepted[w]]
      BY <2>1 DEF OwnTables
    <3>4. tl[w] = IF v = NoSock THEN << >> ELSE [h \in {k} |-> v]
      BY <3>1, <3>3
    <3>. QED BY <3>1, <3>2, <3>4
  <2>4. {w \in Workers : tl[w] # <<>>} = Serving
    BY <2>3 DEF Serving
  <2>5. Cardinality(Serving) \in Nat
    BY <1>1, FS_CardinalityType
  <2>6. PICK a \in Nat, b \in Nat : a = Cardinality(Serving) /\ b = Cardinality(L)
    BY <1>3, <2>5
  <2>7. Cardinality({w \in Workers : tl[w] # <<>>}) = a
    BY <2>4, <2>6
  <2>8. Cardinality(DOMAIN conns) = b
    BY <2>2, <2>6
  <2>. QED BY <1>3, <2>6, <2>7, <2>8
<1>. QED
    BY <1>4, <1>5

\* For any number of workers, clients, requests and rows: the pool survives its
\* clients, an error takes one worker out of service and no other, nobody's connection is another's, and answers are whole and in order.
THEOREM PoolKeepsServing == SSpec => []PoolServes
<1>1. SSpec => []PoolInv
    BY PoolInit, PoolStep, PoolAssumption, PTL DEF SSpec
<1>2. PoolInv => PoolServes
  <2>. SUFFICES ASSUME PoolInv PROVE PoolServes
    OBVIOUS
  <2>1. ASSUME NEW w \in Workers
        PROVE  /\ spc[w].at \in {"faulted", "out"} => w \in erred
               /\ spc[w].at \in {"accept", "read", "write", "close"} => spc[w].lh = listeners
               /\ spc[w].at \in {"read", "write", "close"} =>
                    Knows(w, spc[w].h) /\ get_sock(w, spc[w].h) = accepted[w]
    <3>1. /\ spc[w].at \in {"faulted", "out"} => w \in erred
          /\ spc[w].at \in {"accept", "read", "write", "close"} => spc[w].lh = listeners
      BY DEF PoolInv, WorkersPlaced, WellPlaced, Stopped
    <3>2. Busy(w) => Knows(w, spc[w].h) /\ get_sock(w, spc[w].h) = accepted[w]
      BY SocketIs
    <3>. QED BY <3>1, <3>2 DEF Busy, Stopped, WellPlaced
  <2>2. \A w, x \in Workers : w # x /\ accepted[w] # NoSock => accepted[w] # accepted[x]
    BY DEF PoolInv, ConnsServed, Serving
  <2>3. ASSUME NEW c \in Clients
        PROVE  /\ \A i \in DOMAIN got[c] : got[c][i] = Rows - ((i - 1) % (Rows + 1))
               /\ Len(got[c]) <= (Rows + 1) * sent[c]
               /\ conn[c] = "open" <=> \E w \in Workers : accepted[w] = c /\ conn[c] # "gone"
    <3>1. DOMAIN got[c] = 1 .. Len(got[c])
      BY DEF PoolInv, AnswersInOrder
    <3>2. /\ \A i \in 1 .. Len(got[c]) : got[c][i] = Rows - ((i - 1) % (Rows + 1))
          /\ Len(got[c]) <= (Rows + 1) * sent[c]
      BY DEF PoolInv, AnswersInOrder, Whole
    <3>3. ASSUME conn[c] = "open" PROVE \E w \in Workers : accepted[w] = c /\ conn[c] # "gone"
      BY <3>3 DEF PoolInv, ConnsServed, Serving
    <3>4. ASSUME NEW w \in Workers, accepted[w] = c, conn[c] # "gone" PROVE conn[c] = "open"
      BY <3>4, PoolAssumption DEF PoolInv, ConnsServed, Serving, PoolAssumption
    <3>. QED BY <3>1, <3>2, <3>3, <3>4
  <2>4. Cardinality(DOMAIN conns) + Cardinality({w \in Workers : tl[w] # <<>>})
          = Cardinality({w \in Workers : accepted[w] # NoSock}) + (IF listeners = NoSock THEN 0 ELSE 1)
    BY PoolAssumption, NothingLeft DEF Serving
  <2>. QED BY <2>1, <2>2, <2>3, <2>4 DEF PoolServes
<1>. QED
    BY <1>1, <1>2, PTL
================================================================================
