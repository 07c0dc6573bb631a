----------------------- MODULE BoundedChannelProofs -------------------------
(***************************************************************************)
(* Proofs about BoundedChannel for any number of threads of each kind, any *)
(* capacity and any batch: no wakeup is lost.                              *)
(***************************************************************************)
EXTENDS BoundedChannel, FiniteSetTheorems, TLAPS

\* Where a thread can be between two critical sections.
Labels == {"idle", "enter", "not_full", "not_empty", "window", "refill", "notify"}

\* The inductive invariant of the channel, in named parts.

\* Which thread can wait where: senders alone sleep on not_full, consumers
\* alone on not_empty, and the window is the drainers'.
WaitersKnown ==
    /\ NotFull \subseteq Senders
    /\ At("not_empty") \subseteq Takers \union Drainers
    /\ At("window") \union At("refill") \subseteq Drainers

\* A drainer has nothing before its first pop, and room left in its window,
\* so a wakeup it takes there is never wasted on a full batch.
BatchHasRoom ==
    \A d \in Drainers : /\ pc[d] \in {"idle", "enter", "not_empty"} => out[d] = 0
                        /\ pc[d] \in {"window", "refill"} => out[d] < BatchMax

\* The inductive invariant: the property the run checks and the parts it rests on.
ChannelInv == WaitersAreWoken /\ WaitersKnown /\ BatchHasRoom

-----------------------------------------------------------------------------
(* Counting threads *)

\* How many threads of kind K are at a label of L when positions are p.
CountIn(p, K, L) == Cardinality({u \in K : p[u] \in L})

\* The wakeups on their way to a sender: takers about to notify, senders awake.
Notices(p) == CountIn(p, Takers, {"notify"})

\* The wakeups that have reached a sender: it is about to look again.
SendersUp(p) == CountIn(p, Senders, {"enter"})

\* The wakeups on their way to a consumer.
Pushes(p) == CountIn(p, Senders \union TrySenders, {"notify"})

\* The wakeups that have reached a consumer.
ConsumersUp(p) == CountIn(p, Takers \union Drainers, {"enter", "refill"})

\* What a thread t at label x adds to such a count.
Share(t, K, x, L) == IF t \in K /\ x \in L THEN 1 ELSE 0

\* When one thread goes from one label to another, a count changes by one at
\* most.
LEMMA CountMove ==
    ASSUME NEW p \in [Threads -> Labels], NEW q \in [Threads -> Labels], NEW t \in Threads,
           \A u \in Threads : u # t => q[u] = p[u],
           NEW K \in SUBSET Threads, NEW L \in SUBSET Labels
    PROVE  /\ CountIn(p, K, L) \in Nat
           /\ CountIn(q, K, L) \in Nat
           /\ CountIn(q, K, L)
                = CountIn(p, K, L) + Share(t, K, q[t], L) - Share(t, K, p[t], L)
  <1>. DEFINE P == {u \in K : p[u] \in L}
              Q == {u \in K : q[u] \in L}
  <1>1. IsFiniteSet(Threads)
    BY BoundedChannelAssumption DEF Threads
  <1>2. IsFiniteSet(P) /\ IsFiniteSet(Q)
    BY <1>1, FS_Subset
  <1>3. Cardinality(P) \in Nat /\ Cardinality(Q) \in Nat
    BY <1>2, FS_CardinalityType
  <1>a. \A u \in K : u # t => q[u] = p[u]
    OBVIOUS
  <1>4. CASE t \in K /\ q[t] \in L
    <2>1. Q = P \union {t} /\ (t \in P <=> p[t] \in L)
      BY <1>a, <1>4
    <2>2. Cardinality(Q) = IF t \in P THEN Cardinality(P) ELSE Cardinality(P) + 1
      BY <1>2, <2>1, FS_AddElement
    <2>3. Cardinality(Q) = Cardinality(P) + Share(t, K, q[t], L) - Share(t, K, p[t], L)
      BY <1>3, <1>4, <2>1, <2>2 DEF Share
    <2>. QED BY <1>3, <2>3 DEF CountIn
  <1>5. CASE ~(t \in K /\ q[t] \in L)
    <2>1. Q = P \ {t}
      BY <1>a, <1>5
    <2>a. t \in P <=> t \in K /\ p[t] \in L
      OBVIOUS
    <2>2. Cardinality(Q) = IF t \in P THEN Cardinality(P) - 1 ELSE Cardinality(P)
      BY <1>2, <2>1, FS_RemoveElement
    <2>3. Cardinality(Q) = Cardinality(P) + Share(t, K, q[t], L) - Share(t, K, p[t], L)
      BY <1>3, <1>5, <2>a, <2>2 DEF Share
    <2>. QED BY <1>3, <2>3 DEF CountIn
  <1>. QED BY <1>4, <1>5

\* The same for the four counts of the invariants.
LEMMA WakeupsMove ==
    ASSUME NEW p \in [Threads -> Labels], NEW q \in [Threads -> Labels], NEW t \in Threads,
           \A u \in Threads : u # t => q[u] = p[u]
    PROVE  /\ Notices(p) \in Nat /\ SendersUp(p) \in Nat
           /\ Pushes(p) \in Nat /\ ConsumersUp(p) \in Nat
           /\ Notices(q) = Notices(p) + (IF t \in Takers /\ q[t] = "notify" THEN 1 ELSE 0)
                                      - (IF t \in Takers /\ p[t] = "notify" THEN 1 ELSE 0)
           /\ SendersUp(q) = SendersUp(p) + (IF t \in Senders /\ q[t] = "enter" THEN 1 ELSE 0)
                                          - (IF t \in Senders /\ p[t] = "enter" THEN 1 ELSE 0)
           /\ Pushes(q) = Pushes(p)
                + (IF t \in Senders \union TrySenders /\ q[t] = "notify" THEN 1 ELSE 0)
                - (IF t \in Senders \union TrySenders /\ p[t] = "notify" THEN 1 ELSE 0)
           /\ ConsumersUp(q) = ConsumersUp(p)
                + (IF t \in Takers \union Drainers /\ q[t] \in {"enter", "refill"} THEN 1 ELSE 0)
                - (IF t \in Takers \union Drainers /\ p[t] \in {"enter", "refill"} THEN 1 ELSE 0)
  <1>. DEFINE S1 == Senders \union TrySenders
              C1 == Takers \union Drainers
              N1 == {"notify"}
              E1 == {"enter"}
              U1 == {"enter", "refill"}
  <1>1. /\ Takers \in SUBSET Threads /\ Senders \in SUBSET Threads
        /\ S1 \in SUBSET Threads /\ C1 \in SUBSET Threads
    BY DEF Threads
  <1>2. N1 \in SUBSET Labels /\ E1 \in SUBSET Labels /\ U1 \in SUBSET Labels
    BY DEF Labels
  <1>3. Notices(p) = CountIn(p, Takers, N1) /\ Notices(q) = CountIn(q, Takers, N1)
        /\ SendersUp(p) = CountIn(p, Senders, E1) /\ SendersUp(q) = CountIn(q, Senders, E1)
        /\ Pushes(p) = CountIn(p, S1, N1) /\ Pushes(q) = CountIn(q, S1, N1)
        /\ ConsumersUp(p) = CountIn(p, C1, U1) /\ ConsumersUp(q) = CountIn(q, C1, U1)
    BY DEF Notices, SendersUp, Pushes, ConsumersUp
  <1>4. \A K \in SUBSET Threads : \A L \in SUBSET Labels :
            /\ CountIn(p, K, L) \in Nat
            /\ CountIn(q, K, L) = CountIn(p, K, L) + Share(t, K, q[t], L) - Share(t, K, p[t], L)
    BY CountMove
  <1>5. \A x \in Labels : /\ x \in N1 <=> x = "notify"
                          /\ x \in E1 <=> x = "enter"
                          /\ x \in U1 <=> x \in {"enter", "refill"}
    BY DEF Labels
  <1>b. p[t] \in Labels /\ q[t] \in Labels
    OBVIOUS
  <1>. HIDE DEF N1, E1, U1, S1, C1
  <1>6. /\ CountIn(p, Takers, N1) \in Nat
        /\ CountIn(q, Takers, N1) = CountIn(p, Takers, N1)
                + (IF t \in Takers /\ q[t] = "notify" THEN 1 ELSE 0)
                - (IF t \in Takers /\ p[t] = "notify" THEN 1 ELSE 0)
    BY <1>1, <1>2, <1>4, <1>5, <1>b DEF Share
  <1>7. /\ CountIn(p, Senders, E1) \in Nat
        /\ CountIn(q, Senders, E1) = CountIn(p, Senders, E1)
                + (IF t \in Senders /\ q[t] = "enter" THEN 1 ELSE 0)
                - (IF t \in Senders /\ p[t] = "enter" THEN 1 ELSE 0)
    BY <1>1, <1>2, <1>4, <1>5, <1>b DEF Share
  <1>8. /\ CountIn(p, S1, N1) \in Nat
        /\ CountIn(q, S1, N1) = CountIn(p, S1, N1)
                + (IF t \in S1 /\ q[t] = "notify" THEN 1 ELSE 0)
                - (IF t \in S1 /\ p[t] = "notify" THEN 1 ELSE 0)
    BY <1>1, <1>2, <1>4, <1>5, <1>b DEF Share
  <1>9. /\ CountIn(p, C1, U1) \in Nat
        /\ CountIn(q, C1, U1) = CountIn(p, C1, U1)
                + (IF t \in C1 /\ q[t] \in {"enter", "refill"} THEN 1 ELSE 0)
                - (IF t \in C1 /\ p[t] \in {"enter", "refill"} THEN 1 ELSE 0)
    BY <1>1, <1>2, <1>4, <1>5, <1>b DEF Share
  <1>. QED BY <1>3, <1>6, <1>7, <1>8, <1>9 DEF S1, C1

\* A drainer that will still end its batch with notify_all.
Draining == \E d \in Drainers : pc[d] \in {"window", "refill", "notify"}

\* The two promises, with the counts named, before and after a step.
LEMMA PromisesCounted ==
    /\ SendersAreWoken <=>
         (NotFull # {} => Draining \/ Cap - len <= Notices(pc) + SendersUp(pc))
    /\ ConsumersAreWoken <=> (NotEmpty # {} => len <= Pushes(pc) + ConsumersUp(pc))
    /\ SendersAreWoken' <=>
         (NotFull' # {} => Draining' \/ Cap - len' <= Notices(pc') + SendersUp(pc'))
    /\ ConsumersAreWoken' <=> (NotEmpty' # {} => len' <= Pushes(pc') + ConsumersUp(pc'))
  <1>1. /\ {t \in Takers : pc[t] = "notify"} = {t \in Takers : pc[t] \in {"notify"}}
        /\ {s \in Senders : pc[s] = "enter"} = {s \in Senders : pc[s] \in {"enter"}}
        /\ {s \in Senders \union TrySenders : pc[s] = "notify"}
             = {s \in Senders \union TrySenders : pc[s] \in {"notify"}}
    OBVIOUS
  <1>2. /\ {t \in Takers : pc'[t] = "notify"} = {t \in Takers : pc'[t] \in {"notify"}}
        /\ {s \in Senders : pc'[s] = "enter"} = {s \in Senders : pc'[s] \in {"enter"}}
        /\ {s \in Senders \union TrySenders : pc'[s] = "notify"}
             = {s \in Senders \union TrySenders : pc'[s] \in {"notify"}}
    OBVIOUS
  <1>. QED BY <1>1, <1>2 DEF SendersAreWoken, ConsumersAreWoken, Notices, SendersUp, Pushes,
                       ConsumersUp, CountIn, Draining

-----------------------------------------------------------------------------
(* Who moves *)

\* GoTo moves one thread.
LEMMA MoveFacts ==
    ASSUME TypeOK, NEW t \in Threads, NEW l \in Labels, GoTo(t, l)
    PROVE  /\ pc' \in [Threads -> Labels] /\ pc'[t] = l
           /\ \A u \in Threads : u # t => pc'[u] = pc[u]
  BY DEF TypeOK, GoTo, Labels

\* Condvar::notify_one moves the notifier, and one waiter if there is one.
LEMMA NotifyOneFacts ==
    ASSUME TypeOK, NEW t \in Threads, NEW cond \in SUBSET Threads, t \notin cond,
           NotifyOne(t, cond, "idle")
    PROVE  \/ cond = {} /\ GoTo(t, "idle")
           \/ \E u \in cond, p \in [Threads -> Labels] :
                /\ u # t /\ Woken(u) \in Labels
                /\ p[t] = "idle" /\ \A v \in Threads : v # t => p[v] = pc[v]
                /\ pc' \in [Threads -> Labels] /\ pc'[u] = Woken(u)
                /\ \A v \in Threads : v # u => pc'[v] = p[v]
  <1>1. CASE cond = {} /\ GoTo(t, "idle")
    BY <1>1
  <1>2. CASE \E u \in cond : pc' = [pc EXCEPT ![t] = "idle", ![u] = Woken(u)]
    <2>1. PICK u \in cond : pc' = [pc EXCEPT ![t] = "idle", ![u] = Woken(u)]
      BY <1>2
    <2>2. Woken(u) \in Labels /\ u # t /\ u \in Threads
      BY DEF Woken, Labels
    <2>. DEFINE p == [pc EXCEPT ![t] = "idle"]
    <2>3. p \in [Threads -> Labels] /\ p[t] = "idle" /\ \A v \in Threads : v # t => p[v] = pc[v]
      BY DEF TypeOK, Labels
    <2>4. pc' = [p EXCEPT ![u] = Woken(u)]
      BY <2>1
    <2>5. pc' \in [Threads -> Labels] /\ pc'[u] = Woken(u)
          /\ \A v \in Threads : v # u => pc'[v] = p[v]
      BY <2>2, <2>3, <2>4
    <2>. QED BY <2>2, <2>3, <2>5
  <1>. QED BY <1>1, <1>2 DEF NotifyOne

\* Condvar::notify_all moves the notifier and every waiter.
LEMMA NotifyAllFacts ==
    ASSUME TypeOK, NEW d \in Threads, NotifyAll(d, NotFull, "idle")
    PROVE  /\ pc' \in [Threads -> Labels] /\ pc'[d] = "idle"
           /\ \A u \in Threads : u # d /\ pc[u] # "not_full" => pc'[u] = pc[u]
           /\ \A u \in Threads : u # d /\ pc[u] = "not_full" => pc'[u] = "enter"
  BY DEF TypeOK, NotifyAll, NotFull, At, Woken, Labels

\* The pops of a critical section of bounded_drain_batch: they end with an
\* empty queue or a full batch, and take something when there is room.
LEMMA PopFacts ==
    ASSUME TypeOK, NEW d \in Drainers, Pop(d)
    PROVE  /\ len' \in 0 .. Cap /\ len' <= len
           /\ out' \in [Drainers -> 0 .. BatchMax]
           /\ \A e \in Drainers : e # d => out'[e] = out[e]
           /\ out'[d] < BatchMax => len' = 0
           /\ out[d] < BatchMax /\ len > 0 => len' <= len - 1
  <1>. DEFINE room == BatchMax - out[d]
              n == IF len < room THEN len ELSE room
  <1>1. out[d] \in 0 .. BatchMax /\ len \in 0 .. Cap /\ BatchMax \in Nat /\ Cap \in Nat
    BY BoundedChannelAssumption DEF TypeOK
  <1>2. len' = len - n /\ out' = [out EXCEPT ![d] = @ + n]
    BY DEF Pop
  <1>3. out'[d] = out[d] + n /\ \A e \in Drainers : e # d => out'[e] = out[e]
    BY <1>2 DEF TypeOK
  <1>4. n \in 0 .. len /\ out[d] + n \in 0 .. BatchMax
    BY <1>1
  <1>5. out' \in [Drainers -> 0 .. BatchMax]
    BY <1>2, <1>4 DEF TypeOK
  <1>. QED BY <1>1, <1>2, <1>3, <1>4, <1>5

\* Every kind of thread is a thread, and of one kind.
LEMMA Kinds ==
    /\ \A s \in Senders : s \in Threads /\ s \notin TrySenders /\ s \notin Takers /\ s \notin Drainers
    /\ \A s \in TrySenders : s \in Threads /\ s \notin Senders /\ s \notin Takers /\ s \notin Drainers
    /\ \A t \in Takers : t \in Threads /\ t \notin Senders /\ t \notin TrySenders /\ t \notin Drainers
    /\ \A d \in Drainers : d \in Threads /\ d \notin Senders /\ d \notin TrySenders /\ d \notin Takers
  BY BoundedChannelAssumption DEF Threads

\* What moving one thread asks of the parts of the invariant about positions.
LEMMA PositionsKept ==
    ASSUME ChannelInv, NEW t \in Threads, pc' \in [Threads -> Labels],
           \A u \in Threads : u # t => pc'[u] = pc[u],
           pc'[t] = "not_full" => t \in Senders,
           pc'[t] = "not_empty" => t \in Takers \union Drainers,
           pc'[t] \in {"window", "refill"} => t \in Drainers
    PROVE  WaitersKnown'
  <1>1. WaitersKnown
    BY DEF ChannelInv
  <1>. QED BY <1>1 DEF WaitersKnown, NotFull, At

\* A step that pops nothing and moves no drainer keeps the batches' room.
LEMMA RoomKept ==
    ASSUME ChannelInv, out' = out,
           \A d \in Drainers : \/ pc'[d] = pc[d]
                               \/ pc[d] = "window" /\ pc'[d] = "refill"
                               \/ pc[d] \in {"idle", "enter", "not_empty"}
                                  /\ pc'[d] \in {"idle", "enter", "not_empty"}
    PROVE  BatchHasRoom'
  BY DEF ChannelInv, BatchHasRoom

\* Types, positions and batches, for each step.
LEMMA StructStep ==
    ASSUME ChannelInv, [Next]_vars
    PROVE  TypeOK' /\ WaitersKnown' /\ BatchHasRoom'
  <1>0. TypeOK /\ WaitersKnown /\ BatchHasRoom
    BY DEF ChannelInv, WaitersAreWoken
  <1>a. Cap \in Nat /\ BatchMax \in Nat /\ MaxSends \in Nat
    BY BoundedChannelAssumption
  <1>c. /\ "idle" \in Labels /\ "enter" \in Labels /\ "not_full" \in Labels /\ "notify" \in Labels
        /\ "not_empty" \in Labels /\ "window" \in Labels /\ "refill" \in Labels
    BY DEF Labels
  <1>d. ASSUME pc' \in [Threads -> Labels], len' \in 0 .. Cap,
               out' \in [Drainers -> 0 .. BatchMax],
               sends' \in [Senders \union TrySenders -> 0 .. MaxSends]
        PROVE  TypeOK'
    BY <1>d DEF TypeOK, Labels
  <1>1. ASSUME NEW s \in Senders \union TrySenders, SendCall(s) \/ Send(s)
        PROVE  TypeOK' /\ WaitersKnown' /\ BatchHasRoom'
    <2>0. s \in Threads /\ s \notin Drainers /\ out' = out /\ pc[s] # "not_full"
      BY <1>1, Kinds DEF SendCall, Send, SendWait, SendRefused, SendPush, SendNotify
    <2>1. len' \in 0 .. Cap
      BY <1>0, <1>a, <1>1 DEF TypeOK, SendCall, Send, SendWait, SendRefused, SendPush, SendNotify
    <2>2. sends' \in [Senders \union TrySenders -> 0 .. MaxSends]
      BY <1>0, <1>a, <1>1 DEF TypeOK, SendCall, Send, SendWait, SendRefused, SendPush, SendNotify
    <2>3. CASE \E l \in {"enter", "idle", "notify"} : GoTo(s, l)
      <3>1. PICK l \in {"enter", "idle", "notify"} : GoTo(s, l)
        BY <2>3
      <3>2. pc' \in [Threads -> Labels] /\ pc'[s] = l /\ \A u \in Threads : u # s => pc'[u] = pc[u]
        BY <1>0, <1>c, <2>0, <3>1, MoveFacts
      <3>3. WaitersKnown'
        BY <2>0, <3>2, PositionsKept
      <3>4. BatchHasRoom'
        BY <2>0, <3>2, Kinds, RoomKept
      <3>. QED BY <1>0, <1>d, <2>0, <2>1, <2>2, <3>2, <3>3, <3>4 DEF TypeOK
    <2>4. CASE SendWait(s)
      <3>1. s \in Senders /\ GoTo(s, "not_full")
        BY <2>4 DEF SendWait
      <3>2. pc' \in [Threads -> Labels] /\ pc'[s] = "not_full"
            /\ \A u \in Threads : u # s => pc'[u] = pc[u]
        BY <1>0, <1>c, <2>0, <3>1, MoveFacts
      <3>3. WaitersKnown'
        BY <2>0, <3>1, <3>2, PositionsKept
      <3>4. BatchHasRoom'
        BY <2>0, <3>2, Kinds, RoomKept
      <3>. QED BY <1>0, <1>d, <2>0, <2>1, <2>2, <3>2, <3>3, <3>4 DEF TypeOK
    <2>5. CASE SendNotify(s)
      <3>1. NotEmpty \in SUBSET Threads /\ s \notin NotEmpty /\ NotifyOne(s, NotEmpty, "idle")
        BY <2>5 DEF SendNotify, NotEmpty, At
      <3>2. CASE GoTo(s, "idle")
        BY <2>3, <3>2
      <3>3. CASE \E u \in NotEmpty, p \in [Threads -> Labels] :
                    /\ u # s /\ Woken(u) \in Labels
                    /\ p[s] = "idle" /\ \A v \in Threads : v # s => p[v] = pc[v]
                    /\ pc' \in [Threads -> Labels] /\ pc'[u] = Woken(u)
                    /\ \A v \in Threads : v # u => pc'[v] = p[v]
        <4>1. PICK u \in NotEmpty :
                /\ u # s /\ pc' \in [Threads -> Labels] /\ pc'[u] = Woken(u) /\ pc'[s] = "idle"
                /\ \A v \in Threads : v # u /\ v # s => pc'[v] = pc[v]
          BY <2>0, <3>3
        <4>2. /\ u \in Threads /\ pc[u] \in {"window", "not_empty"}
              /\ pc[u] = "window" => pc'[u] = "refill" /\ u \in Drainers
              /\ pc[u] = "not_empty" => pc'[u] = "enter"
          BY <1>0, <4>1 DEF NotEmpty, At, Woken, WaitersKnown
        <4>3. WaitersKnown'
          BY <1>0, <4>1, <4>2 DEF WaitersKnown, NotFull, At
        <4>4. BatchHasRoom'
          BY <2>0, <4>1, <4>2, Kinds, RoomKept
        <4>. QED BY <1>0, <1>d, <2>0, <2>1, <2>2, <4>1, <4>3, <4>4 DEF TypeOK
      <3>. QED BY <1>0, <2>0, <3>1, <3>2, <3>3, NotifyOneFacts
    <2>. QED BY <1>1, <2>3, <2>4, <2>5 DEF SendCall, Send, SendRefused, SendPush
  <1>2. ASSUME NEW t \in Takers, Take(t)
        PROVE  TypeOK' /\ WaitersKnown' /\ BatchHasRoom'
    <2>0. t \in Threads /\ t \notin Drainers /\ out' = out /\ sends' = sends
      BY <1>2, Kinds DEF Take, TakeCall, TakeWait, TakePop, TakeNotify
    <2>1. len' \in 0 .. Cap
      BY <1>0, <1>a, <1>2 DEF TypeOK, Take, TakeCall, TakeWait, TakePop, TakeNotify
    <2>2. CASE \E l \in {"enter", "idle", "notify", "not_empty"} : GoTo(t, l)
      <3>1. PICK l \in {"enter", "idle", "notify", "not_empty"} : GoTo(t, l)
        BY <2>2
      <3>2. pc' \in [Threads -> Labels] /\ pc'[t] = l /\ \A u \in Threads : u # t => pc'[u] = pc[u]
        BY <1>0, <1>c, <2>0, <3>1, MoveFacts
      <3>3. WaitersKnown'
        BY <2>0, <3>2, PositionsKept
      <3>4. BatchHasRoom'
        BY <2>0, <3>2, Kinds, RoomKept
      <3>. QED BY <1>0, <1>d, <2>0, <2>1, <3>2, <3>3, <3>4 DEF TypeOK
    <2>3. CASE TakeNotify(t)
      <3>1. NotFull \in SUBSET Threads /\ t \notin NotFull /\ NotifyOne(t, NotFull, "idle")
        BY <2>3 DEF TakeNotify, NotFull, At
      <3>2. CASE GoTo(t, "idle")
        BY <2>2, <3>2
      <3>3. CASE \E u \in NotFull, p \in [Threads -> Labels] :
                    /\ u # t /\ Woken(u) \in Labels
                    /\ p[t] = "idle" /\ \A v \in Threads : v # t => p[v] = pc[v]
                    /\ pc' \in [Threads -> Labels] /\ pc'[u] = Woken(u)
                    /\ \A v \in Threads : v # u => pc'[v] = p[v]
        <4>1. PICK u \in NotFull :
                /\ u # t /\ pc' \in [Threads -> Labels] /\ pc'[u] = Woken(u) /\ pc'[t] = "idle"
                /\ \A v \in Threads : v # u /\ v # t => pc'[v] = pc[v]
          BY <2>0, <3>3
        <4>2. u \in Threads /\ u \notin Drainers /\ pc'[u] = "enter"
          BY <1>0, <4>1, Kinds DEF NotFull, At, Woken, WaitersKnown
        <4>3. WaitersKnown'
          BY <1>0, <4>1, <4>2 DEF WaitersKnown, NotFull, At
        <4>4. BatchHasRoom'
          BY <2>0, <4>1, <4>2, Kinds, RoomKept
        <4>. QED BY <1>0, <1>d, <2>0, <2>1, <4>1, <4>3, <4>4 DEF TypeOK
      <3>. QED BY <1>0, <2>0, <3>1, <3>2, <3>3, NotifyOneFacts
    <2>. QED BY <1>2, <2>2, <2>3 DEF Take, TakeCall, TakeWait, TakePop
  <1>3. ASSUME NEW d \in Drainers, Drain(d)
        PROVE  TypeOK' /\ WaitersKnown' /\ BatchHasRoom'
    <2>0. d \in Threads /\ sends' = sends
      BY <1>3, Kinds DEF Drain, DrainCall, DrainWait, DrainFirst, DrainMore, DrainTimeout,
                         DrainNotify
    <2>1. ASSUME NEW l \in {"enter", "not_empty", "window", "notify"}, GoTo(d, l)
          PROVE  /\ pc' \in [Threads -> Labels] /\ pc'[d] = l
                 /\ \A u \in Threads : u # d => pc'[u] = pc[u]
                 /\ WaitersKnown'
      <3>1. pc' \in [Threads -> Labels] /\ pc'[d] = l /\ \A u \in Threads : u # d => pc'[u] = pc[u]
        BY <1>0, <1>c, <2>0, <2>1, MoveFacts
      <3>. QED BY <2>0, <3>1, PositionsKept
    <2>2. CASE DrainCall(d) \/ DrainWait(d)
      <3>1. out' = out /\ len' = len /\ pc[d] \in {"idle", "enter"}
            /\ \E l \in {"enter", "not_empty"} : GoTo(d, l)
        BY <2>2 DEF DrainCall, DrainWait
      <3>2. PICK l \in {"enter", "not_empty"} : GoTo(d, l)
        BY <3>1
      <3>3. /\ pc' \in [Threads -> Labels] /\ pc'[d] = l /\ WaitersKnown'
            /\ \A u \in Threads : u # d => pc'[u] = pc[u]
        BY <2>1, <3>2
      <3>4. BatchHasRoom'
        BY <3>1, <3>3, Kinds, RoomKept
      <3>. QED BY <1>0, <1>d, <2>0, <3>1, <3>3, <3>4 DEF TypeOK
    <2>3. CASE DrainFirst(d) \/ DrainMore(d) \/ DrainTimeout(d)
      <3>1. Pop(d) /\ \E l \in {"window", "notify"} : GoTo(d, l) /\ (l = "window" => out'[d] < BatchMax)
        BY <2>3 DEF DrainFirst, DrainMore, DrainTimeout
      <3>2. PICK l \in {"window", "notify"} : GoTo(d, l) /\ (l = "window" => out'[d] < BatchMax)
        BY <3>1
      <3>3. /\ pc' \in [Threads -> Labels] /\ pc'[d] = l /\ WaitersKnown'
            /\ \A u \in Threads : u # d => pc'[u] = pc[u]
        BY <2>1, <3>2
      <3>4. BatchHasRoom'
        <4>1. \A e \in Drainers : e # d => out'[e] = out[e] /\ pc'[e] = pc[e]
          BY <1>0, <3>1, <3>3, PopFacts, Kinds
        <4>. QED BY <1>0, <3>2, <3>3, <4>1 DEF BatchHasRoom
      <3>. QED BY <1>0, <1>d, <2>0, <3>1, <3>3, <3>4, PopFacts DEF TypeOK
    <2>4. CASE DrainNotify(d)
      <3>1. len' = len /\ NotifyAll(d, NotFull, "idle") /\ out' = [out EXCEPT ![d] = 0]
        BY <2>4 DEF DrainNotify
      <3>2. /\ pc' \in [Threads -> Labels] /\ pc'[d] = "idle"
            /\ \A u \in Threads : u # d /\ pc[u] # "not_full" => pc'[u] = pc[u]
            /\ \A u \in Threads : u # d /\ pc[u] = "not_full" => pc'[u] = "enter"
        BY <1>0, <2>0, <3>1, NotifyAllFacts
      <3>3. out' \in [Drainers -> 0 .. BatchMax] /\ out'[d] = 0
            /\ \A e \in Drainers : e # d => out'[e] = out[e]
        BY <1>0, <1>a, <3>1 DEF TypeOK
      <3>4. WaitersKnown'
        BY <1>0, <3>2 DEF WaitersKnown, NotFull, At
      <3>5. \A e \in Drainers : e \in Threads /\ pc[e] # "not_full"
        BY <1>0, Kinds DEF WaitersKnown, NotFull, At
      <3>6. BatchHasRoom'
        BY <1>0, <3>2, <3>3, <3>5 DEF BatchHasRoom
      <3>. QED BY <1>0, <1>d, <2>0, <3>1, <3>2, <3>3, <3>4, <3>6 DEF TypeOK
    <2>. QED BY <1>3, <2>2, <2>3, <2>4 DEF Drain
  <1>4. ASSUME NEW t \in Threads, Spurious(t)
        PROVE  TypeOK' /\ WaitersKnown' /\ BatchHasRoom'
    <2>1. /\ UNCHANGED <<len, out, sends>> /\ GoTo(t, Woken(t))
          /\ pc[t] \in {"not_full", "not_empty", "window"} /\ Woken(t) \in Labels
          /\ pc[t] = "window" => Woken(t) = "refill" /\ t \in Drainers
          /\ pc[t] # "window" => Woken(t) = "enter"
      BY <1>0, <1>4 DEF Spurious, NotFull, NotEmpty, At, Woken, Labels, WaitersKnown
    <2>2. pc' \in [Threads -> Labels] /\ pc'[t] = Woken(t)
          /\ \A u \in Threads : u # t => pc'[u] = pc[u]
      BY <1>0, <2>1, MoveFacts
    <2>3. WaitersKnown'
      BY <2>1, <2>2, PositionsKept
    <2>4. t \in Drainers => pc[t] # "not_full"
      BY <1>0, Kinds DEF WaitersKnown, NotFull, At
    <2>5. BatchHasRoom'
      BY <2>1, <2>2, <2>4, Kinds, RoomKept
    <2>. QED BY <1>0, <1>d, <2>1, <2>2, <2>3, <2>5 DEF TypeOK
  <1>5. CASE UNCHANGED vars
    BY <1>0, <1>5 DEF vars, TypeOK, WaitersKnown, BatchHasRoom, NotFull, At
  <1>. QED BY <1>1, <1>2, <1>3, <1>4, <1>5 DEF Next

-----------------------------------------------------------------------------
(* The two promises *)

\* A step keeps the promise to senders when no new one falls asleep, no drainer
\* gives up its notify_all, and free space grows no faster than wakeups.
LEMMA SendersKept ==
    ASSUME ChannelInv, TypeOK', NotFull' \subseteq NotFull, Draining => Draining',
           len + Notices(pc) + SendersUp(pc) <= len' + Notices(pc') + SendersUp(pc')
    PROVE  SendersAreWoken'
  <1>1. len \in Int /\ len' \in Int /\ Cap \in Int
    BY BoundedChannelAssumption DEF ChannelInv, WaitersAreWoken, TypeOK
  <1>2. SendersAreWoken /\ pc \in [Threads -> Labels] /\ pc' \in [Threads -> Labels]
    BY DEF ChannelInv, WaitersAreWoken, TypeOK, Labels
  <1>3. SUFFICES ASSUME NotFull' # {}, ~Draining'
                 PROVE  Cap - len' <= Notices(pc') + SendersUp(pc')
    BY PromisesCounted
  <1>4. Cap - len <= Notices(pc) + SendersUp(pc)
    BY <1>2, <1>3, PromisesCounted
  <1>5. Threads # {}
    BY <1>3 DEF NotFull, At
  <1>6. /\ Notices(pc) \in Nat /\ SendersUp(pc) \in Nat
        /\ Notices(pc') \in Nat /\ SendersUp(pc') \in Nat
    BY <1>2, <1>5, WakeupsMove
  <1>. QED BY <1>1, <1>4, <1>6

\* A step keeps the promise to consumers when no new one falls asleep and items
\* grow no faster than wakeups.
LEMMA ConsumersKept ==
    ASSUME ChannelInv, TypeOK', NotEmpty' \subseteq NotEmpty,
           len' + Pushes(pc) + ConsumersUp(pc) <= len + Pushes(pc') + ConsumersUp(pc')
    PROVE  ConsumersAreWoken'
  <1>1. len \in Int /\ len' \in Int
    BY BoundedChannelAssumption DEF ChannelInv, WaitersAreWoken, TypeOK
  <1>2. ConsumersAreWoken /\ pc \in [Threads -> Labels] /\ pc' \in [Threads -> Labels]
    BY DEF ChannelInv, WaitersAreWoken, TypeOK, Labels
  <1>3. SUFFICES ASSUME NotEmpty' # {}
                 PROVE  len' <= Pushes(pc') + ConsumersUp(pc')
    BY PromisesCounted
  <1>4. len <= Pushes(pc) + ConsumersUp(pc)
    BY <1>2, <1>3, PromisesCounted
  <1>5. Threads # {}
    BY <1>3 DEF NotEmpty, At
  <1>6. /\ Pushes(pc) \in Nat /\ ConsumersUp(pc) \in Nat
        /\ Pushes(pc') \in Nat /\ ConsumersUp(pc') \in Nat
    BY <1>2, <1>5, WakeupsMove
  <1>. QED BY <1>1, <1>4, <1>6

\* With nothing in the queue no consumer is forgotten.
LEMMA EmptyQueueKept ==
    ASSUME TypeOK', len' = 0
    PROVE  ConsumersAreWoken'
  <1>1. SUFFICES ASSUME NotEmpty' # {} PROVE 0 <= Pushes(pc') + ConsumersUp(pc')
    BY PromisesCounted
  <1>2. pc' \in [Threads -> Labels] /\ Threads # {}
    BY <1>1 DEF TypeOK, Labels, NotEmpty, At
  <1>3. Pushes(pc') \in Nat /\ ConsumersUp(pc') \in Nat
    BY <1>2, WakeupsMove
  <1>. QED BY <1>3

\* bounded_send_blocking and bounded_try_send keep both promises: a sender
\* sleeps only on a full queue, and each item pushed is announced.
LEMMA SendPromises ==
    ASSUME ChannelInv, TypeOK', NEW s \in Senders \union TrySenders, SendCall(s) \/ Send(s)
    PROVE  SendersAreWoken' /\ ConsumersAreWoken'
  <1>0. TypeOK /\ WaitersKnown /\ pc \in [Threads -> Labels]
        /\ pc' \in [Threads -> Labels] /\ len \in Int /\ Cap \in Int /\ len' \in Int
    BY BoundedChannelAssumption DEF ChannelInv, WaitersAreWoken, TypeOK, Labels
  <1>a. s \in Threads /\ s \notin Takers /\ s \notin Drainers
    BY Kinds
  <1>b. /\ "idle" \in Labels /\ "enter" \in Labels /\ "not_full" \in Labels /\ "notify" \in Labels
        /\ "not_empty" \in Labels /\ "window" \in Labels /\ "refill" \in Labels
    BY DEF Labels
  <1>1. CASE SendCall(s)
    <2>1. pc[s] = "idle" /\ GoTo(s, "enter") /\ len' = len
      BY <1>1 DEF SendCall
    <2>2. pc'[s] = "enter" /\ \A u \in Threads : u # s => pc'[u] = pc[u]
      BY <1>0, <1>a, <1>b, <2>1, MoveFacts
    <2>3. /\ Notices(pc) \in Nat /\ SendersUp(pc) \in Nat
          /\ Pushes(pc) \in Nat /\ ConsumersUp(pc) \in Nat
          /\ Notices(pc') = Notices(pc) /\ (SendersUp(pc') = SendersUp(pc) \/ SendersUp(pc') = SendersUp(pc) + 1)
          /\ Pushes(pc') = Pushes(pc) /\ ConsumersUp(pc') = ConsumersUp(pc)
      <3>1. pc[s] # "notify" /\ pc'[s] # "notify"
        BY <2>1, <2>2
      <3>2. CASE s \in Senders
        BY <1>0, <1>a, <2>1, <2>2, <3>1, <3>2, WakeupsMove
      <3>3. CASE s \notin Senders
        BY <1>0, <1>a, <2>1, <2>2, <3>1, <3>3, WakeupsMove
      <3>. QED BY <3>2, <3>3
    <2>4. NotFull' \subseteq NotFull /\ NotEmpty' \subseteq NotEmpty /\ (Draining => Draining')
      BY <1>a, <2>1, <2>2, Kinds DEF NotFull, NotEmpty, At, Draining
    <2>. QED BY <1>0, <2>1, <2>3, <2>4, SendersKept, ConsumersKept
  <1>2. CASE SendWait(s)
    <2>1. s \in Senders /\ pc[s] = "enter" /\ len >= Cap /\ GoTo(s, "not_full") /\ len' = len
      BY <1>2 DEF SendWait
    <2>2. pc'[s] = "not_full" /\ \A u \in Threads : u # s => pc'[u] = pc[u]
      BY <1>0, <1>a, <1>b, <2>1, MoveFacts
    <2>3. /\ Notices(pc) \in Nat /\ SendersUp(pc) \in Nat
          /\ Pushes(pc) \in Nat /\ ConsumersUp(pc) \in Nat
          /\ Pushes(pc') = Pushes(pc) /\ ConsumersUp(pc') = ConsumersUp(pc)
      BY <1>0, <1>a, <2>1, <2>2, WakeupsMove
    <2>6. Notices(pc') \in Nat /\ SendersUp(pc') \in Nat
      BY <1>0, <1>a, WakeupsMove
    <2>4. NotEmpty' \subseteq NotEmpty
      BY <1>a, <2>1, <2>2, Kinds DEF NotEmpty, At
    <2>5. SendersAreWoken'
      <3>1. Cap - len' <= Notices(pc') + SendersUp(pc')
        BY <1>0, <2>1, <2>6
      <3>. QED BY <3>1, PromisesCounted
    <2>. QED BY <1>0, <2>1, <2>3, <2>4, <2>5, ConsumersKept
  <1>3. CASE SendRefused(s)
    <2>1. s \in TrySenders /\ pc[s] = "enter" /\ GoTo(s, "idle") /\ len' = len
      BY <1>3 DEF SendRefused
    <2>2. pc'[s] = "idle" /\ \A u \in Threads : u # s => pc'[u] = pc[u]
      BY <1>0, <1>a, <1>b, <2>1, MoveFacts
    <2>3. /\ Notices(pc) \in Nat /\ SendersUp(pc) \in Nat
          /\ Pushes(pc) \in Nat /\ ConsumersUp(pc) \in Nat
          /\ Notices(pc') = Notices(pc) /\ SendersUp(pc') = SendersUp(pc)
          /\ Pushes(pc') = Pushes(pc) /\ ConsumersUp(pc') = ConsumersUp(pc)
      BY <1>0, <1>a, <2>1, <2>2, WakeupsMove, Kinds
    <2>4. NotFull' \subseteq NotFull /\ NotEmpty' \subseteq NotEmpty /\ (Draining => Draining')
      BY <1>a, <2>1, <2>2, Kinds DEF NotFull, NotEmpty, At, Draining
    <2>. QED BY <1>0, <2>1, <2>3, <2>4, SendersKept, ConsumersKept
  <1>4. CASE SendPush(s)
    <2>1. pc[s] = "enter" /\ GoTo(s, "notify") /\ len' = len + 1
      BY <1>4 DEF SendPush
    <2>2. pc'[s] = "notify" /\ \A u \in Threads : u # s => pc'[u] = pc[u]
      BY <1>0, <1>a, <1>b, <2>1, MoveFacts
    <2>3. /\ Notices(pc) \in Nat /\ SendersUp(pc) \in Nat
          /\ Pushes(pc) \in Nat /\ ConsumersUp(pc) \in Nat
          /\ Notices(pc') = Notices(pc) /\ (SendersUp(pc') = SendersUp(pc) \/ SendersUp(pc') = SendersUp(pc) - 1)
          /\ Pushes(pc') = Pushes(pc) + 1 /\ ConsumersUp(pc') = ConsumersUp(pc)
      BY <1>0, <1>a, <2>1, <2>2, WakeupsMove
    <2>4. NotFull' \subseteq NotFull /\ NotEmpty' \subseteq NotEmpty /\ (Draining => Draining')
      BY <1>a, <2>1, <2>2, Kinds DEF NotFull, NotEmpty, At, Draining
    <2>. QED BY <1>0, <2>1, <2>3, <2>4, SendersKept, ConsumersKept
  <1>5. CASE SendNotify(s)
    <2>1. /\ NotEmpty \in SUBSET Threads /\ s \notin NotEmpty /\ NotifyOne(s, NotEmpty, "idle")
          /\ len' = len /\ pc[s] = "notify"
      BY <1>5 DEF SendNotify, NotEmpty, At
    <2>2. CASE NotEmpty = {} /\ GoTo(s, "idle")
      <3>1. pc'[s] = "idle" /\ \A u \in Threads : u # s => pc'[u] = pc[u]
        BY <1>0, <1>a, <1>b, <2>2, MoveFacts
      <3>2. /\ Notices(pc) \in Nat /\ SendersUp(pc) \in Nat
            /\ Notices(pc') = Notices(pc) /\ SendersUp(pc') = SendersUp(pc)
        BY <1>0, <1>a, <2>1, <3>1, WakeupsMove
      <3>3. NotFull' \subseteq NotFull /\ NotEmpty' = {} /\ (Draining => Draining')
        BY <1>a, <2>1, <2>2, <3>1, Kinds DEF NotFull, NotEmpty, At, Draining
      <3>. QED BY <1>0, <2>1, <3>2, <3>3, SendersKept, PromisesCounted
    <2>3. CASE \E u \in NotEmpty, p \in [Threads -> Labels] :
                    /\ u # s /\ Woken(u) \in Labels
                    /\ p[s] = "idle" /\ \A v \in Threads : v # s => p[v] = pc[v]
                    /\ pc' \in [Threads -> Labels] /\ pc'[u] = Woken(u)
                    /\ \A v \in Threads : v # u => pc'[v] = p[v]
      <3>1. PICK u \in NotEmpty, p \in [Threads -> Labels] :
                /\ u # s /\ p[s] = "idle" /\ \A v \in Threads : v # s => p[v] = pc[v]
                /\ pc'[u] = Woken(u) /\ \A v \in Threads : v # u => pc'[v] = p[v]
        BY <2>3
      <3>2. /\ u \in Threads /\ u \in Takers \union Drainers /\ p[u] = pc[u]
            /\ pc[u] \in {"window", "not_empty"} /\ pc'[u] \in {"refill", "enter"}
            /\ (pc[u] = "window" => pc'[u] = "refill") /\ pc'[s] = "idle"
        BY <1>0, <1>a, <3>1 DEF NotEmpty, At, Woken, WaitersKnown
      <3>3. /\ Notices(pc) \in Nat /\ SendersUp(pc) \in Nat
            /\ Pushes(pc) \in Nat /\ ConsumersUp(pc) \in Nat
            /\ Notices(p) = Notices(pc) /\ SendersUp(p) = SendersUp(pc)
            /\ Pushes(p) = Pushes(pc) - 1 /\ ConsumersUp(p) = ConsumersUp(pc)
        <4>1. \A v \in Threads : v # s => p[v] = pc[v]
          BY <3>1
        <4>2. pc[s] = "notify" /\ p[s] = "idle"
          BY <2>1, <3>1
        <4>. QED BY <1>0, <1>a, <4>1, <4>2, WakeupsMove, SMTT(30)
      <3>4. u \notin Senders /\ u \notin TrySenders
        BY <3>2, Kinds
      <3>5. /\ Notices(pc') = Notices(p) /\ SendersUp(pc') = SendersUp(p)
            /\ Pushes(pc') = Pushes(p) /\ ConsumersUp(pc') = ConsumersUp(p) + 1
            /\ Notices(p) \in Nat /\ SendersUp(p) \in Nat /\ Pushes(p) \in Nat /\ ConsumersUp(p) \in Nat
        <4>1. p[u] # "notify" /\ pc'[u] # "notify" /\ p[u] \notin {"enter", "refill"}
          BY <3>2
        <4>2. \A v \in Threads : v # u => pc'[v] = p[v]
          BY <3>1
        <4>. QED BY <1>0, <3>2, <3>4, <4>1, <4>2, WakeupsMove
      <3>6. NotFull' \subseteq NotFull /\ NotEmpty' \subseteq NotEmpty
        BY <1>a, <3>1, <3>2 DEF NotFull, NotEmpty, At
      <3>7. Draining => Draining'
        BY <1>a, <3>1, <3>2, Kinds DEF Draining
      <3>. QED BY <1>0, <2>1, <3>3, <3>5, <3>6, <3>7, SendersKept, ConsumersKept
    <2>. QED BY <1>0, <1>a, <2>1, <2>2, <2>3, NotifyOneFacts
  <1>. QED BY <1>1, <1>2, <1>3, <1>4, <1>5 DEF Send

\* bounded_take_blocking keeps both promises: a taker sleeps only on an empty
\* queue, and each slot freed is announced.
LEMMA TakePromises ==
    ASSUME ChannelInv, TypeOK', NEW t \in Takers, Take(t)
    PROVE  SendersAreWoken' /\ ConsumersAreWoken'
  <1>0. TypeOK /\ WaitersKnown /\ pc \in [Threads -> Labels]
        /\ pc' \in [Threads -> Labels] /\ len \in Int /\ Cap \in Int /\ len' \in Int
    BY BoundedChannelAssumption DEF ChannelInv, WaitersAreWoken, TypeOK, Labels
  <1>a. t \in Threads /\ t \notin Senders /\ t \notin TrySenders /\ t \notin Drainers
    BY Kinds
  <1>b. /\ "idle" \in Labels /\ "enter" \in Labels /\ "notify" \in Labels
        /\ "not_empty" \in Labels
    BY DEF Labels
  <1>1. CASE TakeCall(t)
    <2>1. pc[t] = "idle" /\ GoTo(t, "enter") /\ len' = len
      BY <1>1 DEF TakeCall
    <2>2. pc'[t] = "enter" /\ \A u \in Threads : u # t => pc'[u] = pc[u]
      BY <1>0, <1>a, <1>b, <2>1, MoveFacts
    <2>3. /\ Notices(pc) \in Nat /\ SendersUp(pc) \in Nat
          /\ Pushes(pc) \in Nat /\ ConsumersUp(pc) \in Nat
          /\ Notices(pc') = Notices(pc) /\ SendersUp(pc') = SendersUp(pc)
          /\ Pushes(pc') = Pushes(pc) /\ ConsumersUp(pc') = ConsumersUp(pc) + 1
      BY <1>0, <1>a, <2>1, <2>2, WakeupsMove
    <2>4. NotFull' \subseteq NotFull /\ NotEmpty' \subseteq NotEmpty /\ (Draining => Draining')
      BY <1>a, <2>1, <2>2, Kinds DEF NotFull, NotEmpty, At, Draining
    <2>. QED BY <1>0, <2>1, <2>3, <2>4, SendersKept, ConsumersKept
  <1>2. CASE TakeWait(t)
    <2>1. pc[t] = "enter" /\ GoTo(t, "not_empty") /\ len' = len /\ len = 0
      BY <1>2 DEF TakeWait
    <2>2. pc'[t] = "not_empty" /\ \A u \in Threads : u # t => pc'[u] = pc[u]
      BY <1>0, <1>a, <1>b, <2>1, MoveFacts
    <2>3. /\ Notices(pc) \in Nat /\ SendersUp(pc) \in Nat
          /\ Notices(pc') = Notices(pc) /\ SendersUp(pc') = SendersUp(pc)
      BY <1>0, <1>a, <2>1, <2>2, WakeupsMove
    <2>4. NotFull' \subseteq NotFull /\ (Draining => Draining')
      BY <1>a, <2>1, <2>2, Kinds DEF NotFull, At, Draining
    <2>. QED BY <1>0, <2>1, <2>3, <2>4, SendersKept, EmptyQueueKept
  <1>3. CASE TakePop(t)
    <2>1. pc[t] = "enter" /\ GoTo(t, "notify") /\ len' = len - 1
      BY <1>3 DEF TakePop
    <2>2. pc'[t] = "notify" /\ \A u \in Threads : u # t => pc'[u] = pc[u]
      BY <1>0, <1>a, <1>b, <2>1, MoveFacts
    <2>3. /\ Notices(pc) \in Nat /\ SendersUp(pc) \in Nat
          /\ Pushes(pc) \in Nat /\ ConsumersUp(pc) \in Nat
          /\ Notices(pc') = Notices(pc) + 1 /\ SendersUp(pc') = SendersUp(pc)
          /\ Pushes(pc') = Pushes(pc) /\ ConsumersUp(pc') = ConsumersUp(pc) - 1
      BY <1>0, <1>a, <2>1, <2>2, WakeupsMove
    <2>4. NotFull' \subseteq NotFull /\ NotEmpty' \subseteq NotEmpty /\ (Draining => Draining')
      BY <1>a, <2>1, <2>2, Kinds DEF NotFull, NotEmpty, At, Draining
    <2>. QED BY <1>0, <2>1, <2>3, <2>4, SendersKept, ConsumersKept
  <1>4. CASE TakeNotify(t)
    <2>1. /\ NotFull \in SUBSET Threads /\ t \notin NotFull /\ NotifyOne(t, NotFull, "idle")
          /\ len' = len /\ pc[t] = "notify"
      BY <1>4 DEF TakeNotify, NotFull, At
    <2>2. CASE NotFull = {} /\ GoTo(t, "idle")
      <3>1. pc'[t] = "idle" /\ \A u \in Threads : u # t => pc'[u] = pc[u]
        BY <1>0, <1>a, <1>b, <2>2, MoveFacts
      <3>2. /\ Pushes(pc) \in Nat /\ ConsumersUp(pc) \in Nat
            /\ Pushes(pc') = Pushes(pc) /\ ConsumersUp(pc') = ConsumersUp(pc)
        BY <1>0, <1>a, <2>1, <3>1, WakeupsMove
      <3>3. NotEmpty' \subseteq NotEmpty /\ NotFull' = {}
        BY <1>a, <2>1, <2>2, <3>1 DEF NotFull, NotEmpty, At
      <3>. QED BY <1>0, <2>1, <3>2, <3>3, ConsumersKept, PromisesCounted
    <2>3. CASE \E u \in NotFull, p \in [Threads -> Labels] :
                    /\ u # t /\ Woken(u) \in Labels
                    /\ p[t] = "idle" /\ \A v \in Threads : v # t => p[v] = pc[v]
                    /\ pc' \in [Threads -> Labels] /\ pc'[u] = Woken(u)
                    /\ \A v \in Threads : v # u => pc'[v] = p[v]
      <3>1. PICK u \in NotFull, p \in [Threads -> Labels] :
                /\ u # t /\ p[t] = "idle" /\ \A v \in Threads : v # t => p[v] = pc[v]
                /\ pc'[u] = Woken(u) /\ \A v \in Threads : v # u => pc'[v] = p[v]
        BY <2>3
      <3>2. /\ u \in Threads /\ u \in Senders /\ p[u] = pc[u] /\ pc[u] = "not_full"
            /\ pc'[u] = "enter" /\ pc'[t] = "idle"
        BY <1>0, <1>a, <3>1 DEF NotFull, At, Woken, WaitersKnown
      <3>3. /\ Notices(pc) \in Nat /\ SendersUp(pc) \in Nat
            /\ Pushes(pc) \in Nat /\ ConsumersUp(pc) \in Nat
            /\ Notices(p) = Notices(pc) - 1 /\ SendersUp(p) = SendersUp(pc)
            /\ Pushes(p) = Pushes(pc) /\ ConsumersUp(p) = ConsumersUp(pc)
        <4>1. \A v \in Threads : v # t => p[v] = pc[v]
          BY <3>1
        <4>2. pc[t] = "notify" /\ p[t] = "idle"
          BY <2>1, <3>1
        <4>3. /\ Notices(pc) \in Nat /\ SendersUp(pc) \in Nat
              /\ Pushes(pc) \in Nat /\ ConsumersUp(pc) \in Nat
              /\ Notices(p) = Notices(pc) + (IF t \in Takers /\ p[t] = "notify" THEN 1 ELSE 0)
                                          - (IF t \in Takers /\ pc[t] = "notify" THEN 1 ELSE 0)
              /\ SendersUp(p) = SendersUp(pc) + (IF t \in Senders /\ p[t] = "enter" THEN 1 ELSE 0)
                                              - (IF t \in Senders /\ pc[t] = "enter" THEN 1 ELSE 0)
              /\ Pushes(p) = Pushes(pc)
                    + (IF t \in Senders \union TrySenders /\ p[t] = "notify" THEN 1 ELSE 0)
                    - (IF t \in Senders \union TrySenders /\ pc[t] = "notify" THEN 1 ELSE 0)
              /\ ConsumersUp(p) = ConsumersUp(pc)
                    + (IF t \in Takers \union Drainers /\ p[t] \in {"enter", "refill"} THEN 1 ELSE 0)
                    - (IF t \in Takers \union Drainers /\ pc[t] \in {"enter", "refill"} THEN 1 ELSE 0)
          BY <1>0, <1>a, <4>1, WakeupsMove, SMTT(30)
        <4>4. t \in Takers /\ t \notin Senders \union TrySenders
          BY Kinds, <1>a
        <4>. QED BY ONLY <4>2, <4>3, <4>4
      <3>4. u \notin Takers /\ u \notin Drainers
        BY <3>2, Kinds
      <3>5. /\ Notices(pc') = Notices(p) /\ SendersUp(pc') = SendersUp(p) + 1
            /\ Pushes(pc') = Pushes(p) /\ ConsumersUp(pc') = ConsumersUp(p)
            /\ Notices(p) \in Nat /\ SendersUp(p) \in Nat /\ Pushes(p) \in Nat /\ ConsumersUp(p) \in Nat
        <4>1. p[u] = "not_full" /\ pc'[u] = "enter"
          BY <3>2
        <4>2. \A v \in Threads : v # u => pc'[v] = p[v]
          BY <3>1
        <4>. QED BY <1>0, <3>2, <3>4, <4>1, <4>2, WakeupsMove
      <3>6. NotFull' \subseteq NotFull /\ NotEmpty' \subseteq NotEmpty
        BY <1>a, <3>1, <3>2 DEF NotFull, NotEmpty, At
      <3>7. Draining => Draining'
        BY <1>a, <3>1, <3>2, <3>4, Kinds DEF Draining
      <3>. QED BY <1>0, <2>1, <3>3, <3>5, <3>6, <3>7, SendersKept, ConsumersKept
    <2>. QED BY <1>0, <1>a, <2>1, <2>2, <2>3, NotifyOneFacts
  <1>. QED BY <1>1, <1>2, <1>3, <1>4 DEF Take

\* bounded_drain_batch keeps both promises: it sleeps only on an empty queue,
\* takes an item for each wakeup it uses up, and notifies all senders at the end.
LEMMA DrainPromises ==
    ASSUME ChannelInv, TypeOK', NEW d \in Drainers, Drain(d)
    PROVE  SendersAreWoken' /\ ConsumersAreWoken'
  <1>0. TypeOK /\ WaitersKnown /\ pc \in [Threads -> Labels]
        /\ pc' \in [Threads -> Labels] /\ len \in Nat /\ len' \in Nat
    BY BoundedChannelAssumption DEF ChannelInv, WaitersAreWoken, TypeOK, Labels
  <1>a. d \in Threads /\ d \notin Senders /\ d \notin TrySenders /\ d \notin Takers
    BY Kinds
  <1>b. /\ "enter" \in Labels /\ "notify" \in Labels /\ "not_empty" \in Labels
        /\ "window" \in Labels
    BY DEF Labels
  <1>1. CASE DrainCall(d)
    <2>1. pc[d] = "idle" /\ GoTo(d, "enter") /\ len' = len
      BY <1>1 DEF DrainCall
    <2>2. pc'[d] = "enter" /\ \A u \in Threads : u # d => pc'[u] = pc[u]
      BY <1>0, <1>a, <1>b, <2>1, MoveFacts
    <2>3. /\ Notices(pc) \in Nat /\ SendersUp(pc) \in Nat
          /\ Pushes(pc) \in Nat /\ ConsumersUp(pc) \in Nat
          /\ Notices(pc') = Notices(pc) /\ SendersUp(pc') = SendersUp(pc)
          /\ Pushes(pc') = Pushes(pc) /\ ConsumersUp(pc') = ConsumersUp(pc) + 1
      BY <1>0, <1>a, <2>1, <2>2, WakeupsMove
    <2>4. NotFull' \subseteq NotFull /\ NotEmpty' \subseteq NotEmpty /\ (Draining => Draining')
      BY <1>a, <2>1, <2>2, Kinds DEF NotFull, NotEmpty, At, Draining
    <2>. QED BY <1>0, <2>1, <2>3, <2>4, SendersKept, ConsumersKept
  <1>2. CASE DrainWait(d)
    <2>1. pc[d] = "enter" /\ GoTo(d, "not_empty") /\ len' = len /\ len = 0
      BY <1>2 DEF DrainWait
    <2>2. pc'[d] = "not_empty" /\ \A u \in Threads : u # d => pc'[u] = pc[u]
      BY <1>0, <1>a, <1>b, <2>1, MoveFacts
    <2>3. /\ Notices(pc) \in Nat /\ SendersUp(pc) \in Nat
          /\ Notices(pc') = Notices(pc) /\ SendersUp(pc') = SendersUp(pc)
      BY <1>0, <1>a, <2>1, <2>2, WakeupsMove
    <2>4. NotFull' \subseteq NotFull /\ (Draining => Draining')
      BY <1>a, <2>1, <2>2, Kinds DEF NotFull, At, Draining
    <2>. QED BY <1>0, <2>1, <2>3, <2>4, SendersKept, EmptyQueueKept
  <1>3. CASE DrainFirst(d) \/ DrainMore(d) \/ DrainTimeout(d)
    <2>1. /\ Pop(d) /\ pc[d] \in {"enter", "window", "refill"}
          /\ pc[d] = "enter" => len > 0
          /\ \E l \in {"window", "notify"} : GoTo(d, l) /\ (l = "window" => out'[d] < BatchMax)
      BY <1>3 DEF DrainFirst, DrainMore, DrainTimeout
    <2>2. PICK l \in {"window", "notify"} : GoTo(d, l) /\ (l = "window" => out'[d] < BatchMax)
      BY <2>1
    <2>3. pc'[d] = l /\ \A u \in Threads : u # d => pc'[u] = pc[u]
      BY <1>0, <1>a, <1>b, <2>2, MoveFacts
    <2>4. SendersAreWoken'
      <3>1. Draining'
        BY <2>2, <2>3 DEF Draining
      <3>. QED BY <3>1, PromisesCounted
    <2>5. CASE len' = 0
      BY <2>4, <2>5, EmptyQueueKept
    <2>6. CASE len' # 0
      <3>1. pc'[d] = "notify"
        BY <1>0, <2>1, <2>2, <2>3, <2>6, PopFacts
      <3>2. out[d] < BatchMax
        <4>1. BatchMax \in Nat \ {0}
          BY BoundedChannelAssumption
        <4>. QED BY <2>1, <4>1 DEF ChannelInv, BatchHasRoom
      <3>3. len' <= len /\ (len > 0 => len' <= len - 1)
        BY <1>0, <2>1, <3>2, PopFacts
      <3>4. len' <= len - 1
        BY <1>0, <2>6, <3>3
      <3>5. /\ Pushes(pc) \in Nat /\ ConsumersUp(pc) \in Nat
            /\ Pushes(pc') = Pushes(pc)
            /\ ConsumersUp(pc') = ConsumersUp(pc) \/ ConsumersUp(pc') = ConsumersUp(pc) - 1
        <4>1. CASE pc[d] = "window"
          BY <1>0, <1>a, <2>3, <3>1, <4>1, WakeupsMove
        <4>2. CASE pc[d] \in {"enter", "refill"}
          BY <1>0, <1>a, <2>3, <3>1, <4>2, WakeupsMove
        <4>. QED BY <2>1, <4>1, <4>2
      <3>6. NotEmpty' \subseteq NotEmpty
        BY <1>a, <2>3, <3>1 DEF NotEmpty, At
      <3>. QED BY <1>0, <2>4, <3>4, <3>5, <3>6, ConsumersKept
    <2>. QED BY <2>5, <2>6
  <1>4. CASE DrainNotify(d)
    <2>1. /\ len' = len /\ pc[d] = "notify" /\ NotifyAll(d, NotFull, "idle")
      BY <1>4 DEF DrainNotify
    <2>2. /\ pc'[d] = "idle"
          /\ \A u \in Threads : u # d /\ pc[u] # "not_full" => pc'[u] = pc[u]
          /\ \A u \in Threads : u # d /\ pc[u] = "not_full" => pc'[u] = "enter" /\ u \in Senders
      BY <1>0, <1>a, <2>1, NotifyAllFacts DEF WaitersKnown, NotFull, At
    <2>3. SendersAreWoken'
      <3>1. NotFull' = {}
        BY <1>a, <2>2 DEF NotFull, At
      <3>. QED BY <3>1, PromisesCounted
    <2>4. /\ {u \in Senders \union TrySenders : pc'[u] \in {"notify"}}
               = {u \in Senders \union TrySenders : pc[u] \in {"notify"}}
          /\ {u \in Takers \union Drainers : pc'[u] \in {"enter", "refill"}}
               = {u \in Takers \union Drainers : pc[u] \in {"enter", "refill"}}
      BY <1>a, <2>1, <2>2, Kinds
    <2>5. Pushes(pc') = Pushes(pc) /\ ConsumersUp(pc') = ConsumersUp(pc)
      BY <2>4 DEF Pushes, ConsumersUp, CountIn
    <2>6. Pushes(pc) \in Nat /\ ConsumersUp(pc) \in Nat
      BY <1>0, <1>a, WakeupsMove
    <2>7. NotEmpty' \subseteq NotEmpty
      BY <1>a, <2>2 DEF NotEmpty, At
    <2>. QED BY <1>0, <2>1, <2>3, <2>5, <2>6, <2>7, ConsumersKept
  <1>. QED BY <1>1, <1>2, <1>3, <1>4 DEF Drain

\* A wakeup for no reason is one more thread awake.
LEMMA SpuriousPromises ==
    ASSUME ChannelInv, TypeOK', NEW t \in Threads, Spurious(t)
    PROVE  SendersAreWoken' /\ ConsumersAreWoken'
  <1>0. TypeOK /\ WaitersKnown /\ pc \in [Threads -> Labels]
        /\ pc' \in [Threads -> Labels] /\ len \in Nat /\ len' \in Nat
    BY BoundedChannelAssumption DEF ChannelInv, WaitersAreWoken, TypeOK, Labels
  <1>1. /\ len' = len /\ GoTo(t, Woken(t)) /\ Woken(t) \in Labels
        /\ pc[t] \in {"not_full", "not_empty", "window"}
        /\ pc[t] = "window" => Woken(t) = "refill"
        /\ pc[t] # "window" => Woken(t) = "enter"
    BY <1>0 DEF Spurious, NotFull, NotEmpty, At, Woken, Labels
  <1>2. pc'[t] = Woken(t) /\ \A u \in Threads : u # t => pc'[u] = pc[u]
    BY <1>0, <1>1, MoveFacts
  <1>3. pc'[t] \in {"enter", "refill"} /\ (pc[t] = "window" => pc'[t] = "refill")
    BY <1>1, <1>2
  <1>4. NotFull' \subseteq NotFull /\ NotEmpty' \subseteq NotEmpty
    BY <1>2, <1>3 DEF NotFull, NotEmpty, At
  <1>5. Draining => Draining'
    BY <1>1, <1>2, <1>3, Kinds DEF Draining
  <1>6. /\ Notices(pc) \in Nat /\ SendersUp(pc) \in Nat
        /\ Pushes(pc) \in Nat /\ ConsumersUp(pc) \in Nat
        /\ Notices(pc') = Notices(pc) /\ SendersUp(pc') >= SendersUp(pc)
        /\ Pushes(pc') = Pushes(pc) /\ ConsumersUp(pc') >= ConsumersUp(pc)
        /\ SendersUp(pc') \in Nat /\ ConsumersUp(pc') \in Nat
    <2>1. pc[t] # "notify" /\ pc'[t] # "notify" /\ pc[t] \notin {"enter", "refill"} /\ pc[t] # "enter"
      BY <1>1, <1>3
    <2>2. SendersUp(pc') \in Nat /\ ConsumersUp(pc') \in Nat
      BY <1>0, WakeupsMove
    <2>3. Notices(pc) \in Nat /\ Notices(pc') = Notices(pc)
          /\ Pushes(pc) \in Nat /\ Pushes(pc') = Pushes(pc)
      BY <1>0, <1>2, <2>1, WakeupsMove
    <2>4. SendersUp(pc) \in Nat /\ SendersUp(pc') >= SendersUp(pc)
      BY <1>0, <1>2, <2>1, WakeupsMove
    <2>5. ConsumersUp(pc) \in Nat /\ ConsumersUp(pc') >= ConsumersUp(pc)
      BY <1>0, <1>2, <2>1, WakeupsMove
    <2>. QED BY <2>2, <2>3, <2>4, <2>5
  <1>. QED BY <1>0, <1>1, <1>4, <1>5, <1>6, SendersKept, ConsumersKept

-----------------------------------------------------------------------------

\* A new channel, empty and with nobody inside, satisfies the invariant.
LEMMA ChannelInit ==
    ASSUME Init
    PROVE  ChannelInv
  <1>. USE DEF Init
  <1>1. TypeOK
    BY BoundedChannelAssumption DEF TypeOK
  <1>2. NotFull = {} /\ NotEmpty = {}
    BY DEF NotFull, NotEmpty, At
  <1>3. SendersAreWoken /\ ConsumersAreWoken
    BY <1>2 DEF SendersAreWoken, ConsumersAreWoken
  <1>4. WaitersKnown
    BY DEF WaitersKnown, NotFull, At
  <1>5. BatchHasRoom
    BY Kinds DEF BatchHasRoom
  <1>. QED BY <1>1, <1>3, <1>4, <1>5 DEF ChannelInv, WaitersAreWoken

\* The invariant of the channel is inductive.
THEOREM ChannelInvariant == Spec => []ChannelInv
  <1>1. Init => ChannelInv
    BY ChannelInit
  <1>2. ASSUME ChannelInv, [Next]_vars PROVE ChannelInv'
    <2>1. TypeOK' /\ WaitersKnown' /\ BatchHasRoom'
      BY <1>2, StructStep
    <2>2. SendersAreWoken' /\ ConsumersAreWoken'
      <3>1. CASE UNCHANGED vars
        BY <1>2, <3>1 DEF vars, ChannelInv, WaitersAreWoken, SendersAreWoken,
                          ConsumersAreWoken, NotFull, NotEmpty, At
      <3>. QED BY <1>2, <2>1, <3>1, SendPromises, TakePromises, DrainPromises, SpuriousPromises
               DEF Next
    <2>. QED BY <2>1, <2>2 DEF ChannelInv, WaitersAreWoken
  <1>. QED BY <1>1, <1>2, PTL DEF Spec

\* No lost wakeup in channels.rs, for any number of senders, takers and
\* drainers: nobody sleeps on a condition variable beside the free slot or the
\* item it waits for, although every notify comes after the unlock.
THEOREM NoLostWakeup == Spec => []WaitersAreWoken
  <1>1. ChannelInv => WaitersAreWoken
    BY DEF ChannelInv
  <1>. QED BY <1>1, ChannelInvariant, PTL
=============================================================================
