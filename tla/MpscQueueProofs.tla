-------------------------- MODULE MpscQueueProofs --------------------------
(***************************************************************************)
(* Proofs about MpscQueue for any number of producers, nodes and pushes:   *)
(* type correctness, memory safety, the wake protocol, and that the queue  *)
(* implements FifoQueue.                                                   *)
(***************************************************************************)
EXTENDS MpscQueue, SequenceTheorems, FiniteSetTheorems, TLAPS

\* The structural part of the invariant, without the escape for a dropped queue.
Struct == ChainOK /\ LinksOK /\ PrivateOK

-----------------------------------------------------------------------------
(* Steps seen from the queue's structure *)

\* Taking the next value moves tail to the second node of the chain.
LEMMA TakeNextFacts ==
    ASSUME TypeOK, Struct, TakeNext
    PROVE  /\ Len(chain) >= 2 /\ next[tail] = chain[2] /\ tail' = chain[2]
           /\ chain' \in Seq(Nodes) /\ Len(chain') = Len(chain) - 1
           /\ \A i \in 1 .. Len(chain') : chain'[i] = chain[i + 1]
  <1>1. chain \in Seq(Nodes) /\ Len(chain) \in Nat /\ Len(chain) >= 1
    BY DEF TypeOK, Struct, ChainOK
  <1>2. Len(chain) >= 2
    BY <1>1 DEF Struct, ChainOK, LinksOK, TakeNext
  <1>3. next[chain[1]] = chain[2]
    <2>1. 1 \in 1 .. (Len(chain) - 1)
      BY <1>1, <1>2
    <2>2. next[chain[1]] # Null
      BY DEF TakeNext, Struct, ChainOK
    <2>. QED BY <2>1, <2>2 DEF Struct, LinksOK
  <1>4. chain # << >>
    BY <1>1
  <1>5. chain' \in Seq(Nodes) /\ Len(chain') = Len(chain) - 1
        /\ \A i \in 1 .. Len(chain') : chain'[i] = chain[i + 1]
    BY <1>1, <1>4, HeadTailProperties DEF TakeNext
  <1>. QED BY <1>2, <1>3, <1>5 DEF TakeNext, Struct, ChainOK

\* The swap of a push appends its node to the chain.
LEMMA PushSwapFacts ==
    ASSUME TypeOK, NEW p \in Producers, PushSwap(p)
    PROVE  /\ chain' \in Seq(Nodes) /\ Len(chain') = Len(chain) + 1
           /\ \A i \in 1 .. Len(chain) : chain'[i] = chain[i]
           /\ chain'[Len(chain) + 1] = pnode[p]
  <1>1. chain \in Seq(Nodes) /\ pnode[p] \in Nodes
    BY DEF TypeOK
  <1>. QED BY <1>1, AppendProperties DEF PushSwap

\* Steps that leave the list, the private nodes and the links owed alone.
LEMMA StructKept ==
    ASSUME Struct,
           UNCHANGED <<head, tail, next, value, live, chain, pnode, pprev>>,
           \A p \in Producers : /\ ppc'[p] = "link" <=> ppc[p] = "link"
                                /\ ppc'[p] = "swap" <=> ppc[p] = "swap"
    PROVE  Struct'
  <1>1. ChainOK'
    BY DEF Struct, ChainOK
  <1>2. \A p \in Producers : Linking(p)' <=> Linking(p)
    BY DEF Linking
  <1>3. LinksOK'
    <2>1. next[head] = Null /\ head' = head /\ next' = next /\ chain' = chain
          /\ pprev' = pprev /\ pnode' = pnode
      BY DEF Struct, LinksOK
    <2>2. \A i \in 1 .. (Len(chain) - 1) :
            \/ next[chain[i]] = chain[i + 1]
            \/ next[chain[i]] = Null
               /\ \E p \in Producers : Linking(p)' /\ pprev[p] = chain[i] /\ pnode[p] = chain[i + 1]
      BY <1>2 DEF Struct, LinksOK
    <2>3. \A p \in Producers : Linking(p)' =>
            \E i \in 1 .. (Len(chain) - 1) :
                pprev[p] = chain[i] /\ pnode[p] = chain[i + 1] /\ next[chain[i]] = Null
      BY <1>2 DEF Struct, LinksOK
    <2>4. \A p, q \in Producers : Linking(p)' /\ Linking(q)' /\ pprev[p] = pprev[q] => p = q
      BY <1>2 DEF Struct, LinksOK
    <2>. QED BY <2>1, <2>2, <2>3, <2>4 DEF LinksOK
  <1>4. PrivateOK'
    BY DEF Struct, PrivateOK
  <1>. QED BY <1>1, <1>3, <1>4 DEF Struct

\* Box::new at the head of push: the node is private to its producer and off the chain.
LEMMA StructAlloc ==
    ASSUME TypeOK, Struct, NEW p \in Producers, PushAlloc(p)
    PROVE  Struct'
  <1>1. PICK n \in Nodes \ live :
            /\ live' = live \union {n}
            /\ next' = [next EXCEPT ![n] = Null]
            /\ value' = [value EXCEPT ![n] = sent + 1]
            /\ pnode' = [pnode EXCEPT ![p] = n]
    BY DEF PushAlloc
  <1>2. ppc[p] = "idle" /\ ppc' = [ppc EXCEPT ![p] = "swap"]
        /\ UNCHANGED <<head, tail, chain, pprev>>
    BY DEF PushAlloc
  <1>3. sent + 1 \in Values
    BY MpscAssumption DEF PushAlloc, Values, TypeOK
  <1>4. \A i \in 1 .. Len(chain) : chain[i] # n /\ chain[i] \in Nodes
    BY <1>1 DEF Struct, ChainOK, TypeOK
  <1>5. ChainOK'
    <2>1. \A i \in 1 .. Len(chain) : value'[chain[i]] = value[chain[i]]
      BY <1>1, <1>4 DEF TypeOK
    <2>2. \A i \in 2 .. Len(chain) : i \in 1 .. Len(chain)
      BY DEF TypeOK
    <2>3. \A i \in 2 .. Len(chain) : value'[chain[i]] \in Values
      BY <2>1, <2>2 DEF Struct, ChainOK
    <2>4. \A i \in 1 .. Len(chain) : chain[i] \in live'
      BY <1>1 DEF Struct, ChainOK
    <2>. QED BY <1>2, <2>3, <2>4 DEF Struct, ChainOK
  <1>6. LinksOK'
    <2>1. \A i \in 1 .. Len(chain) : next'[chain[i]] = next[chain[i]]
      BY <1>1, <1>4 DEF TypeOK
    <2>2. Len(chain) \in 1 .. Len(chain) /\ chain[Len(chain)] = head
      BY DEF Struct, ChainOK, TypeOK
    <2>3. \A q \in Producers : Linking(q)' <=> Linking(q)
      BY <1>2 DEF Linking, TypeOK
    <2>4. \A q \in Producers : Linking(q) => pnode'[q] = pnode[q]
      BY <1>1, <1>2 DEF Linking, TypeOK
    <2>5. next'[head'] = Null
      BY <1>2, <2>1, <2>2 DEF Struct, LinksOK
    <2>6. \A i \in 1 .. (Len(chain) - 1) : i \in 1 .. Len(chain)
      BY DEF TypeOK
    <2>7. \A i \in 1 .. (Len(chain) - 1) :
            \/ next'[chain[i]] = chain[i + 1]
            \/ next'[chain[i]] = Null
               /\ \E q \in Producers : Linking(q)' /\ pprev[q] = chain[i] /\ pnode'[q] = chain[i + 1]
      BY <2>1, <2>3, <2>4, <2>6 DEF Struct, LinksOK
    <2>8. \A q \in Producers : Linking(q)' =>
            \E i \in 1 .. (Len(chain) - 1) :
                pprev[q] = chain[i] /\ pnode'[q] = chain[i + 1] /\ next'[chain[i]] = Null
      BY <2>1, <2>3, <2>4, <2>6 DEF Struct, LinksOK
    <2>9. \A q, r \in Producers : Linking(q)' /\ Linking(r)' /\ pprev[q] = pprev[r] => q = r
      BY <2>3 DEF Struct, LinksOK
    <2>. QED BY <1>2, <2>5, <2>7, <2>8, <2>9 DEF LinksOK
  <1>7. PrivateOK'
    BY <1>1, <1>2, <1>3, <1>4 DEF Struct, PrivateOK, TypeOK
  <1>. QED BY <1>5, <1>6, <1>7 DEF Struct

\* head.swap: the producer's node becomes the end of the chain, its link still missing.
LEMMA StructSwap ==
    ASSUME TypeOK, Struct, NEW p \in Producers, PushSwap(p)
    PROVE  Struct'
  <1>1. /\ chain' \in Seq(Nodes) /\ Len(chain') = Len(chain) + 1
        /\ \A i \in 1 .. Len(chain) : chain'[i] = chain[i]
        /\ chain'[Len(chain) + 1] = pnode[p]
    BY PushSwapFacts
  <1>2. /\ ppc[p] = "swap" /\ ppc' = [ppc EXCEPT ![p] = "link"]
        /\ pprev' = [pprev EXCEPT ![p] = head] /\ head' = pnode[p]
        /\ UNCHANGED <<tail, next, value, live, pnode>>
    BY DEF PushSwap
  <1>3. Len(chain) \in Nat /\ Len(chain) >= 1
    BY DEF Struct, ChainOK, TypeOK
  <1>4. ChainOK'
    BY <1>1, <1>2, <1>3, SMTT(30) DEF Struct, ChainOK, PrivateOK
  <1>5. LinksOK'
    <2>1. next'[head'] = Null
      BY <1>2 DEF Struct, PrivateOK
    <2>2. \A q \in Producers : q # p => (Linking(q)' <=> Linking(q)) /\ pprev'[q] = pprev[q]
      BY <1>2 DEF Linking, TypeOK
    <2>3. Linking(p)' /\ ~Linking(p) /\ pprev'[p] = head
      BY <1>2 DEF Linking, TypeOK
    <2>4. next[head] = Null /\ head = chain[Len(chain)]
      BY DEF Struct, LinksOK, ChainOK
    <2>5. ASSUME NEW i \in 1 .. (Len(chain') - 1)
          PROVE  \/ next'[chain'[i]] = chain'[i + 1]
                 \/ next'[chain'[i]] = Null
                    /\ \E q \in Producers : Linking(q)' /\ pprev'[q] = chain'[i]
                                                        /\ pnode'[q] = chain'[i + 1]
      <3>1. CASE i = Len(chain)
        BY <3>1, <1>1, <1>2, <1>3, <2>3, <2>4
      <3>2. CASE i # Len(chain)
        <4>1. i \in 1 .. (Len(chain) - 1) /\ i \in 1 .. Len(chain) /\ i + 1 \in 1 .. Len(chain)
          BY <3>2, <1>1, <1>3
        <4>2. chain'[i] = chain[i] /\ chain'[i + 1] = chain[i + 1]
          BY <4>1, <1>1
        <4>. QED BY <4>1, <4>2, <1>2, <2>2, <2>3 DEF Struct, LinksOK
      <3>. QED BY <3>1, <3>2
    <2>6. ASSUME NEW q \in Producers, Linking(q)'
          PROVE  \E i \in 1 .. (Len(chain') - 1) :
                    pprev'[q] = chain'[i] /\ pnode'[q] = chain'[i + 1] /\ next'[chain'[i]] = Null
      <3>1. CASE q = p
        <4>1. Len(chain) \in 1 .. (Len(chain') - 1)
          BY <1>1, <1>3
        <4>. QED BY <3>1, <4>1, <1>1, <1>2, <1>3, <2>3, <2>4
      <3>2. CASE q # p
        <4>1. PICK i \in 1 .. (Len(chain) - 1) :
                pprev[q] = chain[i] /\ pnode[q] = chain[i + 1] /\ next[chain[i]] = Null
          BY <3>2, <2>2, <2>6 DEF Struct, LinksOK
        <4>2. i \in 1 .. (Len(chain') - 1) /\ i \in 1 .. Len(chain) /\ i + 1 \in 1 .. Len(chain)
          BY <1>1, <1>3
        <4>3. chain'[i] = chain[i] /\ chain'[i + 1] = chain[i + 1]
          BY <4>2, <1>1
        <4>. QED BY <3>2, <4>1, <4>2, <4>3, <1>2, <2>2
      <3>. QED BY <3>1, <3>2
    <2>7. \A q \in Producers : Linking(q) => pprev[q] # head
      <3>1. SUFFICES ASSUME NEW q \in Producers, Linking(q) PROVE pprev[q] # head
        OBVIOUS
      <3>2. PICK i \in 1 .. (Len(chain) - 1) : pprev[q] = chain[i]
        BY <3>1 DEF Struct, LinksOK
      <3>. QED BY <3>2, <2>4, <1>3 DEF Struct, ChainOK
    <2>8. \A q, r \in Producers : Linking(q)' /\ Linking(r)' /\ pprev'[q] = pprev'[r] => q = r
      BY <2>2, <2>3, <2>7 DEF Struct, LinksOK
    <2>. QED BY <2>1, <2>5, <2>6, <2>8 DEF LinksOK
  <1>6. PrivateOK'
    <2>1. \A q \in Producers : ppc'[q] = "swap" => ppc[q] = "swap" /\ q # p /\ pnode[q] # pnode[p]
      BY <1>2 DEF Struct, PrivateOK, TypeOK
    <2>2. \A i \in 1 .. Len(chain') : chain'[i] = pnode[p] \/ \E j \in 1 .. Len(chain) : chain'[i] = chain[j]
      BY <1>1, <1>3
    <2>. QED BY <2>1, <2>2, <1>2 DEF Struct, PrivateOK
  <1>. QED BY <1>4, <1>5, <1>6 DEF Struct

\* prev.next.store: the link that was missing at one place of the chain is there.
LEMMA StructLink ==
    ASSUME TypeOK, Struct, NEW p \in Producers, PushLink(p)
    PROVE  Struct'
  <1>1. PICK k \in 1 .. (Len(chain) - 1) :
            pprev[p] = chain[k] /\ pnode[p] = chain[k + 1] /\ next[chain[k]] = Null
    BY DEF PushLink, Linking, Struct, LinksOK
  <1>2. /\ next' = [next EXCEPT ![chain[k]] = chain[k + 1]]
        /\ ppc[p] = "link" /\ ppc' = [ppc EXCEPT ![p] = "check"]
        /\ UNCHANGED <<head, tail, value, live, chain, pnode, pprev>>
    BY <1>1 DEF PushLink
  <1>3. Len(chain) \in Nat /\ \A i \in 1 .. Len(chain) : chain[i] \in Nodes
    BY DEF TypeOK
  <1>4. \A i, j \in 1 .. Len(chain) : chain[i] = chain[j] => i = j
    BY DEF Struct, ChainOK
  <1>5. next'[chain[k]] = chain[k + 1]
        /\ \A n \in Nodes : n # chain[k] => next'[n] = next[n]
    BY <1>1, <1>2, <1>3 DEF TypeOK
  <1>6. \A q \in Producers : Linking(q)' <=> Linking(q) /\ q # p
    BY <1>2 DEF Linking, TypeOK
  <1>7. ChainOK'
    BY <1>2 DEF Struct, ChainOK
  <1>8. LinksOK'
    <2>1. next'[head'] = Null
      BY <1>1, <1>2, <1>3, <1>4, <1>5 DEF Struct, ChainOK, LinksOK
    <2>2. ASSUME NEW i \in 1 .. (Len(chain) - 1)
          PROVE  \/ next'[chain[i]] = chain[i + 1]
                 \/ next'[chain[i]] = Null
                    /\ \E q \in Producers : Linking(q)' /\ pprev[q] = chain[i] /\ pnode[q] = chain[i + 1]
      <3>1. CASE i = k
        BY <3>1, <1>5
      <3>2. CASE i # k
        <4>1. chain[i] # chain[k] /\ chain[i] \in Nodes
          BY <3>2, <1>1, <1>3, <1>4
        <4>2. next'[chain[i]] = next[chain[i]]
          BY <4>1, <1>5
        <4>3. \A q \in Producers : pprev[q] = chain[i] => q # p
          BY <4>1, <1>1
        <4>. QED BY <4>2, <4>3, <1>6 DEF Struct, LinksOK
      <3>. QED BY <3>1, <3>2
    <2>3. ASSUME NEW q \in Producers, Linking(q)'
          PROVE  \E i \in 1 .. (Len(chain) - 1) :
                    pprev[q] = chain[i] /\ pnode[q] = chain[i + 1] /\ next'[chain[i]] = Null
      <3>1. Linking(q) /\ q # p /\ Linking(p)
        BY <2>3, <1>6, <1>2 DEF Linking
      <3>2. PICK i \in 1 .. (Len(chain) - 1) :
                pprev[q] = chain[i] /\ pnode[q] = chain[i + 1] /\ next[chain[i]] = Null
        BY <3>1 DEF Struct, LinksOK
      <3>3. chain[i] # chain[k]
        BY <3>1, <3>2, <1>1 DEF Struct, LinksOK
      <3>4. chain[i] \in Nodes
        BY <1>3
      <3>5. next'[chain[i]] = Null
        BY <3>2, <3>3, <3>4, <1>5
      <3>. QED BY <3>2, <3>5
    <2>4. \A q, r \in Producers : Linking(q)' /\ Linking(r)' /\ pprev[q] = pprev[r] => q = r
      BY <1>6 DEF Struct, LinksOK
    <2>. QED BY <2>1, <2>2, <2>3, <2>4, <1>2 DEF LinksOK
  <1>9. PrivateOK'
    <2>1. \A q \in Producers : ppc'[q] = "swap" <=> ppc[q] = "swap"
      BY <1>2 DEF TypeOK
    <2>2. \A q \in Producers : ppc[q] = "swap" => next'[pnode[q]] = next[pnode[q]]
      BY <1>1, <1>3, <1>5 DEF Struct, PrivateOK, TypeOK
    <2>. QED BY <2>1, <2>2, <1>2 DEF Struct, PrivateOK
  <1>. QED BY <1>7, <1>8, <1>9 DEF Struct

\* pop with a successor: the stub is freed and the chain loses its first node.
LEMMA StructTake ==
    ASSUME TypeOK, Struct, TakeNext, UNCHANGED <<ppc, pnode, pprev>>
    PROVE  Struct'
  <1>1. /\ Len(chain) >= 2 /\ next[tail] = chain[2] /\ tail' = chain[2]
        /\ chain' \in Seq(Nodes) /\ Len(chain') = Len(chain) - 1
        /\ \A i \in 1 .. Len(chain') : chain'[i] = chain[i + 1]
    BY TakeNextFacts
  <1>2. /\ value' = [value EXCEPT ![chain[2]] = Empty] /\ live' = live \ {tail}
        /\ UNCHANGED <<head, next>>
    BY <1>1 DEF TakeNext
  <1>3. Len(chain) \in Nat /\ \A i \in 1 .. Len(chain) : chain[i] \in Nodes
    BY DEF TypeOK
  <1>4. \A i, j \in 1 .. Len(chain) : chain[i] = chain[j] => i = j
    BY DEF Struct, ChainOK
  <1>5. chain[1] = tail /\ chain[Len(chain)] = head
    BY DEF Struct, ChainOK
  <1>6. \A q \in Producers : Linking(q)' <=> Linking(q)
    BY DEF Linking
  <1>7. ChainOK'
    <2>1. Len(chain') >= 1 /\ chain'[1] = tail' /\ chain'[Len(chain')] = head'
      BY <1>1, <1>2, <1>3, <1>5
    <2>2. \A i, j \in 1 .. Len(chain') : chain'[i] = chain'[j] => i = j
      BY <1>1, <1>3, <1>4
    <2>3. \A i \in 1 .. Len(chain') : chain'[i] \in live'
      <3>1. SUFFICES ASSUME NEW i \in 1 .. Len(chain') PROVE chain'[i] \in live'
        OBVIOUS
      <3>2. i + 1 \in 1 .. Len(chain) /\ 1 \in 1 .. Len(chain) /\ i + 1 # 1
        BY <1>1, <1>3
      <3>3. chain[i + 1] # tail
        BY <3>2, <1>4, <1>5
      <3>. QED BY <3>2, <3>3, <1>1, <1>2 DEF Struct, ChainOK
    <2>4. \A i \in 2 .. Len(chain') : value'[chain'[i]] \in Values
      <3>1. SUFFICES ASSUME NEW i \in 2 .. Len(chain') PROVE value'[chain'[i]] \in Values
        OBVIOUS
      <3>2. i \in 1 .. Len(chain') /\ i + 1 \in 2 .. Len(chain) /\ i + 1 \in 1 .. Len(chain)
            /\ 2 \in 1 .. Len(chain) /\ i + 1 # 2
        BY <1>1, <1>3
      <3>3. chain[i + 1] # chain[2] /\ chain[i + 1] \in Nodes
        BY <3>2, <1>3, <1>4
      <3>4. value'[chain[i + 1]] = value[chain[i + 1]]
        BY <3>3, <1>2 DEF TypeOK
      <3>. QED BY <3>2, <3>4, <1>1 DEF Struct, ChainOK
    <2>. QED BY <2>1, <2>2, <2>3, <2>4 DEF ChainOK
  <1>8. LinksOK'
    <2>1. next'[head'] = Null
      BY <1>2 DEF Struct, LinksOK
    <2>2. ASSUME NEW i \in 1 .. (Len(chain') - 1)
          PROVE  \/ next'[chain'[i]] = chain'[i + 1]
                 \/ next'[chain'[i]] = Null
                    /\ \E q \in Producers : Linking(q)' /\ pprev'[q] = chain'[i]
                                                        /\ pnode'[q] = chain'[i + 1]
      <3>1. i + 1 \in 1 .. (Len(chain) - 1)
        BY <1>1, <1>3
      <3>2. chain'[i] = chain[i + 1] /\ chain'[i + 1] = chain[(i + 1) + 1]
        BY <1>1, <1>3
      <3>. QED BY <3>1, <3>2, <1>2, <1>6 DEF Struct, LinksOK
    <2>3. ASSUME NEW q \in Producers, Linking(q)'
          PROVE  \E i \in 1 .. (Len(chain') - 1) :
                    pprev'[q] = chain'[i] /\ pnode'[q] = chain'[i + 1] /\ next'[chain'[i]] = Null
      <3>1. PICK i \in 1 .. (Len(chain) - 1) :
                pprev[q] = chain[i] /\ pnode[q] = chain[i + 1] /\ next[chain[i]] = Null
        BY <2>3, <1>6 DEF Struct, LinksOK
      <3>2. next[tail] # Null
        BY DEF TakeNext
      <3>3. i # 1
        BY <3>1, <3>2, <1>5
      <3>4. i - 1 \in 1 .. (Len(chain') - 1) /\ i - 1 \in 1 .. Len(chain') /\ i \in 1 .. Len(chain')
        BY <3>3, <1>1, <1>3
      <3>5. chain'[i - 1] = chain[(i - 1) + 1] /\ chain'[i] = chain[i + 1]
            /\ (i - 1) + 1 = i
        BY <3>4, <1>1
      <3>6. pprev'[q] = chain'[i - 1] /\ pnode'[q] = chain'[(i - 1) + 1]
            /\ next'[chain'[i - 1]] = Null
        BY <3>1, <3>5, <1>2
      <3>. QED BY <3>4, <3>6
    <2>4. \A q, r \in Producers : Linking(q)' /\ Linking(r)' /\ pprev'[q] = pprev'[r] => q = r
      BY <1>6 DEF Struct, LinksOK
    <2>. QED BY <2>1, <2>2, <2>3, <2>4 DEF LinksOK
  <1>9. PrivateOK'
    <2>1. ASSUME NEW q \in Producers, ppc'[q] = "swap"
          PROVE  /\ pnode'[q] \in live' /\ next'[pnode'[q]] = Null /\ value'[pnode'[q]] \in Values
                 /\ \A i \in 1 .. Len(chain') : chain'[i] # pnode'[q]
      <3>1. /\ pnode[q] \in live /\ next[pnode[q]] = Null /\ value[pnode[q]] \in Values
            /\ \A i \in 1 .. Len(chain) : chain[i] # pnode[q]
        BY <2>1 DEF Struct, PrivateOK
      <3>2. pnode[q] # tail /\ pnode[q] # chain[2] /\ pnode[q] \in Nodes
        BY <3>1, <1>1, <1>3, <1>5 DEF TypeOK
      <3>3. \A i \in 1 .. Len(chain') : i + 1 \in 1 .. Len(chain)
        BY <1>1, <1>3
      <3>4. value'[pnode[q]] = value[pnode[q]]
        BY <3>2, <1>2 DEF TypeOK
      <3>. QED BY <3>1, <3>2, <3>3, <3>4, <1>1, <1>2
    <2>2. \A q, r \in Producers :
            ppc'[q] = "swap" /\ ppc'[r] = "swap" /\ pnode'[q] = pnode'[r] => q = r
      BY DEF Struct, PrivateOK
    <2>. QED BY <2>1, <2>2 DEF PrivateOK
  <1>. QED BY <1>7, <1>8, <1>9 DEF Struct

-----------------------------------------------------------------------------
(* Steps of the consumer and of its surroundings *)

\* What the consumer may do to the list: take the next value, or nothing.
LEMMA ConsumerSteps ==
    ASSUME Consume \/ DeadlinePasses \/ ParkSpurious
    PROVE  /\ cpc # "dropped" /\ cpc' # "dropped"
           /\ UNCHANGED <<ppc, pnode, pprev, sent>>
           /\ TakeNext \/ UNCHANGED <<head, tail, next, value, live, chain>>
  <1>. USE DEF pvars, qvars
  <1>1. CASE Call \/ FirstNext \/ FirstHead
    BY <1>1 DEF Call, FirstNext, FirstHead, NoNext, Inconsistent, AnswerEmpty
  <1>2. CASE GiveUp \/ PublishWaiter \/ SecondNext \/ SecondHead
    BY <1>2 DEF GiveUp, PublishWaiter, SecondNext, SecondHead, NoNext, Inconsistent, AnswerEmpty
  <1>3. CASE Park \/ ParkTimeout \/ ParkSpurious \/ ReclaimWaiter \/ DeadlinePasses
    BY <1>3 DEF Park, ParkTimeout, ParkSpurious, ReclaimWaiter, DeadlinePasses
  <1>. QED BY <1>1, <1>2, <1>3 DEF Consume

\* The same step keeps the types of the list's variables.
LEMMA TypeTake ==
    ASSUME TypeOK, Struct, TakeNext
    PROVE  /\ head' \in Nodes /\ tail' \in Nodes /\ next' \in [Nodes -> Nodes \union {Null}]
           /\ value' \in [Nodes -> Values \union {Empty}] /\ live' \in SUBSET Nodes
           /\ chain' \in Seq(Nodes) /\ answer' \in Values \union {Empty}
  <1>1. chain' \in Seq(Nodes)
    BY TakeNextFacts
  <1>2. next[tail] \in Nodes
    BY DEF TypeOK, TakeNext
  <1>. QED BY <1>1, <1>2 DEF TypeOK, TakeNext

\* The step of a producer keeps the types.
LEMMA TypePush ==
    ASSUME TypeOK, NEW p \in Producers, Push(p)
    PROVE  TypeOK'
  <1>1. CASE PushAlloc(p)
    <2>1. sent + 1 \in Values /\ sent + 1 \in 0 .. MaxPush
      BY <1>1, MpscAssumption DEF PushAlloc, Values, TypeOK
    <2>. QED BY <1>1, <2>1 DEF PushAlloc, TypeOK, Pcs, cvars
  <1>2. CASE PushSwap(p)
    <2>1. chain' \in Seq(Nodes)
      BY <1>2, PushSwapFacts
    <2>. QED BY <1>2, <2>1 DEF PushSwap, TypeOK, Pcs, cvars
  <1>3. CASE PushLink(p)
    BY <1>3 DEF PushLink, TypeOK, Pcs, cvars
  <1>4. CASE PushCheck(p) \/ PushClaim(p) \/ PushUnpark(p)
    BY <1>4 DEF PushCheck, PushClaim, PushUnpark, TypeOK, Pcs, cvars, qvars
  <1>. QED BY <1>1, <1>2, <1>3, <1>4 DEF Push

\* Every step of the consumer, the deadline and a spurious unpark keep the types.
LEMMA TypeConsumer ==
    ASSUME TypeOK, Struct, Consume \/ DeadlinePasses \/ ParkSpurious
    PROVE  TypeOK'
  <1>1. UNCHANGED <<ppc, pnode, pprev, sent>>
    BY ConsumerSteps
  <1>2. /\ head' \in Nodes /\ tail' \in Nodes /\ next' \in [Nodes -> Nodes \union {Null}]
        /\ value' \in [Nodes -> Values \union {Empty}] /\ live' \in SUBSET Nodes
        /\ chain' \in Seq(Nodes)
    <2>1. CASE TakeNext
      BY <2>1, TypeTake
    <2>2. CASE UNCHANGED <<head, tail, next, value, live, chain>>
      BY <2>2 DEF TypeOK
    <2>. QED BY <2>1, <2>2, ConsumerSteps
  <1>3. answer' \in Values \union {Empty}
    <2>1. TakeNext \/ NoNext \/ Inconsistent \/ AnswerEmpty \/ UNCHANGED answer
      BY DEF Consume, Call, FirstNext, FirstHead, GiveUp, PublishWaiter, SecondNext, SecondHead,
             Park, ParkTimeout, ReclaimWaiter, DeadlinePasses, ParkSpurious, qvars
    <2>2. CASE TakeNext
      BY <2>2, TypeTake
    <2>. QED BY <2>1, <2>2 DEF NoNext, Inconsistent, AnswerEmpty, qvars, TypeOK
  <1>4. /\ waiter' \in {"null", "handle"} /\ token' \in {0, 1}
        /\ cpc' \in Cpcs /\ mode' \in Modes /\ due' \in {0, 1} /\ after' \in {"return", "retry"}
    <2>. USE DEF TypeOK, Cpcs
    <2>1. CASE Call
      BY <2>1 DEF Call, Modes
    <2>2. CASE FirstNext \/ FirstHead \/ GiveUp \/ PublishWaiter
      BY <2>2 DEF FirstNext, FirstHead, GiveUp, PublishWaiter
    <2>3. CASE SecondNext \/ SecondHead \/ Park \/ ParkTimeout
      BY <2>3 DEF SecondNext, SecondHead, Park, ParkTimeout
    <2>4. CASE ParkSpurious \/ ReclaimWaiter \/ DeadlinePasses
      BY <2>4 DEF ParkSpurious, ReclaimWaiter, DeadlinePasses
    <2>. QED BY <2>1, <2>2, <2>3, <2>4 DEF Consume
  <1>. QED BY <1>1, <1>2, <1>3, <1>4 DEF TypeOK

-----------------------------------------------------------------------------
(* The invariant is inductive *)

\* MpscQueue::new: one live stub, nobody pushing, no waiter.
LEMMA IInvInit == Init => IInv
  <1>. SUFFICES ASSUME Init PROVE IInv
    OBVIOUS
  <1>. USE MpscAssumption DEF Init
  <1>1. TypeOK
    BY DEF TypeOK, Pcs, Cpcs, Modes
  <1>2. Struct
    BY DEF Struct, ChainOK, LinksOK, PrivateOK, Linking
  <1>3. WakeInv /\ DroppedOK
    BY DEF WakeInv, SlotFreeAtPublish, HandleOK, ParkOK, DroppedOK
  <1>. QED BY <1>1, <1>2, <1>3 DEF IInv, QueueInv, Struct

\* Every step keeps the list in order.
LEMMA QueueStep ==
    ASSUME IInv, [Next]_vars
    PROVE  QueueInv'
  <1>. USE DEF IInv
  <1>1. ASSUME NEW p \in Producers, Push(p) PROVE QueueInv'
    <2>1. Struct /\ cpc # "dropped"
      <3>1. cpc # "dropped"
        BY <1>1 DEF DroppedOK, Push, PushAlloc, PushSwap, PushLink, PushCheck, PushClaim, PushUnpark
      <3>. QED BY <3>1 DEF QueueInv, Struct
    <2>2. CASE PushAlloc(p) \/ PushSwap(p) \/ PushLink(p)
      BY <2>1, <2>2, StructAlloc, StructSwap, StructLink DEF QueueInv, Struct
    <2>3. CASE PushCheck(p) \/ PushClaim(p) \/ PushUnpark(p)
      <3>1. UNCHANGED <<head, tail, next, value, live, chain, pnode, pprev>>
        BY <2>3 DEF PushCheck, PushClaim, PushUnpark, qvars
      <3>2. \A q \in Producers : /\ ppc'[q] = "link" <=> ppc[q] = "link"
                                 /\ ppc'[q] = "swap" <=> ppc[q] = "swap"
        BY <2>3 DEF PushCheck, PushClaim, PushUnpark, TypeOK
      <3>. QED BY <2>1, <3>1, <3>2, StructKept DEF QueueInv, Struct
    <2>. QED BY <1>1, <2>2, <2>3 DEF Push
  <1>2. CASE Consume \/ DeadlinePasses \/ ParkSpurious
    <2>1. Struct
      BY <1>2, ConsumerSteps DEF QueueInv, Struct
    <2>2. UNCHANGED <<ppc, pnode, pprev>>
      BY <1>2, ConsumerSteps
    <2>3. CASE TakeNext
      BY <2>1, <2>2, <2>3, StructTake DEF QueueInv, Struct
    <2>4. CASE UNCHANGED <<head, tail, next, value, live, chain>>
      BY <2>1, <2>2, <2>4, StructKept DEF QueueInv, Struct
    <2>. QED BY <1>2, <2>3, <2>4, ConsumerSteps
  <1>3. CASE DropQueue
    BY <1>3 DEF DropQueue, QueueInv
  <1>4. CASE UNCHANGED vars
    BY <1>4 DEF vars, qvars, pvars, cvars, QueueInv, ChainOK, LinksOK, PrivateOK, Linking
  <1>. QED BY <1>1, <1>2, <1>3, <1>4 DEF Next

\* Every step keeps the types.
LEMMA TypeStep ==
    ASSUME IInv, [Next]_vars
    PROVE  TypeOK'
  <1>. USE DEF IInv
  <1>1. CASE \E p \in Producers : Push(p)
    BY <1>1, TypePush
  <1>2. CASE Consume \/ DeadlinePasses \/ ParkSpurious
    <2>1. Struct
      BY <1>2, ConsumerSteps DEF QueueInv, Struct
    <2>. QED BY <1>2, <2>1, TypeConsumer
  <1>3. CASE DropQueue
    BY <1>3 DEF DropQueue, TypeOK, Cpcs, pvars
  <1>4. CASE UNCHANGED vars
    BY <1>4 DEF vars, qvars, pvars, cvars, TypeOK
  <1>. QED BY <1>1, <1>2, <1>3, <1>4 DEF Next

\* Every step of a producer keeps the wake protocol.
LEMMA WakePush ==
    ASSUME IInv, NEW p \in Producers, Push(p)
    PROVE  WakeInv'
  <1>. USE DEF IInv
  <1>1. UNCHANGED <<cpc, tail>> /\ cpc # "dropped"
    BY DEF Push, PushAlloc, PushSwap, PushLink, PushCheck, PushClaim, PushUnpark, cvars, qvars, DroppedOK
  <1>2. Struct
    BY <1>1 DEF QueueInv, Struct
  <1>3. SlotFreeAtPublish /\ HandleOK /\ ParkOK
    BY <1>1 DEF WakeInv
  <1>4. CASE PushAlloc(p)
    <2>1. UNCHANGED <<waiter, token>> /\ ppc' = [ppc EXCEPT ![p] = "swap"] /\ ppc[p] = "idle"
      BY <1>4 DEF PushAlloc
    <2>2. next'[tail] = next[tail]
      <3>1. PICK n \in Nodes \ live : next' = [next EXCEPT ![n] = Null]
        BY <1>4 DEF PushAlloc
      <3>2. tail \in live
        BY <1>2 DEF Struct, ChainOK, TypeOK
      <3>. QED BY <3>1, <3>2 DEF TypeOK
    <2>3. \A q \in Producers : ppc'[q] \in {"check", "claim", "unpark"} \/ ppc[q] \notin {"check", "claim", "unpark"}
      BY <2>1 DEF TypeOK
    <2>4. \A q \in Producers : ppc[q] = "unpark" => ppc'[q] = "unpark"
      BY <2>1 DEF TypeOK
    <2>5. HandleOK'
      BY <1>1, <1>3, <2>1, <2>4 DEF HandleOK
    <2>6. ParkOK'
      BY <1>1, <1>3, <2>1, <2>2, <2>3 DEF ParkOK
    <2>. QED BY <1>1, <1>3, <2>1, <2>5, <2>6 DEF WakeInv, SlotFreeAtPublish
  <1>5. CASE PushSwap(p)
    <2>1. UNCHANGED <<waiter, token, next>> /\ ppc' = [ppc EXCEPT ![p] = "link"] /\ ppc[p] = "swap"
      BY <1>5 DEF PushSwap
    <2>2. \A q \in Producers : q # p => ppc'[q] = ppc[q]
      BY <2>1 DEF TypeOK
    <2>3. HandleOK'
      BY <1>1, <1>3, <2>1, <2>2 DEF HandleOK
    <2>4. ParkOK'
      BY <1>1, <1>3, <2>1, <2>2 DEF ParkOK
    <2>. QED BY <1>1, <1>3, <2>1, <2>3, <2>4 DEF WakeInv, SlotFreeAtPublish
  <1>6. CASE PushLink(p)
    <2>1. UNCHANGED <<waiter, token>> /\ ppc' = [ppc EXCEPT ![p] = "check"] /\ ppc[p] = "link"
      BY <1>6 DEF PushLink
    <2>2. ppc'[p] = "check" /\ \A q \in Producers : q # p => ppc'[q] = ppc[q]
      BY <2>1 DEF TypeOK
    <2>3. HandleOK'
      BY <1>1, <1>3, <2>1, <2>2 DEF HandleOK
    <2>4. ParkOK'
      BY <2>2 DEF ParkOK
    <2>. QED BY <1>1, <1>3, <2>1, <2>3, <2>4 DEF WakeInv, SlotFreeAtPublish
  <1>7. CASE PushCheck(p)
    <2>1. UNCHANGED <<waiter, token, next>> /\ ppc[p] = "check"
          /\ ppc' = [ppc EXCEPT ![p] = IF waiter = "handle" THEN "claim" ELSE "idle"]
      BY <1>7 DEF PushCheck, qvars
    <2>2. /\ waiter = "handle" => ppc'[p] = "claim"
          /\ \A q \in Producers : q # p => ppc'[q] = ppc[q]
      BY <2>1 DEF TypeOK
    <2>3. HandleOK'
      BY <1>1, <1>3, <2>1, <2>2 DEF HandleOK
    <2>4. ParkOK'
      <3>1. CASE waiter = "handle"
        BY <3>1, <2>2 DEF ParkOK
      <3>2. CASE waiter # "handle"
        BY <3>2, <1>1, <1>3, <2>1, <2>2 DEF HandleOK, ParkOK
      <3>. QED BY <3>1, <3>2
    <2>. QED BY <1>1, <1>3, <2>1, <2>3, <2>4 DEF WakeInv, SlotFreeAtPublish
  <1>8. CASE PushClaim(p)
    <2>1. UNCHANGED <<token, next>> /\ ppc[p] = "claim" /\ waiter' = "null"
          /\ ppc' = [ppc EXCEPT ![p] = IF waiter = "handle" THEN "unpark" ELSE "idle"]
      BY <1>8 DEF PushClaim, qvars
    <2>2. /\ waiter = "handle" => ppc'[p] = "unpark"
          /\ \A q \in Producers : q # p => ppc'[q] = ppc[q]
      BY <2>1 DEF TypeOK
    <2>3. HandleOK'
      BY <1>1, <1>3, <2>1, <2>2 DEF HandleOK
    <2>4. ParkOK'
      BY <1>1, <2>1, <2>3 DEF HandleOK, ParkOK
    <2>. QED BY <2>1, <2>3, <2>4 DEF WakeInv, SlotFreeAtPublish
  <1>9. CASE PushUnpark(p)
    BY <1>1, <1>3, <1>9 DEF PushUnpark, WakeInv, SlotFreeAtPublish, HandleOK, ParkOK
  <1>. QED BY <1>4, <1>5, <1>6, <1>7, <1>8, <1>9 DEF Push

\* Every step of the consumer keeps the wake protocol: it parks only when head
\* is tail, and then tail has no successor yet.
LEMMA WakeConsumer ==
    ASSUME IInv, Consume \/ DeadlinePasses \/ ParkSpurious
    PROVE  WakeInv'
  <1>. USE DEF IInv
  <1>1. cpc # "dropped" /\ cpc' # "dropped" /\ UNCHANGED ppc
    BY ConsumerSteps
  <1>2. SlotFreeAtPublish /\ HandleOK /\ ParkOK
    BY <1>1 DEF WakeInv
  <1>3. CASE Call \/ FirstNext \/ FirstHead \/ GiveUp
    BY <1>2, <1>3 DEF Call, FirstNext, FirstHead, GiveUp, WakeInv, SlotFreeAtPublish, HandleOK, ParkOK
  <1>4. CASE PublishWaiter \/ SecondNext
    BY <1>1, <1>2, <1>4 DEF PublishWaiter, SecondNext, WakeInv, SlotFreeAtPublish, HandleOK, ParkOK
  <1>5. CASE SecondHead
    <2>1. next'[tail'] = Null \/ cpc' # "park"
      BY <1>1, <1>5 DEF SecondHead, Inconsistent, AnswerEmpty, QueueInv, LinksOK, qvars
    <2>2. HandleOK'
      BY <1>1, <1>2, <1>5 DEF SecondHead, HandleOK
    <2>. QED BY <1>5, <2>1, <2>2 DEF SecondHead, WakeInv, SlotFreeAtPublish, ParkOK
  <1>6. CASE Park \/ ParkTimeout \/ ParkSpurious \/ ReclaimWaiter
    BY <1>6 DEF Park, ParkTimeout, ParkSpurious, ReclaimWaiter, WakeInv, SlotFreeAtPublish, HandleOK, ParkOK
  <1>7. CASE DeadlinePasses
    BY <1>1, <1>2, <1>7 DEF DeadlinePasses, qvars, WakeInv, SlotFreeAtPublish, HandleOK, ParkOK
  <1>. QED BY <1>3, <1>4, <1>5, <1>6, <1>7 DEF Consume

\* The invariant is inductive: types, list and wake protocol together.
LEMMA IInvStep == IInv /\ [Next]_vars => IInv'
  <1>. SUFFICES ASSUME IInv, [Next]_vars PROVE IInv'
    OBVIOUS
  <1>1. TypeOK' /\ QueueInv'
    BY TypeStep, QueueStep
  <1>2. WakeInv'
    <2>1. CASE DropQueue
      BY <2>1 DEF DropQueue, WakeInv, SlotFreeAtPublish, HandleOK
    <2>2. CASE UNCHANGED vars
      BY <2>2 DEF IInv, vars, qvars, pvars, cvars, WakeInv, SlotFreeAtPublish, HandleOK, ParkOK
    <2>. QED BY <2>1, <2>2, WakePush, WakeConsumer DEF Next
  <1>3. DroppedOK'
    <2>1. CASE \E p \in Producers : Push(p)
      BY <2>1 DEF IInv, DroppedOK, Push, PushAlloc, PushSwap, PushLink, PushCheck, PushClaim,
                  PushUnpark, cvars
    <2>2. CASE Consume \/ DeadlinePasses \/ ParkSpurious
      BY <2>2, ConsumerSteps DEF DroppedOK
    <2>3. CASE DropQueue
      BY <2>3 DEF DropQueue, DroppedOK, pvars
    <2>4. CASE UNCHANGED vars
      BY <2>4 DEF IInv, DroppedOK, vars, pvars, cvars
    <2>. QED BY <2>1, <2>2, <2>3, <2>4 DEF Next
  <1>. QED BY <1>1, <1>2, <1>3 DEF IInv

\* The linked list, the private nodes and the wake protocol are in order in
\* every reachable state of push, pop_blocking and pop_blocking_until.
THEOREM IInvHolds == Spec => []IInv
  BY IInvInit, IInvStep, PTL DEF Spec

-----------------------------------------------------------------------------
(* What follows from it *)

\* Every variable of the queue keeps its type.
THEOREM TypeCorrect == Spec => []TypeOK
  <1>1. IInv => TypeOK
    BY DEF IInv
  <1>. QED BY <1>1, IInvHolds, PTL

\* Neither push nor pop ever touches a freed node, and no link is overwritten.
THEOREM MemorySafe == Spec => []NoUseAfterFree
  <1>1. IInv => NoUseAfterFree
    <2>. SUFFICES ASSUME IInv, cpc # "dropped" PROVE NoUseAfterFree
      BY DEF NoUseAfterFree
    <2>1. TypeOK /\ Struct
      BY DEF IInv, QueueInv, Struct
    <2>2. Len(chain) \in Nat /\ Len(chain) >= 1 /\ \A i \in 1 .. Len(chain) : chain[i] \in live
      BY <2>1 DEF TypeOK, Struct, ChainOK
    <2>3. {head, tail} \subseteq live
      BY <2>1, <2>2 DEF Struct, ChainOK
    <2>4. next[tail] # Null => next[tail] \in live
      <3>1. SUFFICES ASSUME next[tail] # Null PROVE next[tail] \in live
        OBVIOUS
      <3>2. Len(chain) >= 2
        BY <3>1, <2>1, <2>2 DEF Struct, ChainOK, LinksOK
      <3>3. 1 \in 1 .. (Len(chain) - 1) /\ 2 \in 1 .. Len(chain) /\ 1 + 1 = 2
        BY <3>2, <2>2
      <3>4. next[tail] = chain[2]
        BY <3>1, <3>3, <2>1 DEF Struct, ChainOK, LinksOK
      <3>. QED BY <3>3, <3>4, <2>2
    <2>5. \A p \in Producers : Linking(p) =>
            pnode[p] \in live /\ pprev[p] \in live /\ next[pprev[p]] = Null
      <3>1. SUFFICES ASSUME NEW p \in Producers, Linking(p)
                     PROVE  pnode[p] \in live /\ pprev[p] \in live /\ next[pprev[p]] = Null
        OBVIOUS
      <3>2. PICK i \in 1 .. (Len(chain) - 1) :
                pprev[p] = chain[i] /\ pnode[p] = chain[i + 1] /\ next[chain[i]] = Null
        BY <3>1, <2>1 DEF Struct, LinksOK
      <3>3. i \in 1 .. Len(chain) /\ i + 1 \in 1 .. Len(chain)
        BY <2>2
      <3>. QED BY <3>2, <3>3, <2>2
    <2>6. \A p \in Producers : ppc[p] = "swap" => pnode[p] \in live
      BY <2>1 DEF Struct, PrivateOK
    <2>. QED BY <2>3, <2>4, <2>5, <2>6 DEF NoUseAfterFree, Linking
  <1>. QED BY <1>1, IInvHolds, PTL

\* No wakeup is lost between push and a consumer that parks.
THEOREM WakeupsAreNotLost == Spec => []NoLostWakeup
  <1>1. IInv => NoLostWakeup
    <2>. SUFFICES ASSUME IInv, cpc = "park", token = 0, head # tail
                  PROVE  \E p \in Producers : ppc[p] \in {"link", "check", "claim", "unpark"}
      BY DEF NoLostWakeup
    <2>1. TypeOK /\ Struct /\ ParkOK
      BY DEF IInv, QueueInv, Struct, WakeInv
    <2>2. 1 \in 1 .. (Len(chain) - 1) /\ 2 \in 1 .. Len(chain) /\ 1 + 1 = 2
      BY <2>1 DEF Struct, ChainOK, TypeOK
    <2>3. chain[1] = tail /\ chain[2] \in Nodes
      BY <2>1, <2>2 DEF Struct, ChainOK, TypeOK
    <2>4. CASE next[tail] = chain[2]
      BY <2>1, <2>3, <2>4, MpscAssumption DEF ParkOK
    <2>5. CASE next[tail] # chain[2]
      BY <2>1, <2>2, <2>3, <2>5 DEF Struct, LinksOK, Linking
    <2>. QED BY <2>4, <2>5
  <1>. QED BY <1>1, IInvHolds, PTL

\* The debug_assert of pop_blocking holds: no published handle is overwritten.
THEOREM PublishFindsSlotFree == Spec => []SlotFreeAtPublish
  <1>1. IInv => SlotFreeAtPublish
    BY DEF IInv, WakeInv
  <1>. QED BY <1>1, IInvHolds, PTL

-----------------------------------------------------------------------------
(* Refinement: the values behind tail are a first-in first-out queue *)

\* A function on 1 .. n is a sequence of length n.
LEMMA FunctionIsSeq ==
    ASSUME NEW S, NEW n \in Nat, NEW f \in [1 .. n -> S]
    PROVE  f \in Seq(S) /\ Len(f) = n
  OBVIOUS

\* `pending' lists the values behind tail.
PendingShape ==
    /\ pending \in Seq(Values) /\ Len(pending) = Len(chain) - 1
    /\ \A i \in 1 .. (Len(chain) - 1) : pending[i] = value[chain[i + 1]]

\* The queue the chain stands for, from the list invariant of the same state.
LEMMA PendingFacts == TypeOK /\ ChainOK => PendingShape
  <1>. SUFFICES ASSUME TypeOK, ChainOK PROVE PendingShape
    OBVIOUS
  <1>1. Len(chain) \in Nat /\ Len(chain) - 1 \in Nat
    BY DEF TypeOK, ChainOK
  <1>2. \A i \in 1 .. (Len(chain) - 1) : i + 1 \in 2 .. Len(chain)
    BY <1>1
  <1>3. pending \in [1 .. (Len(chain) - 1) -> Values]
    BY <1>2 DEF pending, ChainOK
  <1>4. pending \in Seq(Values) /\ Len(pending) = Len(chain) - 1
    <2>. HIDE DEF pending
    <2>. QED BY <1>1, <1>3, FunctionIsSeq
  <1>. QED BY <1>1, <1>4 DEF pending, PendingShape

\* The same of the next state.
LEMMA PendingFactsPrimed == TypeOK' /\ ChainOK' => PendingShape'
  BY PendingFacts, PTL

\* The values of the same nodes in the same order are the same queue.
LEMMA PendingKept ==
    ASSUME chain' = chain, \A i \in 2 .. Len(chain) : value'[chain[i]] = value[chain[i]],
           Len(chain) \in Nat
    PROVE  pending' = pending
  <1>1. \A i \in 1 .. (Len(chain) - 1) : value'[chain[i + 1]] = value[chain[i + 1]]
    OBVIOUS
  <1>. QED BY <1>1 DEF pending

\* The swap of a push is the instant its value is sent.
LEMMA SwapSends ==
    ASSUME TypeOK, Struct, Struct', TypeOK', NEW p \in Producers, PushSwap(p)
    PROVE  Fifo!Send
  <1>1. /\ Len(chain') = Len(chain) + 1
        /\ \A i \in 1 .. Len(chain) : chain'[i] = chain[i]
        /\ chain'[Len(chain) + 1] = pnode[p]
    BY PushSwapFacts
  <1>2. value' = value /\ answer' = answer /\ value[pnode[p]] \in Values
    BY DEF PushSwap, Struct, PrivateOK
  <1>3. /\ pending \in Seq(Values) /\ Len(pending) = Len(chain) - 1
        /\ \A i \in 1 .. (Len(chain) - 1) : pending[i] = value[chain[i + 1]]
    BY PendingFacts DEF Struct, PendingShape
  <1>4. /\ pending' \in Seq(Values) /\ Len(pending') = Len(chain') - 1
        /\ \A i \in 1 .. (Len(chain') - 1) : pending'[i] = value'[chain'[i + 1]]
    BY PendingFactsPrimed DEF Struct, PendingShape
  <1>5. Len(chain) \in Nat /\ Len(chain) >= 1
    BY DEF TypeOK, Struct, ChainOK
  <1>. DEFINE s == Append(pending, value[pnode[p]])
  <1>6. /\ s \in Seq(Values) /\ Len(s) = Len(chain)
        /\ \A i \in 1 .. (Len(chain) - 1) : s[i] = pending[i]
        /\ s[Len(chain)] = value[pnode[p]]
    BY <1>2, <1>3, <1>5, AppendProperties
  <1>7. \A i \in 1 .. Len(chain) : pending'[i] = s[i]
    <2>1. SUFFICES ASSUME NEW i \in 1 .. Len(chain) PROVE pending'[i] = s[i]
      OBVIOUS
    <2>2. pending'[i] = value[chain'[i + 1]]
      BY <1>1, <1>2, <1>4, <1>5
    <2>3. CASE i = Len(chain)
      BY <2>2, <2>3, <1>1, <1>6
    <2>4. CASE i # Len(chain)
      <3>1. i \in 1 .. (Len(chain) - 1) /\ i + 1 \in 1 .. Len(chain)
        BY <2>4, <1>5
      <3>. QED BY <3>1, <2>2, <1>1, <1>3, <1>6
    <2>. QED BY <2>3, <2>4
  <1>8. Len(pending') = Len(chain)
    BY <1>1, <1>4, <1>5
  <1>. HIDE DEF s
  <1>9. pending' = s
    BY <1>4, <1>6, <1>7, <1>8, SeqEqual
  <1>. QED BY <1>2, <1>9 DEF s, Fifo!Send

\* A pop that takes a value receives the oldest one.
LEMMA TakeReceives ==
    ASSUME TypeOK, Struct, Struct', TypeOK', TakeNext
    PROVE  Fifo!Receive
  <1>1. /\ Len(chain) >= 2 /\ next[tail] = chain[2] /\ tail' = chain[2]
        /\ Len(chain') = Len(chain) - 1
        /\ \A i \in 1 .. Len(chain') : chain'[i] = chain[i + 1]
    BY TakeNextFacts
  <1>2. value' = [value EXCEPT ![chain[2]] = Empty] /\ answer' = value[chain[2]]
    BY <1>1 DEF TakeNext
  <1>3. /\ pending \in Seq(Values) /\ Len(pending) = Len(chain) - 1
        /\ \A i \in 1 .. (Len(chain) - 1) : pending[i] = value[chain[i + 1]]
    BY PendingFacts DEF Struct, PendingShape
  <1>4. /\ pending' \in Seq(Values) /\ Len(pending') = Len(chain') - 1
        /\ \A i \in 1 .. (Len(chain') - 1) : pending'[i] = value'[chain'[i + 1]]
    BY PendingFactsPrimed DEF Struct, PendingShape
  <1>5. Len(chain) \in Nat /\ \A i \in 1 .. Len(chain) : chain[i] \in Nodes
    BY DEF TypeOK
  <1>6. pending # << >> /\ Head(pending) = value[chain[2]]
    BY <1>1, <1>3, <1>5
  <1>7. /\ Tail(pending) \in Seq(Values) /\ Len(Tail(pending)) = Len(chain) - 2
        /\ \A i \in 1 .. (Len(chain) - 2) : Tail(pending)[i] = pending[i + 1]
    BY <1>3, <1>5, <1>6, HeadTailProperties
  <1>8. \A i \in 1 .. (Len(chain) - 2) : pending'[i] = Tail(pending)[i]
    <2>1. SUFFICES ASSUME NEW i \in 1 .. (Len(chain) - 2) PROVE pending'[i] = Tail(pending)[i]
      OBVIOUS
    <2>2. i \in 1 .. (Len(chain') - 1) /\ i + 1 \in 1 .. Len(chain') /\ i + 1 \in 1 .. (Len(chain) - 1)
          /\ (i + 1) + 1 \in 1 .. Len(chain) /\ 2 \in 1 .. Len(chain) /\ (i + 1) + 1 # 2
      BY <1>1, <1>5
    <2>3. chain[(i + 1) + 1] # chain[2] /\ chain[(i + 1) + 1] \in Nodes
      BY <2>2, <1>5 DEF Struct, ChainOK
    <2>4. value'[chain[(i + 1) + 1]] = value[chain[(i + 1) + 1]]
      BY <2>3, <1>2 DEF TypeOK
    <2>5. pending'[i] = value'[chain[(i + 1) + 1]]
      BY <2>2, <1>1, <1>4
    <2>6. Tail(pending)[i] = value[chain[(i + 1) + 1]]
      BY <2>2, <1>3, <1>7
    <2>. QED BY <2>4, <2>5, <2>6
  <1>9. Len(pending') = Len(chain) - 2
    BY <1>1, <1>4, <1>5
  <1>10. pending' = Tail(pending)
    BY <1>4, <1>7, <1>8, <1>9, SeqEqual
  <1>. QED BY <1>2, <1>6, <1>10 DEF Fifo!Receive

\* Empty is answered only when nothing is pending.
LEMMA EmptyMeansEmpty ==
    ASSUME TypeOK, Struct, AnswerEmpty
    PROVE  Fifo!ReportEmpty
  <1>1. /\ pending \in Seq(Values) /\ Len(pending) = Len(chain) - 1
    BY PendingFacts DEF Struct, PendingShape
  <1>2. Len(chain) = 1
    <2>1. 1 \in 1 .. Len(chain) /\ Len(chain) \in 1 .. Len(chain)
      BY DEF Struct, ChainOK, TypeOK
    <2>2. chain[1] = chain[Len(chain)]
      BY DEF Struct, ChainOK, AnswerEmpty
    <2>. QED BY <2>1, <2>2 DEF Struct, ChainOK
  <1>3. pending = << >>
    BY <1>1, <1>2, EmptySeq
  <1>4. pending' = pending
    BY <1>2, PendingKept DEF AnswerEmpty
  <1>. QED BY <1>3, <1>4 DEF AnswerEmpty, Fifo!ReportEmpty

\* Every step of push and pop is a step of the FIFO queue or changes nothing it sees.
LEMMA RefinementStep == IInv /\ IInv' /\ [Next]_vars => [Fifo!Next]_<<pending, answer>>
  <1>. SUFFICES ASSUME IInv, IInv', [Next]_vars PROVE [Fifo!Next]_<<pending, answer>>
    OBVIOUS
  <1>0. TypeOK /\ TypeOK' /\ Len(chain) \in Nat
    BY DEF IInv, TypeOK
  <1>1. ASSUME NEW p \in Producers, Push(p) PROVE [Fifo!Next]_<<pending, answer>>
    <2>1. cpc # "dropped" /\ cpc' = cpc
      BY <1>1 DEF IInv, DroppedOK, Push, PushAlloc, PushSwap, PushLink, PushCheck, PushClaim,
                  PushUnpark, cvars
    <2>2. Struct /\ Struct'
      BY <2>1 DEF IInv, QueueInv, Struct
    <2>3. CASE PushAlloc(p)
      <3>1. PICK n \in Nodes \ live : value' = [value EXCEPT ![n] = sent + 1]
        BY <2>3 DEF PushAlloc
      <3>2. \A i \in 2 .. Len(chain) : chain[i] \in live /\ chain[i] \in Nodes
        BY <1>0, <2>2 DEF Struct, ChainOK, TypeOK
      <3>3. \A i \in 2 .. Len(chain) : value'[chain[i]] = value[chain[i]]
        BY <3>1, <3>2, <1>0 DEF TypeOK
      <3>4. chain' = chain /\ answer' = answer
        BY <2>3 DEF PushAlloc
      <3>. QED BY <3>3, <3>4, <1>0, PendingKept
    <2>4. CASE PushSwap(p)
      BY <1>0, <2>2, <2>4, SwapSends DEF Fifo!Next
    <2>5. CASE PushLink(p) \/ PushCheck(p) \/ PushClaim(p) \/ PushUnpark(p)
      <3>1. UNCHANGED <<chain, value, answer>>
        BY <2>5 DEF PushLink, PushCheck, PushClaim, PushUnpark, qvars
      <3>. QED BY <3>1, <1>0, PendingKept
    <2>. QED BY <1>1, <2>3, <2>4, <2>5 DEF Push
  <1>2. CASE Consume \/ DeadlinePasses \/ ParkSpurious
    <2>1. Struct /\ Struct'
      BY <1>2, ConsumerSteps DEF IInv, QueueInv, Struct
    <2>2. TakeNext \/ AnswerEmpty \/ UNCHANGED <<chain, value, answer>>
      BY <1>2 DEF Consume, Call, FirstNext, FirstHead, GiveUp, PublishWaiter, SecondNext, SecondHead,
            Park, ParkTimeout, ReclaimWaiter, DeadlinePasses, ParkSpurious, qvars, NoNext, Inconsistent
    <2>3. CASE TakeNext
      BY <1>0, <2>1, <2>3, TakeReceives DEF Fifo!Next
    <2>4. CASE AnswerEmpty
      BY <1>0, <2>1, <2>4, EmptyMeansEmpty DEF Fifo!Next
    <2>5. CASE UNCHANGED <<chain, value, answer>>
      BY <2>5, <1>0, PendingKept
    <2>. QED BY <2>2, <2>3, <2>4, <2>5
  <1>3. CASE DropQueue \/ UNCHANGED vars
    <2>1. UNCHANGED <<chain, value, answer>>
      BY <1>3 DEF DropQueue, vars, qvars
    <2>. QED BY <2>1, <1>0, PendingKept
  <1>. QED BY <1>1, <1>2, <1>3 DEF Next

\* mpsc_intrusive.rs implements a first-in first-out queue: the order is that
\* of the head swaps, nothing is lost, duplicated or invented, and pop answers
\* Empty only when every value pushed has been popped.
THEOREM Refinement == Spec => ImplementsFifo
  <1>1. Init => Fifo!Init
    <2>. SUFFICES ASSUME Init PROVE Fifo!Init
      OBVIOUS
    <2>1. TypeOK /\ ChainOK /\ Len(chain) = 1
      BY IInvInit DEF IInv, QueueInv, Init
    <2>2. pending \in Seq(Values) /\ Len(pending) = 0
      BY <2>1, PendingFacts DEF PendingShape
    <2>3. pending = << >>
      BY <2>2, EmptySeq
    <2>. QED BY <2>3 DEF Init, Fifo!Init
  <1>. QED BY <1>1, RefinementStep, IInvHolds, PTL DEF Spec, ImplementsFifo, Fifo!Spec

-----------------------------------------------------------------------------
(* Drop *)

\* Every nonempty set of natural numbers has a least element: intervals from 1
\* are finite sets, which inclusion orders well.
LEMMA LeastNat ==
    ASSUME NEW T \in SUBSET Nat, T # {}
    PROVE  \E x \in T : \A y \in T : x <= y
  <1>. DEFINE F == {1 .. n : n \in T}
              R == StrictSubsetOrdering(Nat)
              U == FiniteSubsetsOf(Nat)
  <1>1. IsWellFoundedOn(R, U)
    BY FS_StrictSubsetOrderingWellFounded
  <1>2. F \subseteq U /\ F # {}
    <2>1. \A n \in T : IsFiniteSet(1 .. n) /\ 1 .. n \subseteq Nat
      BY FS_Interval
    <2>. QED BY <2>1 DEF FiniteSubsetsOf
  <1>3. PICK s \in F : \A t \in F : ~ (<<t, s>> \in R)
    <2>. HIDE DEF R, U, F
    <2>. QED BY <1>1, <1>2, WFMin
  <1>4. PICK x \in T : s = 1 .. x
    OBVIOUS
  <1>5. ASSUME NEW y \in T PROVE x <= y
    <2>1. <<1 .. y, 1 .. x>> \notin R
      BY <1>3, <1>4
    <2>2. ASSUME y < x PROVE FALSE
      <3>1. 1 .. y \subseteq 1 .. x /\ x \in 1 .. x /\ x \notin 1 .. y
        BY <2>2
      <3>2. 1 .. y # 1 .. x
        BY <3>1
      <3>3. 1 .. y \in SUBSET Nat /\ 1 .. x \in SUBSET Nat
        OBVIOUS
      <3>. QED BY <2>1, <3>1, <3>2, <3>3 DEF StrictSubsetOrdering
    <2>. QED BY <2>2
  <1>. QED BY <1>5

\* A node that is allocated can be found: it is in the chain, or it is in the
\* hand of a producer before its swap.
NoNodeLost ==
    cpc # "dropped" => \A n \in live : \/ \E i \in 1 .. Len(chain) : chain[i] = n
                                       \/ \E p \in Producers : ppc[p] = "swap" /\ pnode[p] = n

\* With nobody inside push, the walk of Drop along next comes by every node of
\* the chain: the first node it missed would have a predecessor it visited.
LEMMA DropVisitsChain ==
    ASSUME TypeOK, Struct, \A p \in Producers : ppc[p] = "idle", NEW i \in 1 .. Len(chain)
    PROVE  chain[i] \in Reachable(tail)
  <1>1. chain \in Seq(Nodes) /\ Len(chain) \in Nat /\ chain[1] = tail
    BY DEF TypeOK, Struct, ChainOK
  <1>2. \A k \in 1 .. Len(chain) : chain[k] \in Nodes /\ chain[k] # Null
    BY <1>1, MpscAssumption
  <1>3. \A k \in 1 .. (Len(chain) - 1) : next[chain[k]] = chain[k + 1]
    BY DEF Struct, LinksOK, Linking
  <1>4. ASSUME NEW S \in SUBSET Nodes, tail \in S, \A k \in S : next[k] # Null => next[k] \in S
        PROVE  chain[i] \in S
    <2>. DEFINE T == {k \in 1 .. Len(chain) : chain[k] \notin S}
    <2>1. SUFFICES ASSUME chain[i] \notin S PROVE FALSE
      OBVIOUS
    <2>2. T \in SUBSET Nat /\ T # {}
      BY <2>1
    <2>3. PICK m \in T : \A k \in T : m <= k
      <3>. HIDE DEF T
      <3>. QED BY <2>2, LeastNat
    <2>4. m \in 1 .. Len(chain) /\ m # 1 /\ chain[m] \notin S
      BY <1>1, <1>4
    <2>5. m - 1 \in 1 .. (Len(chain) - 1) /\ m - 1 \notin T /\ m - 1 \in 1 .. Len(chain)
      BY <1>1, <2>3, <2>4
    <2>6. chain[m - 1] \in S
      BY <2>5
    <2>7. next[chain[m - 1]] = chain[m]
      BY <1>1, <1>3, <2>4, <2>5
    <2>. QED BY <1>2, <1>4, <2>4, <2>6, <2>7
  <1>. QED BY <1>2, <1>4 DEF Reachable

\* push adds a node to the hand of its producer and then to the chain, pop frees
\* the node that leaves the chain.
LEMMA LostStep ==
    ASSUME IInv, NoNodeLost, [Next]_vars
    PROVE  NoNodeLost'
  <1>. USE DEF IInv
  <1>1. SUFFICES ASSUME cpc' # "dropped", NEW n \in live'
                 PROVE  \/ \E i \in 1 .. Len(chain') : chain'[i] = n
                        \/ \E p \in Producers : ppc'[p] = "swap" /\ pnode'[p] = n
    BY DEF NoNodeLost
  <1>2. ASSUME NEW p \in Producers, Push(p) PROVE NoNodeLost'
    <2>0. cpc # "dropped"
      BY <1>2 DEF DroppedOK, Push, PushAlloc, PushSwap, PushLink, PushCheck, PushClaim, PushUnpark
    <2>1. CASE PushAlloc(p)
      <3>1. PICK x \in Nodes : live' = live \union {x} /\ pnode' = [pnode EXCEPT ![p] = x]
        BY <2>1 DEF PushAlloc
      <3>2. ppc[p] = "idle" /\ ppc' = [ppc EXCEPT ![p] = "swap"] /\ UNCHANGED chain
        BY <2>1 DEF PushAlloc
      <3>3. ppc'[p] = "swap" /\ pnode'[p] = x
            /\ \A q \in Producers : q # p => ppc'[q] = ppc[q] /\ pnode'[q] = pnode[q]
        BY <3>1, <3>2 DEF TypeOK
      <3>. QED BY <2>0, <3>1, <3>2, <3>3 DEF NoNodeLost
    <2>2. CASE PushSwap(p)
      <3>1. /\ Len(chain') = Len(chain) + 1 /\ Len(chain) \in Nat
            /\ \A i \in 1 .. Len(chain) : chain'[i] = chain[i]
            /\ chain'[Len(chain) + 1] = pnode[p]
        BY <2>2, PushSwapFacts DEF TypeOK
      <3>2. UNCHANGED <<live, pnode>> /\ \A q \in Producers : q # p => ppc'[q] = ppc[q]
        BY <2>2 DEF PushSwap, TypeOK
      <3>3. ASSUME NEW x \in live
            PROVE  \/ \E i \in 1 .. Len(chain') : chain'[i] = x
                   \/ \E q \in Producers : ppc'[q] = "swap" /\ pnode'[q] = x
        <4>1. CASE \E i \in 1 .. Len(chain) : chain[i] = x
          BY <3>1, <4>1
        <4>2. CASE \E q \in Producers : ppc[q] = "swap" /\ pnode[q] = x
          <5>1. Len(chain) + 1 \in 1 .. Len(chain')
            BY <3>1
          <5>. QED BY <3>1, <3>2, <4>2, <5>1
        <4>. QED BY <2>0, <4>1, <4>2 DEF NoNodeLost
      <3>. QED BY <3>2, <3>3 DEF NoNodeLost
    <2>3. CASE PushLink(p) \/ PushCheck(p) \/ PushClaim(p) \/ PushUnpark(p)
      <3>1. UNCHANGED <<live, chain, pnode>> /\ \A q \in Producers : ppc[q] = "swap" => ppc'[q] = "swap"
        BY <2>3 DEF PushLink, PushCheck, PushClaim, PushUnpark, qvars, TypeOK
      <3>. QED BY <2>0, <3>1 DEF NoNodeLost
    <2>. QED BY <1>2, <2>1, <2>2, <2>3 DEF Push
  <1>3. CASE Consume \/ DeadlinePasses \/ ParkSpurious
    <2>1. cpc # "dropped" /\ UNCHANGED <<ppc, pnode>>
      BY <1>3, ConsumerSteps
    <2>2. CASE TakeNext
      <3>1. Struct /\ Len(chain) \in Nat
        BY <2>1 DEF Struct, QueueInv, TypeOK
      <3>2. Len(chain') = Len(chain) - 1 /\ \A i \in 1 .. Len(chain') : chain'[i] = chain[i + 1]
        BY <2>2, <3>1, TakeNextFacts
      <3>3. n \in live /\ n # chain[1]
        BY <1>1, <2>2, <3>1 DEF TakeNext, Struct, ChainOK
      <3>4. ASSUME NEW i \in 1 .. Len(chain), chain[i] = n
            PROVE  \E k \in 1 .. Len(chain') : chain'[k] = n
        <4>1. i # 1 /\ i - 1 \in 1 .. Len(chain') /\ (i - 1) + 1 = i
          BY <3>1, <3>2, <3>3, <3>4
        <4>2. chain'[i - 1] = n
          BY <3>2, <3>4, <4>1
        <4>. QED BY <4>1, <4>2
      <3>. QED BY <2>1, <3>3, <3>4 DEF NoNodeLost
    <2>3. CASE UNCHANGED <<head, tail, next, value, live, chain>>
      BY <1>1, <2>1, <2>3 DEF NoNodeLost
    <2>. QED BY <1>3, <2>2, <2>3, ConsumerSteps
  <1>4. CASE DropQueue
    BY <1>1, <1>4 DEF DropQueue
  <1>5. CASE UNCHANGED vars
    BY <1>1, <1>5 DEF NoNodeLost, vars, qvars, pvars, cvars
  <1>. QED BY <1>1, <1>2, <1>3, <1>4, <1>5 DEF Next, NoNodeLost

\* Drop frees all that is left, and nothing is allocated after it.
LEMMA DropStep ==
    ASSUME IInv, NoNodeLost, DropFreesAll, [Next]_vars
    PROVE  DropFreesAll'
  <1>. USE DEF IInv
  <1>1. CASE \E p \in Producers : Push(p)
    <2>1. PICK p \in Producers : Push(p)
      BY <1>1
    <2>2. cpc # "dropped" /\ cpc' = cpc
      BY <2>1 DEF DroppedOK, Push, PushAlloc, PushSwap, PushLink, PushCheck, PushClaim, PushUnpark,
                  cvars
    <2>. QED BY <2>2 DEF DropFreesAll
  <1>2. CASE Consume \/ DeadlinePasses \/ ParkSpurious
    BY <1>2, ConsumerSteps DEF DropFreesAll
  <1>3. CASE DropQueue
    <2>1. cpc = "idle" /\ live' = live \ Reachable(tail) /\ \A p \in Producers : ppc[p] = "idle"
      BY <1>3 DEF DropQueue
    <2>2. Struct
      BY <2>1 DEF QueueInv, Struct
    <2>3. \A n \in live : \E i \in 1 .. Len(chain) : chain[i] = n
      BY <2>1 DEF NoNodeLost
    <2>. QED BY <2>1, <2>2, <2>3, DropVisitsChain DEF DropFreesAll
  <1>4. CASE UNCHANGED vars
    BY <1>4 DEF DropFreesAll, vars, qvars, cvars
  <1>. QED BY <1>1, <1>2, <1>3, <1>4 DEF Next

\* Drop for Queue leaks nothing, whatever was still queued and however many
\* producers had pushed it.
THEOREM DropLeaksNothing == Spec => []DropFreesAll
  <1>1. Init => NoNodeLost /\ DropFreesAll
    <2>. SUFFICES ASSUME Init PROVE NoNodeLost /\ DropFreesAll
      OBVIOUS
    <2>1. Len(chain) = 1 /\ chain[1] = Stub /\ live = {Stub} /\ cpc = "idle"
      BY DEF Init
    <2>2. 1 \in 1 .. Len(chain)
      BY <2>1
    <2>. QED BY <2>1, <2>2 DEF NoNodeLost, DropFreesAll
  <1>2. IInv /\ NoNodeLost /\ DropFreesAll /\ [Next]_vars => (NoNodeLost /\ DropFreesAll)'
    BY LostStep, DropStep
  <1>. QED BY <1>1, <1>2, IInvHolds, PTL DEF Spec
=============================================================================
