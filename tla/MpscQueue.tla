----------------------------- MODULE MpscQueue -----------------------------
(***************************************************************************)
(* runtime/mpsc_intrusive.rs: the intrusive lock-free multi-producer,      *)
(* single-consumer queue under the channels, the unified wait and the      *)
(* interner feed, with its parked-consumer wake protocol.                  *)
(*                                                                         *)
(* One action per access to shared memory.  The SeqCst fences make the     *)
(* link of a push visible before its read of `waiter', and the publication *)
(* of `waiter' visible before the consumer's second look at the queue, so  *)
(* interleaving the accesses in program order is what they guarantee.      *)
(* Nodes are addresses: a freed one may be allocated again.                *)
(***************************************************************************)
EXTENDS Naturals, Sequences

CONSTANTS
    Producers,  \* threads that call push
    Nodes,      \* addresses the allocator may return for a node
    Stub,       \* the sentinel node Queue::new allocates
    Null,       \* the null pointer
    Empty,      \* what pop answers when there is nothing to take; also the
                \* content of a node whose value is None
    MaxPush     \* bound: pushes

ASSUME MpscAssumption ==
    /\ Stub \in Nodes
    /\ Null \notin Nodes
    /\ MaxPush \in Nat
    /\ Empty \notin 1 .. MaxPush

\* Every push has a payload of its own, named by a number.
Values == 1 .. MaxPush

\* pop; pop_blocking; pop_blocking_until
Modes == {"pop", "blocking", "until"}

VARIABLES
    head, tail, \* Queue.head (atomic), Queue.tail (consumer only)
    waiter,     \* Queue.waiter: "handle" when a boxed Thread is published
    next, value,\* the fields of every node
    live,       \* nodes allocated and not freed
    ppc, pnode, pprev,  \* producers: position in push, locals
    sent,       \* calls of push so far
    cpc, mode, due, after,      \* consumer: position, call, deadline passed,
                                \* and whether it returns after reclaiming
    token,      \* the consumer thread's unpark token (0 or 1)
    chain,      \* auxiliary: nodes from tail to head in the order of the swaps
    answer      \* auxiliary: the last definite PopResult

qvars == <<head, tail, next, value, live, chain, answer>>
pvars == <<ppc, pnode, pprev, sent>>
cvars == <<cpc, mode, due, after>>
vars == <<qvars, pvars, cvars, waiter, token>>

-----------------------------------------------------------------------------
\* Queue::new
Init ==
    /\ head = Stub /\ tail = Stub /\ waiter = "null"
    /\ next = [n \in Nodes |-> Null]
    /\ value = [n \in Nodes |-> Empty]
    /\ live = {Stub}
    /\ ppc = [p \in Producers |-> "idle"]
    /\ pnode = [p \in Producers |-> Stub]
    /\ pprev = [p \in Producers |-> Stub]
    /\ sent = 0
    /\ cpc = "idle" /\ mode = "pop" /\ due = 0 /\ after = "return"
    /\ token = 0
    /\ chain = <<Stub>> /\ answer = Empty

-----------------------------------------------------------------------------
(* push *)
\* Box::into_raw(Box::new(Node { next: null, value: Some(value) }))
PushAlloc(p) ==
    /\ ppc[p] = "idle" /\ cpc # "dropped"
    /\ sent < MaxPush
    /\ \E n \in Nodes \ live :
        /\ live' = live \union {n}
        /\ next' = [next EXCEPT ![n] = Null]
        /\ value' = [value EXCEPT ![n] = sent + 1]
        /\ pnode' = [pnode EXCEPT ![p] = n]
    /\ sent' = sent + 1
    /\ ppc' = [ppc EXCEPT ![p] = "swap"]
    /\ UNCHANGED <<head, tail, chain, answer, pprev, cvars, waiter, token>>

\* let prev = self.head.swap(node)
PushSwap(p) ==
    /\ ppc[p] = "swap"
    /\ pprev' = [pprev EXCEPT ![p] = head]
    /\ head' = pnode[p]
    /\ chain' = Append(chain, pnode[p])
    /\ ppc' = [ppc EXCEPT ![p] = "link"]
    /\ UNCHANGED <<tail, next, value, live, answer, pnode, sent, cvars, waiter, token>>

\* (*prev).next.store(node), and the fence that makes it visible
PushLink(p) ==
    /\ ppc[p] = "link"
    /\ next' = [next EXCEPT ![pprev[p]] = pnode[p]]
    /\ ppc' = [ppc EXCEPT ![p] = "check"]
    /\ UNCHANGED <<head, tail, value, live, chain, answer, pnode, pprev, sent,
                   cvars, waiter, token>>

\* Slip: push does not look for a waiter.
PushCheckNever(p) ==
    /\ ppc[p] = "check"
    /\ ppc' = [ppc EXCEPT ![p] = "idle"]
    /\ UNCHANGED <<qvars, pnode, pprev, sent, cvars, waiter, token>>

\* if !self.waiter.load().is_null()
PushCheck(p) ==
    /\ ppc[p] = "check"
    /\ ppc' = [ppc EXCEPT ![p] = IF waiter = "handle" THEN "claim" ELSE "idle"]
    /\ UNCHANGED <<qvars, pnode, pprev, sent, cvars, waiter, token>>

\* Slip: the swapped-out handle is dropped, not unparked.
PushClaimDropsHandle(p) ==
    /\ ppc[p] = "claim"
    /\ ppc' = [ppc EXCEPT ![p] = "idle"]
    /\ waiter' = "null"
    /\ UNCHANGED <<qvars, pnode, pprev, sent, cvars, token>>

\* let w = self.waiter.swap(null): the handle belongs to whoever swaps it out
PushClaim(p) ==
    /\ ppc[p] = "claim"
    /\ ppc' = [ppc EXCEPT ![p] = IF waiter = "handle" THEN "unpark" ELSE "idle"]
    /\ waiter' = "null"
    /\ UNCHANGED <<qvars, pnode, pprev, sent, cvars, token>>

\* Box::from_raw(w).unpark(); the handle may be one the consumer has outlived
PushUnpark(p) ==
    /\ ppc[p] = "unpark"
    /\ token' = 1
    /\ ppc' = [ppc EXCEPT ![p] = "idle"]
    /\ UNCHANGED <<qvars, pnode, pprev, sent, cvars, waiter>>

Push(p) ==
    \/ PushAlloc(p) \/ PushSwap(p) \/ PushLink(p)
    \/ PushCheck(p) \/ PushClaim(p) \/ PushUnpark(p)

-----------------------------------------------------------------------------
(* pop: its load of tail.next and, when that is null, its load of head *)

\* Slip: pop frees the node it moves to instead of the old tail.
TakeNextFreesNew ==
    /\ next[tail] # Null
    /\ tail' = next[tail]
    /\ answer' = value[next[tail]]
    /\ value' = [value EXCEPT ![next[tail]] = Empty]
    /\ live' = live \ {next[tail]}
    /\ chain' = Tail(chain)
    /\ UNCHANGED <<head, next>>

\* next is not null: advance tail, take the value, free the old tail
TakeNext ==
    /\ next[tail] # Null
    /\ tail' = next[tail]
    /\ answer' = value[next[tail]]
    /\ value' = [value EXCEPT ![next[tail]] = Empty]
    /\ live' = live \ {tail}
    /\ chain' = Tail(chain)
    /\ UNCHANGED <<head, next>>

NoNext == next[tail] = Null /\ UNCHANGED qvars

\* head differs from tail: a producer is between its swap and its link
Inconsistent == head # tail /\ UNCHANGED qvars

\* Slip: an unlinked successor is taken for an empty queue.
AnswerEmptyAlways ==
    /\ answer' = Empty
    /\ UNCHANGED <<head, tail, next, value, live, chain>>

AnswerEmpty ==
    /\ head = tail
    /\ answer' = Empty
    /\ UNCHANGED <<head, tail, next, value, live, chain>>

-----------------------------------------------------------------------------
(* pop, pop_blocking and pop_blocking_until *)

Call ==
    /\ cpc = "idle"
    /\ mode' \in Modes
    /\ due' \in IF mode' = "until" THEN {0, 1} ELSE {0}
    /\ cpc' = "next1"
    /\ UNCHANGED <<qvars, pvars, after, waiter, token>>

\* The first pop of a round
FirstNext ==
    /\ cpc = "next1"
    /\ \/ TakeNext /\ cpc' = "idle"
       \/ NoNext /\ cpc' = "head1"
    /\ UNCHANGED <<pvars, mode, due, after, waiter, token>>

\* Inconsistent is retried after a yield, except by pop itself
FirstHead ==
    /\ cpc = "head1"
    /\ \/ Inconsistent /\ cpc' = IF mode = "pop" THEN "idle" ELSE "next1"
       \/ AnswerEmpty /\ cpc' = IF mode = "pop" THEN "idle" ELSE "publish"
    /\ UNCHANGED <<pvars, mode, due, after, waiter, token>>

\* if now >= deadline { return None }, reached only after an Empty
GiveUp ==
    /\ cpc = "publish" /\ mode = "until" /\ due = 1
    /\ cpc' = "idle"
    /\ UNCHANGED <<qvars, pvars, mode, due, after, waiter, token>>

\* C1: publish the handle of this thread
PublishWaiter ==
    /\ cpc = "publish" /\ ~(mode = "until" /\ due = 1)
    /\ waiter' = "handle"
    /\ cpc' = "next2"
    /\ UNCHANGED <<qvars, pvars, mode, due, after, token>>

\* Slip: no second look between publishing the handle and parking.
SecondNextSkipped ==
    /\ cpc = "next2"
    /\ cpc' = "park" /\ after' = "retry"
    /\ UNCHANGED <<qvars, pvars, mode, due, waiter, token>>

\* C2: look again after publishing
SecondNext ==
    /\ cpc = "next2"
    /\ \/ TakeNext /\ cpc' = "reclaim" /\ after' = "return"
       \/ NoNext /\ cpc' = "head2" /\ UNCHANGED after
    /\ UNCHANGED <<pvars, mode, due, waiter, token>>

SecondHead ==
    /\ cpc = "head2"
    /\ after' = "retry"
    /\ \/ Inconsistent /\ cpc' = "reclaim"
       \/ AnswerEmpty /\ cpc' = "park"
    /\ UNCHANGED <<pvars, mode, due, waiter, token>>

\* C3: park returns at once when an unpark has been banked
Park ==
    /\ cpc = "park" /\ token = 1
    /\ token' = 0
    /\ cpc' = "reclaim"
    /\ UNCHANGED <<qvars, pvars, mode, due, after, waiter>>

\* park_timeout comes back because the deadline passed
ParkTimeout ==
    /\ cpc = "park" /\ mode = "until" /\ due = 1
    /\ cpc' = "reclaim"
    /\ UNCHANGED <<qvars, pvars, mode, due, after, waiter, token>>

\* park may come back for no reason
ParkSpurious ==
    /\ cpc = "park"
    /\ cpc' = "reclaim"
    /\ UNCHANGED <<qvars, pvars, mode, due, after, waiter, token>>

\* reclaim_waiter, then return the value or go round the loop
ReclaimWaiter ==
    /\ cpc = "reclaim"
    /\ waiter' = "null"
    /\ cpc' = IF after = "return" THEN "idle" ELSE "next1"
    /\ UNCHANGED <<qvars, pvars, mode, due, after, token>>

Consume ==
    \/ Call \/ FirstNext \/ FirstHead \/ GiveUp \/ PublishWaiter
    \/ SecondNext \/ SecondHead \/ Park \/ ParkTimeout \/ ReclaimWaiter

DeadlinePasses ==
    /\ mode = "until" /\ cpc \notin {"idle", "dropped"} /\ due = 0
    /\ due' = 1
    /\ UNCHANGED <<qvars, pvars, cpc, mode, after, waiter, token>>

-----------------------------------------------------------------------------
\* The nodes a walk along next from `n' comes by.
Reachable(n) ==
    {m \in Nodes : \A S \in SUBSET Nodes :
        (n \in S /\ \A k \in S : next[k] # Null => next[k] \in S) => m \in S}

\* Slip: drop frees the tail and forgets what is still queued behind it.
DropTailOnly ==
    /\ cpc = "idle" /\ \A p \in Producers : ppc[p] = "idle"
    /\ waiter' = "null"
    /\ live' = live \ {tail}
    /\ cpc' = "dropped"
    /\ UNCHANGED <<head, tail, next, value, chain, answer, pvars, mode, due, after, token>>

\* Drop for Queue: &mut self, so nobody is inside push or pop
DropQueue ==
    /\ cpc = "idle" /\ \A p \in Producers : ppc[p] = "idle"
    /\ waiter' = "null"
    /\ live' = live \ Reachable(tail)
    /\ cpc' = "dropped"
    /\ UNCHANGED <<head, tail, next, value, chain, answer, pvars, mode, due, after, token>>

Next ==
    \/ \E p \in Producers : Push(p)
    \/ Consume
    \/ DeadlinePasses
    \/ ParkSpurious
    \/ DropQueue

Spec == Init /\ [][Next]_vars

\* Threads inside the queue keep running; nothing makes a producer push, a
\* deadline pass, a park return spuriously, or the queue be dropped.
Fairness ==
    /\ \A p \in Producers :
        WF_vars(PushSwap(p) \/ PushLink(p) \/ PushCheck(p) \/ PushClaim(p) \/ PushUnpark(p))
    /\ WF_vars(Consume)

FairSpec == Spec /\ Fairness

-----------------------------------------------------------------------------
Pcs == {"idle", "swap", "link", "check", "claim", "unpark"}

Cpcs == {"idle", "next1", "head1", "publish", "next2", "head2", "park", "reclaim", "dropped"}

\* Every variable holds a value of its type.
TypeOK ==
    /\ head \in Nodes /\ tail \in Nodes
    /\ waiter \in {"null", "handle"}
    /\ next \in [Nodes -> Nodes \union {Null}]
    /\ value \in [Nodes -> Values \union {Empty}]
    /\ live \in SUBSET Nodes
    /\ ppc \in [Producers -> Pcs]
    /\ pnode \in [Producers -> Nodes]
    /\ pprev \in [Producers -> Nodes]
    /\ sent \in 0 .. MaxPush
    /\ cpc \in Cpcs /\ mode \in Modes /\ due \in {0, 1} /\ after \in {"return", "retry"}
    /\ token \in {0, 1}
    /\ chain \in Seq(Nodes)
    /\ answer \in Values \union {Empty}

\* Nobody touches a freed node: the prev a producer is about to store into,
\* its own node and the consumer's tail with its successor are all allocated.
\* The store into prev.next is the first one, so no link is overwritten.
NoUseAfterFree ==
    cpc # "dropped" =>
        /\ {head, tail} \subseteq live
        /\ next[tail] # Null => next[tail] \in live
        /\ \A p \in Producers : ppc[p] \in {"swap", "link"} => pnode[p] \in live
        /\ \A p \in Producers : ppc[p] = "link" => pprev[p] \in live /\ next[pprev[p]] = Null

\* No wakeup is lost: when the consumer is committed to sleep and has no
\* banked unpark although something has been pushed, a producer that will
\* still look at `waiter', or already owns the handle, is on its way.
NoLostWakeup ==
    (cpc = "park" /\ token = 0 /\ head # tail) =>
        \E p \in Producers : ppc[p] \in {"link", "check", "claim", "unpark"}

\* The debug_assert of pop_blocking: the slot is free when the consumer
\* publishes its handle, so no boxed handle is overwritten and leaked.
SlotFreeAtPublish == cpc \in {"idle", "next1", "head1", "publish"} => waiter = "null"

-----------------------------------------------------------------------------
(* The inductive invariant behind the properties: `chain' is the linked    *)
(* list the code builds, except that the links producers owe are missing.  *)

Linking(p) == ppc[p] = "link"

\* The chain starts at tail, ends at head, and repeats no node; its nodes are
\* allocated, and the ones after tail hold values.
ChainOK ==
    /\ Len(chain) >= 1 /\ chain[1] = tail /\ chain[Len(chain)] = head
    /\ \A i, j \in 1 .. Len(chain) : chain[i] = chain[j] => i = j
    /\ \A i \in 1 .. Len(chain) : chain[i] \in live
    /\ \A i \in 2 .. Len(chain) : value[chain[i]] \in Values

\* Neighbours are linked, or one producer is about to link them.
LinksOK ==
    /\ next[head] = Null
    /\ \A i \in 1 .. (Len(chain) - 1) :
        \/ next[chain[i]] = chain[i + 1]
        \/ next[chain[i]] = Null
           /\ \E p \in Producers : Linking(p) /\ pprev[p] = chain[i] /\ pnode[p] = chain[i + 1]
    /\ \A p \in Producers : Linking(p) =>
        \E i \in 1 .. (Len(chain) - 1) :
            pprev[p] = chain[i] /\ pnode[p] = chain[i + 1] /\ next[chain[i]] = Null
    /\ \A p, q \in Producers : Linking(p) /\ Linking(q) /\ pprev[p] = pprev[q] => p = q

\* A node between its allocation and its swap belongs to one producer alone.
PrivateOK ==
    /\ \A p \in Producers : ppc[p] = "swap" =>
        /\ pnode[p] \in live /\ next[pnode[p]] = Null /\ value[pnode[p]] \in Values
        /\ \A i \in 1 .. Len(chain) : chain[i] # pnode[p]
    /\ \A p, q \in Producers :
        ppc[p] = "swap" /\ ppc[q] = "swap" /\ pnode[p] = pnode[q] => p = q

\* A handle that is not in its slot is with a producer, or has been used.
HandleOK ==
    cpc \in {"next2", "head2", "park"} =>
        waiter = "handle" \/ token = 1 \/ \E p \in Producers : ppc[p] = "unpark"

\* Whoever links the first value behind a parked consumer sees to its waking.
ParkOK ==
    cpc = "park" /\ next[tail] # Null =>
        token = 1 \/ \E p \in Producers : ppc[p] \in {"check", "claim", "unpark"}

\* The structure of the queue, as long as there is one.
QueueInv == cpc # "dropped" => ChainOK /\ LinksOK /\ PrivateOK

\* The protocol around `waiter' and the token.
WakeInv == SlotFreeAtPublish /\ HandleOK /\ (cpc # "dropped" => ParkOK)

\* Nobody is inside push once the queue has been dropped.
DroppedOK == cpc = "dropped" => \A p \in Producers : ppc[p] = "idle"

\* The linked list, the private nodes and the wake protocol are in order in
\* every state of push, pop_blocking and pop_blocking_until.
IInv == TypeOK /\ QueueInv /\ WakeInv /\ DroppedOK

\* Drop frees every node: none is lost on the way.
DropFreesAll == cpc = "dropped" => live = {}

\* The queue the callers see: the values after tail, in the order of the swaps.
pending == [i \in 1 .. (Len(chain) - 1) |-> value[chain[i + 1]]]

Fifo == INSTANCE FifoQueue WITH Values <- Values, Empty <- Empty,
                                queue <- pending, answer <- answer

\* The queue implements one first-in first-out queue: values come out in the
\* order of the head swaps, each once, and Empty is answered only when every
\* value sent has been received.
ImplementsFifo == Fifo!Spec

\* Every value a producer is pushing is delivered, unless the queue is dropped.
EveryPushDelivered ==
    \A v \in Values :
        (\E p \in Producers : ppc[p] \in {"swap", "link"} /\ value[pnode[p]] = v)
            ~> (answer = v \/ cpc = "dropped")
=============================================================================
