--------------------------- MODULE BoundedChannel ---------------------------
(***************************************************************************)
(* The bounded, block-on-full channel of runtime/channels.rs: a queue      *)
(* behind a mutex with two condition variables, used by blocking senders,  *)
(* try-senders, takers and the batch drainer.                              *)
(*                                                                         *)
(* A critical section is one step: from taking the mutex, or being woken   *)
(* with it, to releasing it.  Notifications are steps of their own, since  *)
(* the code notifies after it has released the mutex.  The items           *)
(* themselves do not matter here, only how many there are.                 *)
(***************************************************************************)
EXTENDS Naturals, FiniteSets

CONSTANTS
    Senders,    \* threads in bounded_send_blocking (bchan_send)
    TrySenders, \* threads in bounded_try_send (bchan_try_send)
    Takers,     \* threads in bounded_take_blocking (bchan_take)
    Drainers,   \* threads in bounded_drain_batch (bchan_drain)
    Cap,        \* BoundedChannel.cap, AXVERITY_RECLOG_CAP
    BatchMax,   \* the drainer's max, clamped to at least 1
    MaxSends    \* bound: items each sender sends

ASSUME BoundedChannelAssumption ==
    /\ Senders \cap (TrySenders \union Takers \union Drainers) = {}
    /\ TrySenders \cap (Takers \union Drainers) = {} /\ Takers \cap Drainers = {}
    /\ IsFiniteSet(Senders \union TrySenders \union Takers \union Drainers)
    /\ Cap \in Nat \ {0} /\ BatchMax \in Nat \ {0} /\ MaxSends \in Nat

Threads == Senders \union TrySenders \union Takers \union Drainers

VARIABLES
    len,        \* length of the queue
    pc,         \* thread -> position
    out,        \* drainer -> items in its batch
    sends       \* sender -> calls made

vars == <<len, pc, out, sends>>

Init ==
    /\ len = 0
    /\ pc = [t \in Threads |-> "idle"]
    /\ out = [d \in Drainers |-> 0]
    /\ sends = [s \in Senders \union TrySenders |-> 0]

At(l) == {t \in Threads : pc[t] = l}

GoTo(t, l) == pc' = [pc EXCEPT ![t] = l]

\* Threads blocked on each condition variable.
NotFull == At("not_full")

NotEmpty == At("not_empty") \union At("window")

\* Where a thread goes on when it is woken.
Woken(t) == IF pc[t] = "window" THEN "refill" ELSE "enter"

\* Condvar::notify_one by t, which then does `l': wakes one waiter, if any
NotifyOne(t, cond, l) ==
    \/ cond = {} /\ GoTo(t, l)
    \/ \E u \in cond : pc' = [pc EXCEPT ![t] = l, ![u] = Woken(u)]

\* Condvar::notify_all
NotifyAll(t, cond, l) ==
    pc' = [u \in Threads |-> IF u = t THEN l ELSE IF u \in cond THEN Woken(u) ELSE pc[u]]

-----------------------------------------------------------------------------
(* bounded_send_blocking and bounded_try_send *)

SendCall(s) ==
    /\ pc[s] = "idle" /\ sends[s] < MaxSends
    /\ sends' = [sends EXCEPT ![s] = @ + 1]
    /\ GoTo(s, "enter")
    /\ UNCHANGED <<len, out>>

\* while q.len() >= cap { wait on not_full }
SendWait(s) ==
    /\ s \in Senders /\ pc[s] = "enter" /\ len >= Cap
    /\ GoTo(s, "not_full")
    /\ UNCHANGED <<len, out, sends>>

\* A full channel refuses a try-send.
SendRefused(s) ==
    /\ s \in TrySenders /\ pc[s] = "enter" /\ len >= Cap
    /\ GoTo(s, "idle")
    /\ UNCHANGED <<len, out, sends>>

SendPush(s) ==
    /\ pc[s] = "enter" /\ len < Cap
    /\ len' = len + 1
    /\ GoTo(s, "notify")
    /\ UNCHANGED <<out, sends>>

\* Slip: a sender does not notify not_empty.
SendNotifySilent(s) ==
    /\ pc[s] = "notify"
    /\ GoTo(s, "idle")
    /\ UNCHANGED <<len, out, sends>>

SendNotify(s) ==
    /\ pc[s] = "notify"
    /\ NotifyOne(s, NotEmpty, "idle")
    /\ UNCHANGED <<len, out, sends>>

Send(s) == SendWait(s) \/ SendRefused(s) \/ SendPush(s) \/ SendNotify(s)

-----------------------------------------------------------------------------
(* bounded_take_blocking *)

TakeCall(t) ==
    /\ pc[t] = "idle"
    /\ GoTo(t, "enter")
    /\ UNCHANGED <<len, out, sends>>

TakeWait(t) ==
    /\ pc[t] = "enter" /\ len = 0
    /\ GoTo(t, "not_empty")
    /\ UNCHANGED <<len, out, sends>>

\* Slip: a taker does not notify not_full.
TakePopSilent(t) ==
    /\ pc[t] = "enter" /\ len > 0
    /\ len' = len - 1
    /\ GoTo(t, "idle")
    /\ UNCHANGED <<out, sends>>

TakePop(t) ==
    /\ pc[t] = "enter" /\ len > 0
    /\ len' = len - 1
    /\ GoTo(t, "notify")
    /\ UNCHANGED <<out, sends>>

TakeNotify(t) ==
    /\ pc[t] = "notify"
    /\ NotifyOne(t, NotFull, "idle")
    /\ UNCHANGED <<len, out, sends>>

Take(t) == TakeCall(t) \/ TakeWait(t) \/ TakePop(t) \/ TakeNotify(t)

-----------------------------------------------------------------------------
(* bounded_drain_batch *)

\* Pop until the batch is full or the queue is empty.
Pop(d) ==
    LET room == BatchMax - out[d]
        n == IF len < room THEN len ELSE room
    IN  len' = len - n /\ out' = [out EXCEPT ![d] = @ + n]

\* Block until the batch has its first item.
DrainWait(d) ==
    /\ pc[d] = "enter" /\ len = 0
    /\ GoTo(d, "not_empty")
    /\ UNCHANGED <<len, out, sends>>

\* The first items; then wait for more unless the batch is full or the window
\* has elapsed.
DrainFirst(d) ==
    /\ pc[d] = "enter" /\ len > 0
    /\ Pop(d)
    /\ \/ out'[d] < BatchMax /\ GoTo(d, "window")
       \/ GoTo(d, "notify")
    /\ UNCHANGED sends

\* Woken inside the window
DrainMore(d) ==
    /\ pc[d] = "refill"
    /\ Pop(d)
    /\ \/ out'[d] < BatchMax /\ GoTo(d, "window")
       \/ GoTo(d, "notify")
    /\ UNCHANGED sends

\* wait_timeout reports that the window is over: take what there is and stop
DrainTimeout(d) ==
    /\ pc[d] \in {"window", "refill"}
    /\ Pop(d)
    /\ GoTo(d, "notify")
    /\ UNCHANGED sends

\* not_full.notify_all(), once, after the mutex is released
DrainNotify(d) ==
    /\ pc[d] = "notify"
    /\ NotifyAll(d, NotFull, "idle")
    /\ out' = [out EXCEPT ![d] = 0]
    /\ UNCHANGED <<len, sends>>

DrainCall(d) == pc[d] = "idle" /\ GoTo(d, "enter") /\ UNCHANGED <<len, out, sends>>

Drain(d) == DrainCall(d) \/ DrainWait(d) \/ DrainFirst(d) \/ DrainMore(d)
                \/ DrainTimeout(d) \/ DrainNotify(d)

-----------------------------------------------------------------------------
\* A condition variable may wake a waiter for no reason.
Spurious(t) ==
    /\ t \in NotFull \union NotEmpty
    /\ GoTo(t, Woken(t))
    /\ UNCHANGED <<len, out, sends>>

Next ==
    \/ \E s \in Senders \union TrySenders : SendCall(s) \/ Send(s)
    \/ \E t \in Takers : Take(t)
    \/ \E d \in Drainers : Drain(d)
    \/ \E t \in Threads : Spurious(t)

Spec == Init /\ [][Next]_vars

\* Consumers call again and again, threads that hold or can take the mutex
\* run, and the window elapses.  No wakeup is assumed but the ones notified.
Fairness ==
    /\ \A s \in Senders \union TrySenders : WF_vars(Send(s))
    /\ \A t \in Takers : WF_vars(Take(t))
    /\ \A d \in Drainers : WF_vars(Drain(d)) /\ WF_vars(DrainTimeout(d))

FairSpec == Spec /\ Fairness

-----------------------------------------------------------------------------
\* Every variable holds a value of its type; the queue never outgrows its
\* capacity and a batch never outgrows its maximum.
TypeOK ==
    /\ len \in 0 .. Cap
    /\ pc \in [Threads -> {"idle", "enter", "not_full", "not_empty", "window", "refill", "notify"}]
    /\ out \in [Drainers -> 0 .. BatchMax]
    /\ sends \in [Senders \union TrySenders -> 0 .. MaxSends]

\* No sender sleeps beside free space: while one is blocked on not_full, every
\* free slot has a taker about to notify or a sender already awake, unless a
\* drainer is in its batch, which ends with a notify_all.
SendersAreWoken ==
    NotFull # {} =>
        \/ \E d \in Drainers : pc[d] \in {"window", "refill", "notify"}
        \/ Cap - len <= Cardinality({t \in Takers : pc[t] = "notify"})
                        + Cardinality({s \in Senders : pc[s] = "enter"})

\* No consumer sleeps beside an item: while one is blocked on not_empty, every
\* item has a sender about to notify or a consumer already awake.
ConsumersAreWoken ==
    NotEmpty # {} =>
        len <= Cardinality({s \in Senders \union TrySenders : pc[s] = "notify"})
               + Cardinality({t \in Takers \union Drainers : pc[t] \in {"enter", "refill"}})

\* CHANNELS_BLOCK_NOT_DROP with an end: every blocking send gets its item in.
EverySendCompletes == \A s \in Senders : (pc[s] = "enter") ~> (pc[s] = "idle")

\* Nothing stays in the queue: it keeps being emptied.
EveryItemConsumed == (len > 0) ~> (len = 0)

\* A batch that has been started is handed over.
EveryBatchReturned == \A d \in Drainers : (out[d] > 0) ~> (out[d] = 0)

\* Nobody sleeps on a condition variable beside what it waits for.
WaitersAreWoken == TypeOK /\ SendersAreWoken /\ ConsumersAreWoken

\* The channel keeps moving: sends get in, items get out, batches are returned.
ChannelKeepsMoving == EverySendCompletes /\ EveryItemConsumed /\ EveryBatchReturned
=============================================================================
