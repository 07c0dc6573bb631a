------------------------------ MODULE Channels ------------------------------
(***************************************************************************)
(* The unbounded channels of runtime/channels.rs: channel_send,            *)
(* event_subscribe and wait over one lock-free queue per name and one      *)
(* process-wide condition variable.                                        *)
(*                                                                         *)
(* Each queue is an MpscQueue; its refinement proof lets a push be two     *)
(* steps here, the swap that fixes the order and the link that makes the   *)
(* message visible, and a pop one.  A message is <<sender, number>>.       *)
(***************************************************************************)
EXTENDS Naturals, Sequences

CONSTANTS
    Names,      \* declared channels
    Senders,    \* threads that send
    Contexts,   \* threads that subscribe and wait
    MaxMsgs     \* bound: messages each sender sends

VARIABLES
    queue,      \* name -> messages in the order of their swaps
    linked,     \* messages whose push has stored the link
    subs,       \* context -> SUBSCRIPTIONS, without repetitions
    spc, chan, n,       \* sender -> position, channel of its send, messages sent
    hpc, at, drained,    \* context -> position, index into subs, messages in hand
    handled     \* auxiliary: messages handed to a handler

cvars == <<queue, linked>>
svars == <<spc, chan, n>>
wvars == <<hpc, at, drained>>
vars == <<cvars, subs, svars, wvars, handled>>

\* Every channel exists and is empty: channel_for creates it on first touch.
Init ==
    /\ queue = [c \in Names |-> <<>>] /\ linked = {}
    /\ subs = [x \in Contexts |-> <<>>]
    /\ spc = [s \in Senders |-> "idle"] /\ n = [s \in Senders |-> 0]
    /\ chan = [s \in Senders |-> CHOOSE c \in Names : TRUE]
    /\ hpc = [x \in Contexts |-> "idle"] /\ at = [x \in Contexts |-> 1]
    /\ drained = [x \in Contexts |-> <<>>]
    /\ handled = {}

Subscribed(x) == {subs[x][i] : i \in DOMAIN subs[x]}

\* A second call for a name is a no-op.  The queue has a single consumer, so
\* no two contexts take the same name: the contract of struct Channel.
EventSubscribe(x, c) ==
    /\ hpc[x] = "idle" /\ \A y \in Contexts : c \notin Subscribed(y)
    /\ subs' = [subs EXCEPT ![x] = Append(@, c)]
    /\ UNCHANGED <<cvars, svars, wvars, handled>>

-----------------------------------------------------------------------------
(* channel_send: swap, link, notify_all *)

SendSwap(s, c) ==
    /\ spc[s] = "idle" /\ n[s] < MaxMsgs
    /\ n' = [n EXCEPT ![s] = @ + 1]
    /\ queue' = [queue EXCEPT ![c] = Append(@, <<s, n[s] + 1>>)]
    /\ chan' = [chan EXCEPT ![s] = c]
    /\ spc' = [spc EXCEPT ![s] = "link"]
    /\ UNCHANGED <<linked, subs, wvars, handled>>

SendLink(s) ==
    /\ spc[s] = "link"
    /\ linked' = linked \union {<<s, n[s]>>}
    /\ spc' = [spc EXCEPT ![s] = "notify"]
    /\ UNCHANGED <<queue, subs, chan, n, wvars, handled>>

\* Every context asleep on the condition variable looks again, whatever the
\* channel of the message.
SendNotify(s) ==
    /\ spc[s] = "notify"
    /\ spc' = [spc EXCEPT ![s] = "idle"]
    /\ hpc' = [x \in Contexts |-> IF hpc[x] = "asleep" THEN "drain" ELSE hpc[x]]
    /\ UNCHANGED <<cvars, subs, chan, n, at, drained, handled>>

-----------------------------------------------------------------------------
(* wait *)

\* The snapshot of the subscriptions; without any, wait panics.
WaitCall(x) ==
    /\ hpc[x] = "idle" /\ subs[x] # <<>>
    /\ hpc' = [hpc EXCEPT ![x] = "drain"]
    /\ UNCHANGED <<cvars, subs, svars, at, drained, handled>>

Visible(c) == queue[c] # <<>> /\ Head(queue[c]) \in linked

WaitPop(x) ==
    /\ hpc[x] = "drain" /\ at[x] <= Len(subs[x])
    /\ LET c == subs[x][at[x]] IN
         /\ Visible(c)
         /\ drained' = [drained EXCEPT ![x] = Append(@, Head(queue[c]))]
         /\ queue' = [queue EXCEPT ![c] = Tail(@)]
    /\ UNCHANGED <<linked, subs, svars, hpc, at, handled>>

\* Empty or Inconsistent: on to the next channel.
WaitNextChannel(x) ==
    /\ hpc[x] = "drain" /\ at[x] <= Len(subs[x]) /\ ~Visible(subs[x][at[x]])
    /\ at' = [at EXCEPT ![x] = @ + 1]
    /\ UNCHANGED <<cvars, subs, svars, hpc, drained, handled>>

\* Nothing drained: the context goes to sleep, some time after it looked.
WaitSleep(x) ==
    /\ hpc[x] = "drain" /\ at[x] > Len(subs[x]) /\ drained[x] = <<>>
    /\ hpc' = [hpc EXCEPT ![x] = "asleep"] /\ at' = [at EXCEPT ![x] = 1]
    /\ UNCHANGED <<cvars, subs, svars, drained, handled>>

\* Slip: wait without a timeout, so that only a notification wakes it.
WaitTimeoutNever(x) == FALSE /\ UNCHANGED vars

\* wait_timeout of 2 ms, or a spurious wake-up
WaitTimeout(x) ==
    /\ hpc[x] = "asleep"
    /\ hpc' = [hpc EXCEPT ![x] = "drain"]
    /\ UNCHANGED <<cvars, subs, svars, at, drained, handled>>

\* The handler gets what was drained, in wait's own frame.
WaitHandle(x) ==
    /\ hpc[x] = "drain" /\ at[x] > Len(subs[x]) /\ drained[x] # <<>>
    /\ handled' = handled \union {drained[x][i] : i \in DOMAIN drained[x]}
    /\ drained' = [drained EXCEPT ![x] = <<>>]
    /\ hpc' = [hpc EXCEPT ![x] = "idle"] /\ at' = [at EXCEPT ![x] = 1]
    /\ UNCHANGED <<cvars, subs, svars>>

Send(s) == SendLink(s) \/ SendNotify(s)

Wait(x) == WaitCall(x) \/ WaitPop(x) \/ WaitNextChannel(x) \/ WaitSleep(x) \/ WaitHandle(x)

Next ==
    \/ \E s \in Senders : Send(s) \/ \E c \in Names : SendSwap(s, c)
    \/ \E x \in Contexts : Wait(x) \/ WaitTimeout(x) \/ \E c \in Names : EventSubscribe(x, c)

Spec == Init /\ [][Next]_vars

-----------------------------------------------------------------------------
\* A message on a channel somebody waits for gets to a handler: the gap
\* between a context's last look and its sleep loses no message for good.
EveryMessageHandled ==
    \A s \in Senders, i \in 1 .. MaxMsgs :
        (\E x \in Contexts : \E c \in Subscribed(x) : \E k \in DOMAIN queue[c] :
            queue[c][k] = <<s, i>>)
        ~> (<<s, i>> \in handled)
=============================================================================
