---------------------------- MODULE MCMessaging ----------------------------
(***************************************************************************)
(* Model checking of the blocking message channels, BoundedChannel and     *)
(* Channels.  They share no state, so a behaviour chooses one of them at   *)
(* the start and the other stays in its initial state.                     *)
(*                                                                         *)
(* Capacities are below the number of senders, so that senders do block,   *)
(* and every kind of consumer is there at once; a waiting context has two  *)
(* channels to look through.                                               *)
(***************************************************************************)
EXTENDS BoundedChannel, Sequences

CONSTANTS Contexts, Posters, ChanNames, MaxMsgs     \* of Channels

VARIABLES
    which,      \* the model chosen
    queue, linked, subs, spc, chan, n, hpc, at, drained, handled    \* Channels

CH == INSTANCE Channels WITH Names <- ChanNames, Senders <- Posters

chvars == <<queue, linked, subs, spc, chan, n, hpc, at, drained, handled>>
all == <<which, vars, chvars>>

MInit == which \in {"bounded", "channels"} /\ Init /\ CH!Init

\* A step of the model chosen; the other stands still.
Bounded(A) == which = "bounded" /\ A /\ UNCHANGED <<which, chvars>>
Plain(A) == which = "channels" /\ A /\ UNCHANGED <<which, vars>>

MNext == Bounded(Next) \/ Plain(CH!Next)

\* The threads run on and timeouts elapse; nobody has to send or subscribe.
MFairness ==
    /\ \A s \in Senders \union TrySenders : WF_all(Bounded(Send(s)))
    /\ \A t \in Takers : WF_all(Bounded(Take(t)))
    /\ \A d \in Drainers : WF_all(Bounded(Drain(d))) /\ WF_all(Bounded(DrainTimeout(d)))
    /\ \A s \in Posters : WF_all(Plain(CH!Send(s)))
    /\ \A x \in Contexts : WF_all(Plain(CH!Wait(x))) /\ WF_all(Plain(CH!WaitTimeout(x)))

MSpec == MInit /\ [][MNext]_all /\ MFairness

\* Channels: a message on a subscribed channel gets to a handler, although
\* wait looks at the queues and goes to sleep in two steps.
EveryMessageHandled == CH!EveryMessageHandled
=============================================================================
