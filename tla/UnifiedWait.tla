---------------------------- MODULE UnifiedWait ----------------------------
(***************************************************************************)
(* runtime/unified_wait.rs: one inbox per waiting context, fed by named    *)
(* channels, OS signals (handler, self-pipe, adapter thread) and file      *)
(* descriptors, and drained by uwait and uwait_deadline.                   *)
(*                                                                         *)
(* Inboxes are MpscQueues, used here through FifoQueue's contract: a push  *)
(* and a pop are one step each.  A descriptor is a record: ChannelMsg of   *)
(* an emitter's i-th message, OsSignal, HwEdge with its number, or Tick.   *)
(***************************************************************************)
EXTENDS Naturals, Sequences, FiniteSets

CONSTANTS
    Contexts,   \* threads that subscribe and wait
    Emitters,   \* threads that call uwait_emit
    NoContext,  \* a route without a subscriber
    MaxEmits,   \* bound: messages each emitter emits
    MaxSignals, \* bound: deliveries of the one signal modelled
    MaxLines    \* bound: reads of the one descriptor modelled

ASSUME UwaitAssumption == NoContext \notin Contexts /\ {MaxEmits, MaxSignals, MaxLines} \subseteq Nat

VARIABLES
    subscriber, pending,    \* ChannelRoute of the one channel modelled
    inbox,      \* context -> descriptors pushed
    target, emits,  \* emitter -> context resolved by its emit, messages emitted
    pipe,       \* signals written to the self-pipe and not read
    sigRoute, sigs,     \* signal_routes, signals delivered
    reader, seq,        \* context the fd reader pushes to, reads done
    got         \* auxiliary: context -> everything its handlers were given

evars == <<target, emits>>
sigvars == <<pipe, sigRoute, sigs>>
fvars == <<reader, seq>>
uvars == <<subscriber, pending, inbox, evars, sigvars, fvars, got>>

Msg(e, i) == [tag |-> "ChannelMsg", from |-> e, no |-> i]
OsSignal == [tag |-> "OsSignal"]
HwEdge(i) == [tag |-> "HwEdge", no |-> i]
Tick == [tag |-> "Tick"]

UInit ==
    /\ subscriber = NoContext /\ pending = <<>>
    /\ inbox = [x \in Contexts |-> <<>>]
    /\ target = [e \in Emitters |-> NoContext] /\ emits = [e \in Emitters |-> 0]
    /\ pipe = 0 /\ sigRoute = NoContext /\ sigs = 0
    /\ reader = NoContext /\ seq = 0
    /\ got = [x \in Contexts |-> <<>>]

-----------------------------------------------------------------------------
(* The channel source *)

\* Slip: the route is published before the pending messages are moved over.
UwaitSubscribeChannelEarly(x) ==
    /\ subscriber' = x
    /\ IF subscriber = x /\ pending # <<>>
         THEN inbox' = [inbox EXCEPT ![x] = @ \o pending] /\ pending' = <<>>
         ELSE UNCHANGED <<inbox, pending>>
    /\ UNCHANGED <<evars, sigvars, fvars, got>>

\* One critical section; a later subscriber replaces the one before.
UwaitSubscribeChannel(x) ==
    /\ inbox' = [inbox EXCEPT ![x] = @ \o pending]
    /\ pending' = <<>> /\ subscriber' = x
    /\ UNCHANGED <<evars, sigvars, fvars, got>>

\* The critical section of uwait_emit: without a subscriber the message waits
\* in the route, otherwise the subscriber is resolved.
UwaitEmit(e) ==
    /\ target[e] = NoContext /\ emits[e] < MaxEmits
    /\ emits' = [emits EXCEPT ![e] = @ + 1]
    /\ target' = [target EXCEPT ![e] = subscriber]
    /\ pending' = IF subscriber = NoContext THEN Append(pending, Msg(e, emits[e] + 1))
                  ELSE pending
    /\ UNCHANGED <<subscriber, inbox, sigvars, fvars, got>>

\* The push, after the unlock: the route may have changed since.
UwaitEmitPush(e) ==
    /\ target[e] # NoContext
    /\ inbox' = [inbox EXCEPT ![target[e]] = Append(@, Msg(e, emits[e]))]
    /\ target' = [target EXCEPT ![e] = NoContext]
    /\ UNCHANGED <<subscriber, pending, emits, sigvars, fvars, got>>

-----------------------------------------------------------------------------
(* Signals and descriptors *)

\* The adapter and its pipe exist and the route is in place before the
\* handler is installed.
UwaitSubscribeSignal(x) ==
    /\ sigRoute' = x
    /\ UNCHANGED <<subscriber, pending, inbox, evars, pipe, sigs, fvars, got>>

\* The handler only writes the number to the pipe.
OnSignal ==
    /\ sigRoute # NoContext /\ sigs < MaxSignals
    /\ sigs' = sigs + 1 /\ pipe' = pipe + 1
    /\ UNCHANGED <<subscriber, pending, inbox, evars, sigRoute, fvars, got>>

\* init_signal_adapter's thread: read the pipe, look the route up, push.
SignalAdapter ==
    /\ pipe > 0 /\ pipe' = pipe - 1
    /\ inbox' = [inbox EXCEPT ![sigRoute] = Append(@, OsSignal)]
    /\ UNCHANGED <<subscriber, pending, evars, sigRoute, sigs, fvars, got>>

UwaitSubscribeFdLine(x) ==
    /\ reader = NoContext /\ seq = 0 /\ reader' = x
    /\ UNCHANGED <<subscriber, pending, inbox, evars, sigvars, seq, got>>

\* A read of the reader thread; at the end of file it closes and exits.
FdRead ==
    /\ reader # NoContext
    /\ \/ /\ seq < MaxLines /\ seq' = seq + 1
          /\ inbox' = [inbox EXCEPT ![reader] = Append(@, HwEdge(seq + 1))]
          /\ UNCHANGED reader
       \/ /\ reader' = NoContext /\ UNCHANGED <<seq, inbox>>
    /\ UNCHANGED <<subscriber, pending, evars, sigvars, got>>

-----------------------------------------------------------------------------
(* The wait *)

\* The handler is called with the list, never an empty one.
Handle(x, list) ==
    /\ got' = [got EXCEPT ![x] = @ \o list]
    /\ UNCHANGED <<subscriber, pending, evars, sigvars, fvars>>

\* pop_blocking, then drain_rest until the queue is empty: what it finds at
\* that moment is a prefix of the inbox, and at least one descriptor.
Uwait(x) ==
    \E k \in 1 .. Len(inbox[x]) :
        /\ inbox' = [inbox EXCEPT ![x] = SubSeq(@, k + 1, Len(@))]
        /\ Handle(x, SubSeq(inbox[x], 1, k))

\* uwait_deadline differs from uwait when the deadline passes.  Bound: no two
\* ticks in a row.
UwaitDeadline(x) ==
    /\ inbox[x] = <<>> /\ UNCHANGED inbox
    /\ \A i \in DOMAIN got[x] : i = Len(got[x]) => got[x][i] # Tick
    /\ Handle(x, <<Tick>>)

UNext ==
    \/ \E x \in Contexts : \/ UwaitSubscribeChannel(x) \/ UwaitSubscribeSignal(x)
                           \/ UwaitSubscribeFdLine(x) \/ Uwait(x) \/ UwaitDeadline(x)
    \/ \E e \in Emitters : UwaitEmit(e) \/ UwaitEmitPush(e)
    \/ OnSignal \/ SignalAdapter \/ FdRead

USpec == UInit /\ [][UNext]_uvars

-----------------------------------------------------------------------------
\* Where events lie: under each context what its handlers were given and then
\* its inbox, under NoContext what waits in the route.
Lines == [x \in Contexts \union {NoContext} |->
            IF x = NoContext THEN pending ELSE got[x] \o inbox[x]]

Places(d) == {p \in UNION {{x} \X DOMAIN Lines[x] : x \in DOMAIN Lines} : Lines[p[1]][p[2]] = d}

\* Every event is in exactly one place, whatever routes are replaced between
\* an emitter's lookup and its push: pending, an inbox, a handler, or the hands
\* of the emitter or the adapter.
EveryEventOnce ==
    /\ \A e \in Emitters, i \in 1 .. MaxEmits :
         Cardinality(Places(Msg(e, i))) =
             IF i > emits[e] \/ (i = emits[e] /\ target[e] # NoContext) THEN 0 ELSE 1
    /\ Cardinality(Places(OsSignal)) + pipe = sigs
    /\ \A i \in 1 .. MaxLines : Cardinality(Places(HwEdge(i))) = IF i <= seq THEN 1 ELSE 0

SameSource(a, b) ==
    /\ a.tag = b.tag
    /\ \/ a.tag = "HwEdge"
       \/ a.tag = "ChannelMsg" /\ a.from = b.from

\* A context sees the messages of one emitter, and the edges of a line, in the
\* order they were sent, those sent before it subscribed included.
EmitOrderKept ==
    \A x \in Contexts : \A i, j \in DOMAIN Lines[x] :
        (i < j /\ SameSource(Lines[x][i], Lines[x][j])) => Lines[x][i].no < Lines[x][j].no

\* An event is in one place at a time and a context gets those of a source in
\* order, although uwait_emit pushes after the unlock.
EventsOnceInOrder == EveryEventOnce /\ EmitOrderKept
=============================================================================
