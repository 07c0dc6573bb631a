------------------------------ MODULE AckPath ------------------------------
(***************************************************************************)
(* The acknowledgement path: single-fire signals (runtime/oneshot.rs) and  *)
(* the registry of the ones that wait for a block (ack_registry.rs); and,  *)
(* in the second part, the join handles of spawned tasks (tasks.rs).       *)
(*                                                                         *)
(* A request thread owns its shard's active block.  For a row it registers *)
(* a token on that block and then, unless it is in FAST mode, waits with a *)
(* timeout; when that gives up it seals the block itself and waits again.  *)
(* A flush worker makes sealed blocks durable and signals them.  Those two *)
(* callers are M1 programs outside the repository.                         *)
(***************************************************************************)
EXTENDS Naturals, Sequences, FiniteSets, SequencesExt

CONSTANTS
    Requests,   \* request threads, each with a flush_dir of its own
    MaxRows,    \* bound: rows
    MaxWaits    \* bound: timed waits per row before the plain wait

ASSUME AckAssumption == MaxRows \in Nat /\ MaxWaits \in Nat

Ids == 1 .. MaxRows

\* A block is named by its flush_dir and its sequence number.
BlockIds == Requests \X (1 .. (MaxRows + 1))

VARIABLES
    nextId,     \* oneshot::next_id
    registry,   \* oneshot registry: ids whose cell is in the map
    done,       \* ids whose cell is marked done
    acks,       \* ack registry: block -> sequence of ids, << >> when absent
    seq,        \* request -> active block_seq
    id, pc,     \* request -> its token, its position
    timed, waits, elapsed,  \* request -> timed wait?, timed waits, timeout over?
    result,     \* request -> what the last wait returned
    row,        \* auxiliary: id -> the block that holds the row it stands for
    flushq,     \* sealed blocks on their way to the worker
    durable,    \* blocks on disk
    wpc, todo   \* worker: position, ids it still has to signal

rvars == <<seq, id, pc, timed, waits, elapsed, result, row>>
wvars == <<flushq, durable, wpc, todo>>
vars == <<nextId, registry, done, acks, rvars, wvars>>

Init ==
    /\ nextId = 1 /\ registry = {} /\ done = {}
    /\ acks = [b \in BlockIds |-> << >>]
    /\ seq = [r \in Requests |-> 1]
    /\ id = [r \in Requests |-> 0] /\ pc = [r \in Requests |-> "run"]
    /\ timed = [r \in Requests |-> FALSE] /\ waits = [r \in Requests |-> 0]
    /\ elapsed = [r \in Requests |-> FALSE] /\ result = [r \in Requests |-> "none"]
    /\ row = << >>
    /\ flushq = << >> /\ durable = {} /\ wpc = "idle" /\ todo = << >>

GoTo(r, l) == pc' = [pc EXCEPT ![r] = l]

Active(r) == <<r, seq[r]>>

-----------------------------------------------------------------------------
(* register: new_oneshot, then the push under the ack registry's lock *)

NewOneshot(r) ==
    /\ pc[r] = "run" /\ nextId <= MaxRows
    /\ nextId' = nextId + 1
    /\ registry' = registry \union {nextId}
    /\ id' = [id EXCEPT ![r] = nextId]
    /\ row' = Append(row, Active(r))
    /\ waits' = [waits EXCEPT ![r] = 0]
    /\ GoTo(r, "minted")
    /\ UNCHANGED <<done, acks, seq, timed, elapsed, result, wvars>>

Register(r) ==
    /\ pc[r] = "minted"
    /\ acks' = [acks EXCEPT ![Active(r)] = Append(@, id[r])]
    /\ GoTo(r, "registered")
    /\ UNCHANGED <<nextId, registry, done, seq, id, timed, waits, elapsed, result, row, wvars>>

\* FAST mode: the row is never waited for.
SkipWait(r) ==
    /\ pc[r] = "registered" /\ waits[r] = 0
    /\ GoTo(r, "run")
    /\ UNCHANGED <<nextId, registry, done, acks, seq, id, timed, waits, elapsed,
                   result, row, wvars>>

\* The block's rows so far are handed to the worker; a new block begins.
SealBlock(r) ==
    /\ \/ pc[r] = "run" /\ \E i \in 1 .. Len(row) : row[i] = Active(r)
       \/ pc[r] = "registered" /\ row[id[r]] = Active(r)
    /\ flushq' = Append(flushq, Active(r))
    /\ seq' = [seq EXCEPT ![r] = @ + 1]
    /\ UNCHANGED <<nextId, registry, done, acks, id, pc, timed, waits, elapsed,
                   result, row, durable, wpc, todo>>

-----------------------------------------------------------------------------
(* wait_oneshot and wait_oneshot_timeout *)

\* The timed wait comes first; the plain one once the row's block is sealed.
WaitCall(r) ==
    /\ pc[r] = "registered"
    /\ \/ /\ waits[r] < MaxWaits
          /\ timed' = [timed EXCEPT ![r] = TRUE]
          /\ waits' = [waits EXCEPT ![r] = @ + 1]
       \/ /\ row[id[r]] # Active(r)
          /\ timed' = [timed EXCEPT ![r] = FALSE]
          /\ UNCHANGED waits
    /\ elapsed' = [elapsed EXCEPT ![r] = FALSE]
    /\ GoTo(r, "lookup")
    /\ UNCHANGED <<nextId, registry, done, acks, seq, id, result, row, wvars>>

Return(r, answer) ==
    /\ result' = [result EXCEPT ![r] = answer]
    /\ GoTo(r, IF answer = "false" THEN "registered" ELSE "run")

\* registry.get(&id): an unknown id is one that has been signaled
Lookup(r) ==
    /\ pc[r] = "lookup"
    /\ \/ id[r] \notin registry /\ Return(r, "true")
       \/ id[r] \in registry /\ GoTo(r, "check") /\ UNCHANGED result
    /\ UNCHANGED <<nextId, registry, done, acks, seq, id, timed, waits, elapsed, row, wvars>>

\* Under the cell's mutex: done already, or sleep
Check(r) ==
    /\ pc[r] = "check"
    /\ \/ id[r] \in done /\ timed[r] /\ Return(r, "true")
       \/ id[r] \in done /\ ~timed[r] /\ GoTo(r, "retire") /\ UNCHANGED result
       \/ id[r] \notin done /\ GoTo(r, "asleep") /\ UNCHANGED result
    /\ UNCHANGED <<nextId, registry, done, acks, seq, id, timed, waits, elapsed, row, wvars>>

\* Awake again: wait_oneshot loops on done, wait_oneshot_timeout looks at it once
Awake(r) ==
    /\ pc[r] = "awake"
    /\ \/ id[r] \in done /\ GoTo(r, "retire") /\ UNCHANGED result
       \/ id[r] \notin done /\ ~timed[r] /\ GoTo(r, "asleep") /\ UNCHANGED result
       \/ id[r] \notin done /\ timed[r] /\ Return(r, "false")
    /\ UNCHANGED <<nextId, registry, done, acks, seq, id, timed, waits, elapsed, row, wvars>>

\* registry.remove(&id) by the waiter
Retire(r) ==
    /\ pc[r] = "retire"
    /\ registry' = registry \ {id[r]}
    /\ Return(r, "true")
    /\ UNCHANGED <<nextId, done, acks, seq, id, timed, waits, elapsed, row, wvars>>

Timeout(r) ==
    /\ pc[r] = "asleep" /\ timed[r]
    /\ elapsed' = [elapsed EXCEPT ![r] = TRUE]
    /\ GoTo(r, "awake")
    /\ UNCHANGED <<nextId, registry, done, acks, seq, id, timed, waits, result, row, wvars>>

\* A condition variable may wake a waiter for no reason.
SpuriousWake(r) ==
    /\ pc[r] = "asleep"
    /\ GoTo(r, "awake")
    /\ UNCHANGED <<nextId, registry, done, acks, seq, id, timed, waits, elapsed,
                   result, row, wvars>>

-----------------------------------------------------------------------------
(* The flush worker: fsync, then ack_signal_block *)

FsyncBlock ==
    /\ wpc = "idle" /\ flushq # << >>
    /\ durable' = durable \union {Head(flushq)}
    /\ wpc' = "durable"
    /\ UNCHANGED <<nextId, registry, done, acks, rvars, flushq, todo>>

\* Slip: the block's tokens are signaled before its fsync.
SignalBeforeFsync ==
    /\ wpc = "idle" /\ flushq # << >>
    /\ todo' = acks[Head(flushq)]
    /\ acks' = [acks EXCEPT ![Head(flushq)] = << >>]
    /\ flushq' = Tail(flushq)
    /\ wpc' = "signal"
    /\ UNCHANGED <<nextId, registry, done, rvars, durable>>

\* signal_block takes the block's ids out of the ack registry
SignalBlock ==
    /\ wpc = "durable"
    /\ todo' = acks[Head(flushq)]
    /\ acks' = [acks EXCEPT ![Head(flushq)] = << >>]
    /\ flushq' = Tail(flushq)
    /\ wpc' = "signal"
    /\ UNCHANGED <<nextId, registry, done, rvars, durable>>

\* signal_oneshot: retire the cell from the registry ...
SignalRemove ==
    /\ wpc = "signal" /\ todo # << >>
    /\ \/ Head(todo) \in registry /\ wpc' = "mark" /\ UNCHANGED todo
       \/ Head(todo) \notin registry /\ todo' = Tail(todo) /\ UNCHANGED wpc
    /\ registry' = registry \ {Head(todo)}
    /\ UNCHANGED <<nextId, done, acks, rvars, flushq, durable>>

\* Slip: the cell is marked done without a notify_all.
SignalMarkSilent ==
    /\ wpc = "mark"
    /\ done' = done \union {Head(todo)}
    /\ todo' = Tail(todo) /\ wpc' = "signal"
    /\ UNCHANGED <<nextId, registry, acks, rvars, flushq, durable>>

\* ... then mark it done and notify_all, holding the cell's mutex
SignalMark ==
    /\ wpc = "mark"
    /\ done' = done \union {Head(todo)}
    /\ pc' = [r \in Requests |->
                IF pc[r] = "asleep" /\ id[r] = Head(todo) THEN "awake" ELSE pc[r]]
    /\ todo' = Tail(todo) /\ wpc' = "signal"
    /\ UNCHANGED <<nextId, registry, acks, seq, id, timed, waits, elapsed, result,
                   row, flushq, durable>>

SignalDone ==
    /\ wpc = "signal" /\ todo = << >>
    /\ wpc' = "idle"
    /\ UNCHANGED <<nextId, registry, done, acks, rvars, flushq, durable, todo>>

Worker == FsyncBlock \/ SignalBlock \/ SignalRemove \/ SignalMark \/ SignalDone

Wait(r) == WaitCall(r) \/ Lookup(r) \/ Check(r) \/ Awake(r) \/ Retire(r)

Next ==
    \/ \E r \in Requests :
        \/ NewOneshot(r) \/ Register(r) \/ SkipWait(r) \/ SealBlock(r)
        \/ Wait(r) \/ Timeout(r) \/ SpuriousWake(r)
    \/ Worker

Spec == Init /\ [][Next]_vars

\* A request thread that has given up its timed waits seals its block, a timeout
\* elapses, and the worker keeps working.
Fairness ==
    /\ WF_vars(Worker)
    /\ \A r \in Requests :
        /\ WF_vars(Wait(r)) /\ WF_vars(Register(r)) /\ WF_vars(Timeout(r))
        /\ WF_vars(pc[r] = "registered" /\ SealBlock(r))

FairSpec == Spec /\ Fairness

-----------------------------------------------------------------------------
\* Every variable holds a value of its type.
TypeOK ==
    /\ nextId \in 1 .. (MaxRows + 1) /\ registry \subseteq Ids /\ done \subseteq Ids
    /\ acks \in [BlockIds -> Seq(Ids)]
    /\ seq \in [Requests -> 1 .. (MaxRows + 1)]
    /\ id \in [Requests -> 0 .. MaxRows]
    /\ pc \in [Requests -> {"run", "minted", "registered", "lookup", "check", "asleep",
                            "awake", "retire"}]
    /\ timed \in [Requests -> BOOLEAN] /\ waits \in [Requests -> 0 .. MaxWaits]
    /\ elapsed \in [Requests -> BOOLEAN]
    /\ result \in [Requests -> {"none", "true", "false"}]
    /\ row \in Seq(BlockIds) /\ flushq \in Seq(BlockIds) /\ durable \subseteq BlockIds
    /\ wpc \in {"idle", "durable", "signal", "mark"} /\ todo \in Seq(Ids)

\* No false acknowledgement: a wait that answers true stands for a row whose
\* block is on disk, whichever of signal, wait and retirement came first.
TrueMeansDurable ==
    \A r \in Requests :
        (pc[r] = "run" /\ result[r] = "true" /\ waits[r] > 0) => row[id[r]] \in durable

\* No waiter sleeps on a cell that has been signaled.
NoSleepOnDone == \A r \in Requests : pc[r] = "asleep" => id[r] \notin done

\* Nothing leaks: a token of a block the worker is through with has left both
\* registries, waited for or not.
SignaledTokensRetired ==
    wpc = "idle" =>
        \A i \in registry :
            row[i] \in durable => \E k \in 1 .. Len(flushq) : flushq[k] = row[i]

\* Every wait ends: a timed one when its time is over, a plain one because the
\* block it waits for has been sealed and the worker gets to it.
EveryWaitEnds == \A r \in Requests : (pc[r] = "lookup") ~> (pc[r] \in {"run", "registered"})

\* wait_oneshot_timeout: `false' is the answer "on timeout".
FalseMeansTimeout ==
    \A r \in Requests : (pc[r] = "registered" /\ result[r] = "false" /\ waits[r] > 0) => elapsed[r]

\* The oneshots and the ack registry together: an acknowledgement is honest,
\* reaches the thread that waits for it, and leaves nothing behind.
AcksAreHonest == TypeOK /\ TrueMeansDurable /\ NoSleepOnDone /\ SignaledTokensRetired

-----------------------------------------------------------------------------
(***************************************************************************)
(* runtime/tasks.rs: spawn starts a callee on a thread of its own and puts *)
(* its join handle in a table; join takes every listed handle out under    *)
(* one lock, then waits for them one after the other.                      *)
(***************************************************************************)

CONSTANTS
    Joiners,    \* threads that spawn and join
    MaxTasks,   \* bound: tasks
    MaxAsked,   \* bound: handles a join lists
    MaxJoins    \* bound: joins

ASSUME TasksAssumption == {MaxTasks, MaxAsked, MaxJoins} \subseteq Nat

VARIABLES
    task,       \* handle -> running, done or panicked
    parked,     \* handles whose JoinHandle the table holds
    spawning,   \* joiner -> a handle whose thread runs but is not in the table
    jpc,        \* joiner -> [at, asked, taken, out]
    given,      \* handle -> how many joins returned its result
    lost,       \* handles whose JoinHandle, or result, was dropped by a panic
    joins

tvars == <<task, parked, spawning, jpc, given, lost, joins>>

JIdle == [at |-> "idle", asked |-> <<>>, taken |-> <<>>, out |-> <<>>]

TInit ==
    /\ task = <<>> /\ parked = {} /\ spawning = [j \in Joiners |-> 0]
    /\ jpc = [j \in Joiners |-> JIdle] /\ given = <<>> /\ lost = {} /\ joins = 0

\* spawn: the thread starts first, the table entry follows
Spawn(j) ==
    /\ jpc[j].at = "idle" /\ spawning[j] = 0 /\ Len(task) < MaxTasks
    /\ task' = Append(task, "running") /\ given' = Append(given, 0)
    /\ spawning' = [spawning EXCEPT ![j] = Len(task) + 1]
    /\ UNCHANGED <<parked, jpc, lost, joins>>

SpawnInsert(j) ==
    /\ spawning[j] # 0
    /\ parked' = parked \union {spawning[j]} /\ spawning' = [spawning EXCEPT ![j] = 0]
    /\ UNCHANGED <<task, jpc, given, lost, joins>>

TaskEnd(h) ==
    /\ task[h] = "running"
    /\ \E s \in {"done", "panicked"} : task' = [task EXCEPT ![h] = s]
    /\ UNCHANGED <<parked, spawning, jpc, given, lost, joins>>

\* a handle a joiner can name: any spawn that has returned to somebody
Known == {h \in DOMAIN task : \A j \in Joiners : spawning[j] # h}

\* join begins
Joins(j) ==
    /\ jpc[j].at = "idle" /\ spawning[j] = 0
    /\ joins < MaxJoins /\ joins' = joins + 1
    /\ UNCHANGED <<task, spawning, given>>

\* Handle i of the list is not in the table when its turn comes: it is unknown,
\* has been joined before, or is listed twice.
Missing(hs, i) == hs[i] \notin parked \/ \E k \in 1 .. (i - 1) : hs[k] = hs[i]

\* slip: an unknown handle is passed over
JoinTakeLenient(j, hs) ==
    /\ Joins(j)
    /\ jpc' = [jpc EXCEPT ![j] = [at |-> "wait", asked |-> hs, out |-> <<>>,
                                  taken |-> SelectSeq(hs, LAMBDA h : h \in parked)]]
    /\ parked' = parked \ Range(hs)
    /\ UNCHANGED lost

\* under the lock, every handle leaves the table in the asked order
JoinTake(j, hs) ==
    /\ Joins(j)
    /\ \A i \in DOMAIN hs : ~Missing(hs, i)
    /\ parked' = parked \ Range(hs)
    /\ jpc' = [jpc EXCEPT ![j] = [at |-> "wait", asked |-> hs, taken |-> hs, out |-> <<>>]]
    /\ UNCHANGED lost

\* or until one is missing; then the call panics and the ones it had taken are
\* dropped with it
JoinMissing(j, hs) ==
    /\ Joins(j)
    /\ \E i \in DOMAIN hs :
        LET removed == {hs[k] : k \in 1 .. (i - 1)}
        IN  /\ Missing(hs, i) /\ \A k \in 1 .. (i - 1) : ~Missing(hs, k)
            /\ parked' = parked \ removed
            /\ lost' = lost \union removed
    /\ jpc' = [jpc EXCEPT ![j] = [JIdle EXCEPT !.at = "panicked", !.asked = hs]]

\* the next one has finished: its result joins the answer; a panicked task
\* panics the join, and the handles still to be waited for are dropped
JoinWait(j) ==
    /\ jpc[j].at = "wait" /\ jpc[j].taken # <<>> /\ task[Head(jpc[j].taken)] # "running"
    /\ LET h == Head(jpc[j].taken)
       IN  IF task[h] = "done"
           THEN /\ jpc' = [jpc EXCEPT ![j].taken = Tail(@), ![j].out = Append(@, h)]
                /\ UNCHANGED lost
           ELSE /\ jpc' = [jpc EXCEPT ![j] = [JIdle EXCEPT !.at = "panicked", !.asked = jpc[j].asked]]
                /\ lost' = lost \union Range(jpc[j].taken) \union Range(jpc[j].out)
    /\ UNCHANGED <<task, parked, spawning, given, joins>>

JoinReturn(j) ==
    /\ jpc[j].at = "wait" /\ jpc[j].taken = <<>>
    /\ given' = [h \in DOMAIN given |-> given[h] + Cardinality({i \in DOMAIN jpc[j].out : jpc[j].out[i] = h})]
    /\ jpc' = [jpc EXCEPT ![j].at = "returned"]
    /\ UNCHANGED <<task, parked, spawning, lost, joins>>

\* the caller goes on (a panic of join ends a supervised entry's attempt only)
JoinAgain(j) ==
    /\ jpc[j].at \in {"returned", "panicked"}
    /\ jpc' = [jpc EXCEPT ![j] = JIdle]
    /\ UNCHANGED <<task, parked, spawning, given, lost, joins>>

Lists == SeqOf(Known, MaxAsked)

TNext ==
    \/ \E j \in Joiners : \/ Spawn(j) \/ SpawnInsert(j) \/ JoinWait(j) \/ JoinReturn(j) \/ JoinAgain(j)
                          \/ \E hs \in Lists : JoinTake(j, hs) \/ JoinMissing(j, hs)
    \/ \E h \in DOMAIN task : TaskEnd(h)

TSpec == TInit /\ [][TNext]_tvars

\* Joins of overlapping lists never wait for each other and never share a
\* result: a task is in the table, held by one join, returned once or dropped,
\* and a join that returns gives the finished results of exactly the handles
\* it was asked for, in that order.
JoinIsExact ==
    /\ \A j \in Joiners : jpc[j].at = "returned" =>
        jpc[j].out = jpc[j].asked /\ \A i \in DOMAIN jpc[j].out : task[jpc[j].out[i]] = "done"
    /\ \A h \in DOMAIN task :
        LET places == {j \in Joiners : jpc[j].at = "wait" /\ h \in Range(jpc[j].taken) \union Range(jpc[j].out)}
            spawned == {j \in Joiners : spawning[j] = h}
        IN  Cardinality(places) + Cardinality(spawned) + given[h]
              + (IF h \in parked THEN 1 ELSE 0) + (IF h \in lost THEN 1 ELSE 0) = 1
=============================================================================
