----------------------------- MODULE HeldState ------------------------------
(***************************************************************************)
(* What a program holds between its calls: the sets, maps, vectors and     *)
(* cursors of a loop (runtime/scratch.rs, u32v.rs, cursor.rs), local maps  *)
(* (hmap.rs) and list values (value.rs, list.rs).                          *)
(***************************************************************************)
EXTENDS Naturals, Sequences, FiniteSets, SequencesExt

-----------------------------------------------------------------------------
(***************************************************************************)
(* runtime/scratch.rs, runtime/u32v.rs and runtime/cursor.rs: the stores a *)
(* program's loops keep outside their state.  All are thread-local and     *)
(* outlive the job that filled them, so a worker's next job on the same    *)
(* names starts among the leftovers of the last one, or of one that        *)
(* panicked half way.  A job here deduplicates records with a set, keeps   *)
(* the last payload per key in a map, sorts triples in a u32 array and     *)
(* writes the records it kept through a cursor.                            *)
(***************************************************************************)

CONSTANTS
    Workers,
    Inputs,         \* record sequences a job may be given; records are triples
    KeyOrder,       \* the (k0, k1, k2) passed to u32v_sort3, slots 1..3 here
    U32Max,         \* the largest element u32v_push takes
    MaxJobs         \* jobs started by all workers together

VARIABLES
    sets,       \* SETS of a thread, one name: keys
    maps,       \* MAPS of a thread, one name: [key -> payload]
    vecs,       \* VECS of a thread, one name: a sequence
    curs,       \* CURS of a thread: [handle -> chunks]
    next,       \* NEXT of a thread
    job,        \* [pc, xs, i, h]
    said,       \* ghost: <<xs, result>> of finished jobs
    jobs

lvars == <<sets, maps, vecs, curs, next, job, said, jobs>>

NoJob == [pc |-> "none", xs |-> <<>>, i |-> 0, in |-> 0, h |-> 0]
Key(x) == x[1]
Payload(x) == x[2]

LInit ==
    /\ sets = [w \in Workers |-> {}] /\ maps = [w \in Workers |-> <<>>]
    /\ vecs = [w \in Workers |-> <<>>] /\ curs = [w \in Workers |-> <<>>]
    /\ next = [w \in Workers |-> 1] /\ job = [w \in Workers |-> NoJob]
    /\ said = {} /\ jobs = 0

Put(f, k, v) == [j \in DOMAIN f \union {k} |-> IF j = k THEN v ELSE f[j]]
Without(f, k) == [j \in DOMAIN f \ {k} |-> f[j]]

set_clear(w) == sets' = [sets EXCEPT ![w] = {}]
set_add(w, k) == sets' = [sets EXCEPT ![w] = @ \union {k}]
set_has(w, k) == k \in sets[w]
map_clear(w) == maps' = [maps EXCEPT ![w] = <<>>]
map_put(w, k, v) == maps' = [maps EXCEPT ![w] = Put(@, k, v)]
map_get(w, k) == IF k \in DOMAIN maps[w] THEN maps[w][k] ELSE 0
u32v_new(w) == vecs' = [vecs EXCEPT ![w] = <<>>]
\* an element outside u32 is a panic
u32v_push(w, xs) == (\A n \in Range(xs) : n <= U32Max) /\ vecs' = [vecs EXCEPT ![w] = @ \o xs]

\* cursor_load of the job's input and cursor_open for its output, each with a
\* handle the thread never gave out before
cursor_open(w, input) ==
    /\ curs' = [curs EXCEPT ![w] = Put(Put(@, next[w], input), next[w] + 1, <<>>)]
    /\ next' = [next EXCEPT ![w] = @ + 2]
cursor_get(w, h) == IF h \in DOMAIN curs[w] THEN curs[w][h] ELSE <<>>
cursor_len(w, h) == Len(cursor_get(w, h))
cursor_line(w, h, i) == curs[w][h][i]
cursor_close(w, h) == Without(curs[w], h)

\* slip: the set of an earlier job stays
JobClearKeepsSet(w, xs) ==
    /\ job[w].pc = "none" /\ jobs < MaxJobs /\ jobs' = jobs + 1
    /\ map_clear(w) /\ u32v_new(w) /\ cursor_open(w, xs)
    /\ job' = [job EXCEPT ![w] = [pc |-> "each", xs |-> xs, i |-> 1, in |-> next[w], h |-> next[w] + 1]]
    /\ UNCHANGED <<sets, said>>

\* the owner clears up front, which drops what the names held
JobClear(w, xs) ==
    /\ job[w].pc = "none" /\ jobs < MaxJobs /\ jobs' = jobs + 1
    /\ set_clear(w) /\ map_clear(w) /\ u32v_new(w) /\ cursor_open(w, xs)
    /\ job' = [job EXCEPT ![w] = [pc |-> "each", xs |-> xs, i |-> 1, in |-> next[w], h |-> next[w] + 1]]
    /\ UNCHANGED said

\* one line of the input: it is written out if its key is new, its payload
\* overwrites the key's, its elements go to the array
JobEach(w) ==
    LET x == cursor_line(w, job[w].in, job[w].i)
    IN  /\ job[w].pc = "each" /\ job[w].i <= cursor_len(w, job[w].in)
        /\ set_add(w, Key(x)) /\ map_put(w, Key(x), Payload(x)) /\ u32v_push(w, x)
        /\ curs' = IF set_has(w, Key(x)) THEN curs ELSE [curs EXCEPT ![w][job[w].h] = Append(@, x)]
        /\ job' = [job EXCEPT ![w].i = @ + 1]
        /\ UNCHANGED <<next, said, jobs>>

\* a panic (an element out of range, or anything in the program between two
\* calls): the job ends and everything it had stored stays
JobPanic(w) ==
    /\ job[w].pc = "each"
    /\ job' = [job EXCEPT ![w] = NoJob]
    /\ UNCHANGED <<sets, maps, vecs, curs, next, said, jobs>>

Triples(v) == [k \in 1 .. (Len(v) \div 3) |-> SubSeq(v, 3 * k - 2, 3 * k)]
Less(x, y) ==
    LET a == KeyOrder[1]  b == KeyOrder[2]  c == KeyOrder[3]
    IN  \/ x[a] < y[a]
        \/ x[a] = y[a] /\ x[b] < y[b]
        \/ x[a] = y[a] /\ x[b] = y[b] /\ x[c] < y[c]

\* u32v_sort3: unstable, so any arrangement in order may be the result; the
\* key is a permutation of the slots and the length a multiple of 3
u32v_sort3(v) ==
    LET rs == Triples(v)
    IN  {FlattenSeq([i \in DOMAIN rs |-> rs[p[i]]]) : p \in
            {q \in [DOMAIN rs -> DOMAIN rs] :
                /\ \A i, j \in DOMAIN rs : i # j => q[i] # q[j]
                /\ \A i, j \in DOMAIN rs : i < j => ~Less(rs[q[j]], rs[q[i]])}}

\* cursor_sort: stable by the key before the first TAB, either direction
cursor_sort(lines, desc) ==
    LET before(i, j) == IF desc THEN Key(lines[i]) > Key(lines[j]) ELSE Key(lines[i]) < Key(lines[j])
        pos(i) == 1 + Cardinality({j \in DOMAIN lines : before(j, i) \/ (~before(i, j) /\ j < i)})
    IN  [n \in DOMAIN lines |-> lines[CHOOSE i \in DOMAIN lines : pos(i) = n]]

\* the loop is over: read everything back and close both cursors (a closed
\* handle reads as empty from now on)
JobFinish(w) ==
    /\ job[w].pc = "each" /\ job[w].i > cursor_len(w, job[w].in)
    /\ \E sorted \in u32v_sort3(vecs[w]) :
        /\ vecs' = [vecs EXCEPT ![w] = sorted]
        /\ said' = said \union {[xs |-> job[w].xs,
                kept |-> cursor_get(w, job[w].h),
                up |-> cursor_sort(cursor_get(w, job[w].in), FALSE),
                down |-> cursor_sort(cursor_get(w, job[w].in), TRUE),
                len |-> Cardinality(sets[w]),
                last |-> [k \in sets[w] |-> map_get(w, k)],
                sorted |-> sorted]}
    /\ curs' = [curs EXCEPT ![w] = Without(cursor_close(w, job[w].h), job[w].in)]
    /\ job' = [job EXCEPT ![w] = NoJob]
    /\ UNCHANGED <<sets, maps, next, jobs>>

LNext == \E w \in Workers :
            \/ \E xs \in Inputs : JobClear(w, xs)
            \/ JobEach(w) \/ JobPanic(w) \/ JobFinish(w)
LSpec == LInit /\ [][LNext]_lvars

FirstOf(xs) == SelectSeq([i \in DOMAIN xs |-> [at |-> i, x |-> xs[i]]],
                         LAMBDA r : \A j \in 1 .. r.at - 1 : Key(xs[j]) # Key(r.x))
Of(s, k) == SelectSeq(s, LAMBDA x : Key(x) = k)
Ascending(s) == \A i, j \in DOMAIN s : i < j => Key(s[i]) <= Key(s[j])

\* A job's answer is a function of its records alone, whatever the worker did
\* before and whichever job died half way: the first record of every key in
\* input order, the last payload of every key, the triples sorted with none
\* lost or made up, and a closed cursor gone.  Sorting lines up and down
\* keeps the order of equal keys, as the loop it replaced did.
JobsRepeat ==
    /\ \A a \in said :
        /\ a.kept = [i \in DOMAIN FirstOf(a.xs) |-> FirstOf(a.xs)[i].x]
        /\ a.len = Cardinality({Key(a.xs[i]) : i \in DOMAIN a.xs})
        /\ \A i \in DOMAIN a.xs : (\A j \in i + 1 .. Len(a.xs) : Key(a.xs[j]) # Key(a.xs[i]))
                                    => a.last[Key(a.xs[i])] = Payload(a.xs[i])
        /\ \A i, j \in DOMAIN Triples(a.sorted) : i < j => ~Less(Triples(a.sorted)[j], Triples(a.sorted)[i])
        /\ \A x \in Range(a.xs) : Cardinality({i \in DOMAIN a.xs : a.xs[i] = x})
                                   = Cardinality({i \in DOMAIN Triples(a.sorted) : Triples(a.sorted)[i] = x})
        /\ Ascending(a.up) /\ Ascending(Reverse(a.down))
        /\ \A k \in {Key(a.xs[i]) : i \in DOMAIN a.xs} : Of(a.up, k) = Of(a.xs, k) /\ Of(a.down, k) = Of(a.xs, k)
    /\ \A w \in Workers : job[w].pc = "each" =>
        job[w].h \in DOMAIN curs[w] /\ job[w].h < next[w] /\ cursor_get(w, job[w].in) = job[w].xs

-----------------------------------------------------------------------------
(***************************************************************************)
(* runtime/hmap.rs: mutable maps that live in the table of the thread that *)
(* made them.  A handle is (owner, slot, generation); copies made on the   *)
(* owner are counted, and the last counted copy to drop frees the slot for *)
(* reuse under the next generation.  hmap_freeze moves the map out.        *)
(***************************************************************************)

CONSTANTS
    Threads,
    Main,           \* a member of Threads; the others are tasks it spawned
    MaxHandles,     \* values alive at once
    MaxMaps,        \* maps ever made
    MaxPuts,        \* writes to one map
    GenLimit        \* 2^32 in the code: generations wrap

VARIABLES
    slots,      \* thread -> sequence of [gen, count, state, map, n]
    free,       \* thread -> stack of free slots
    vals,       \* values: [kind, at, owner, index, gen, counted, map, n]
    over,       \* threads that have returned; their tables are gone
    puts,       \* ghost: map -> the writes made through its handles
    made        \* maps made

hvars == <<slots, free, vals, over, puts, made>>

\* a map's content is the number of its last write, 0 for the empty map
Local(t, i, g, counted, m) ==
    [kind |-> "local", at |-> t, owner |-> t, index |-> i, gen |-> g, counted |-> counted, map |-> m, n |-> 0]

HInit ==
    /\ slots = [t \in Threads |-> <<>>] /\ free = [t \in Threads |-> <<>>]
    /\ vals = <<>> /\ over = {} /\ puts = <<>> /\ made = 0

Room == Len(vals) < MaxHandles
Here(v) == vals[v].at \notin over

\* the slot a handle reaches on the thread that holds it: owner_check, then
\* the generation
Reaches(v) ==
    LET h == vals[v]
    IN  /\ h.kind = "local" /\ h.owner = h.at /\ h.index <= Len(slots[h.at])
        /\ slots[h.at][h.index].gen = h.gen
Slot(v) == slots[vals[v].at][vals[v].index]
OnLive(v) == Reaches(v) /\ Slot(v).state = "live"

\* hmap_new: the last slot freed, or a new one
hmap_new(t) ==
    /\ t \notin over /\ Room /\ made < MaxMaps /\ made' = made + 1
    /\ puts' = Append(puts, 0)
    /\ IF free[t] # <<>>
       THEN LET i == Last(free[t])  g == slots[t][i].gen
            IN  /\ free' = [free EXCEPT ![t] = Front(@)]
                /\ slots' = [slots EXCEPT ![t][i] = [gen |-> g, count |-> 1, state |-> "live", n |-> 0]]
                /\ vals' = Append(vals, Local(t, i, g, TRUE, made + 1))
       ELSE /\ slots' = [slots EXCEPT ![t] = Append(@, [gen |-> 0, count |-> 1, state |-> "live", n |-> 0])]
            /\ vals' = Append(vals, Local(t, Len(slots[t]) + 1, 0, TRUE, made + 1))
            /\ UNCHANGED free
    /\ UNCHANGED over

\* slip: a copy that drops like a counted one was never counted
CloneForgetsCount(v) ==
    LET h == vals[v]  c == Reaches(v) /\ Slot(v).state # "free"
    IN  /\ Here(v) /\ Room
        /\ vals' = Append(vals, [h EXCEPT !.counted = IF h.kind = "local" THEN c ELSE @])
        /\ UNCHANGED <<slots, free, over, puts, made>>

\* Clone: counted only on the owner, and only while the slot is this map's
CloneValue(v) ==
    LET h == vals[v]  c == Reaches(v) /\ Slot(v).state # "free"
    IN  /\ Here(v) /\ Room
        /\ vals' = Append(vals, [h EXCEPT !.counted = IF h.kind = "local" THEN c ELSE @])
        /\ slots' = IF c THEN [slots EXCEPT ![h.at][h.index].count = @ + 1] ELSE slots
        /\ UNCHANGED <<free, over, puts, made>>

\* Drop: a counted copy on its owner takes one off; the last one frees the
\* slot, moves it to the next generation and offers it for reuse
DropValue(v) ==
    LET h == vals[v]  c == h.counted /\ Reaches(v) /\ Slot(v).state # "free"
        last == c /\ Slot(v).count = 1
    IN  /\ Here(v) /\ vals' = RemoveAt(vals, v)
        /\ slots' = IF ~c THEN slots
                    ELSE [slots EXCEPT ![h.at][h.index] =
                            IF last THEN [@ EXCEPT !.count = 0, !.state = "free", !.gen = (@ + 1) % GenLimit]
                            ELSE [@ EXCEPT !.count = @ - 1]]
        /\ free' = IF last THEN [free EXCEPT ![h.at] = Append(@, h.index)] ELSE free
        /\ UNCHANGED <<over, puts, made>>

\* hmap_put: in place, on the live map of the owner; anything else panics
hmap_put(v) ==
    /\ Here(v) /\ OnLive(v) /\ puts[vals[v].map] < MaxPuts
    /\ puts' = [puts EXCEPT ![vals[v].map] = @ + 1]
    /\ slots' = [slots EXCEPT ![vals[v].at][vals[v].index].n = puts[vals[v].map] + 1]
    /\ UNCHANGED <<free, vals, over, made>>

\* hmap_get and hmap_has, of a live local map or a frozen one; they panic on
\* the other values and change nothing
Readable(v) == Here(v) /\ (vals[v].kind = "frozen" \/ OnLive(v))
hmap_get(v) == IF vals[v].kind = "frozen" THEN vals[v].n ELSE Slot(v).n

\* hmap_freeze: the entries move into the frozen value and every handle is
\* dead, the one passed in too (its drop on return is a DropValue)
hmap_freeze(v) ==
    LET h == vals[v]
    IN  /\ Here(v) /\ OnLive(v) /\ Room
        /\ vals' = Append(vals, [h EXCEPT !.kind = "frozen", !.n = Slot(v).n])
        /\ slots' = [slots EXCEPT ![h.at][h.index].state = "dead", ![h.at][h.index].n = 0]
        /\ UNCHANGED <<free, over, puts, made>>

\* The doors by which a value changes thread: spawn and the channels refuse a
\* local map (refuse_handle); the result of a task does not pass a door.
Send(v, t) ==
    /\ Here(v) /\ t \notin over /\ vals[v].kind = "frozen" /\ t # vals[v].at
    /\ vals' = [vals EXCEPT ![v].at = t]
    /\ UNCHANGED <<slots, free, over, puts, made>>

\* a task returns one value to its joiner; its other values drop with its
\* table
TaskEnds(t, v) ==
    /\ t \notin over \union {Main} /\ v \in DOMAIN vals /\ vals[v].at = t
    /\ over' = over \union {t}
    /\ vals' = Append(SelectSeq(vals, LAMBDA x : x.at # t), [vals[v] EXCEPT !.at = Main])
    /\ slots' = [slots EXCEPT ![t] = <<>>] /\ free' = [free EXCEPT ![t] = <<>>]
    /\ UNCHANGED <<puts, made>>

HNext ==
    \/ \E t \in Threads : hmap_new(t)
    \/ \E v \in DOMAIN vals :
        \/ CloneValue(v) \/ DropValue(v) \/ hmap_put(v) \/ hmap_freeze(v)
        \/ \E t \in Threads : Send(v, t) \/ TaskEnds(t, v)
HSpec == HInit /\ [][HNext]_hvars

\* A handle only ever reaches the map it was made for: a slot stays taken
\* exactly as long as a counted copy is alive on its owner, no reuse of a slot
\* is visible through an old handle, a read gives the last write of that
\* very map, and a frozen map keeps what it held when it was frozen.
HandlesKeepTheirMap ==
    /\ \A t \in Threads : \A i \in DOMAIN slots[t] :
        LET copies == {v \in DOMAIN vals : vals[v].kind = "local" /\ vals[v].at = t /\ vals[v].owner = t
                                            /\ vals[v].index = i /\ vals[v].counted /\ vals[v].gen = slots[t][i].gen}
        IN  /\ slots[t][i].count = Cardinality(copies)
            /\ slots[t][i].state = "free" <=> copies = {}
            /\ Cardinality({vals[v].map : v \in copies}) <= 1
    /\ \A v \in DOMAIN vals : Readable(v) => hmap_get(v) = puts[vals[v].map]

-----------------------------------------------------------------------------
(***************************************************************************)
(* runtime/value.rs and list.rs: list values share their elements.  Copies *)
(* of a value count references to one buffer (ListBuf, an Arc); an update  *)
(* gets its list moved in and writes in place when it holds the only       *)
(* reference, and copies the elements first otherwise.  BytesBuf is the    *)
(* same for bytes, with bytes_push and bytes_concat as its updates.  An    *)
(* index out of range panics before anything is written: no step.          *)
(***************************************************************************)

CONSTANTS
    Elems,
    MaxLen, MaxLists,   \* elements of a list; list values alive
    MaxBufs             \* buffers ever allocated

VARIABLES
    bufs,       \* the buffers: [elems, rc]
    lists       \* list values alive: [buf, means]; means is a ghost

qvars == <<bufs, lists>>

QInit == bufs = <<>> /\ lists = <<>>

Space == Len(bufs) < MaxBufs
Elements(v) == bufs[lists[v].buf].elems

\* an Arc dropped: the last reference frees the elements
Release(from, b) == [from EXCEPT ![b] = IF @.rc = 1 THEN [elems |-> <<>>, rc |-> 0] ELSE [@ EXCEPT !.rc = @ - 1]]

\* list_nil, list_make, list_of_1..3: a list of its own
MakeList(xs) ==
    /\ Space /\ Len(lists) < MaxLists
    /\ bufs' = Append(bufs, [elems |-> xs, rc |-> 1])
    /\ lists' = Append(lists, [buf |-> Len(bufs) + 1, means |-> xs])

\* Clone and Drop of a value
CloneList(v) ==
    /\ Len(lists) < MaxLists
    /\ bufs' = [bufs EXCEPT ![lists[v].buf].rc = @ + 1] /\ lists' = Append(lists, lists[v])
DropList(v) == bufs' = Release(bufs, lists[v].buf) /\ lists' = RemoveAt(lists, v)

\* slip: the elements are written where they are
WriteShared(v, new, means) ==
    /\ bufs' = [bufs EXCEPT ![lists[v].buf].elems = new]
    /\ lists' = [lists EXCEPT ![v].means = means]

\* DerefMut (Arc::make_mut) and the update: in place, or in a copy
Write(v, new, means) ==
    LET b == lists[v].buf
    IN  IF bufs[b].rc = 1
        THEN /\ bufs' = [bufs EXCEPT ![b].elems = new]
             /\ lists' = [lists EXCEPT ![v].means = means]
        ELSE /\ Space
             /\ bufs' = Append([bufs EXCEPT ![b].rc = @ - 1], [elems |-> new, rc |-> 1])
             /\ lists' = [lists EXCEPT ![v] = [buf |-> Len(bufs) + 1, means |-> means]]

\* what the updates of one list do to its elements
list_append(xs, e) == Append(xs, e)
list_set(xs, i, e) == [xs EXCEPT ![i] = e]
list_insert(xs, i, e) == InsertAt(xs, i, e)
list_remove(xs, i) == RemoveAt(xs, i)
list_drop_last(xs) == Front(xs)
list_reverse(xs) == Reverse(xs)

Update(v) ==
    LET xs == Elements(v)  m == lists[v].means
    IN  \/ /\ Len(xs) < MaxLen
           /\ \E e \in Elems :
                \/ Write(v, list_append(xs, e), list_append(m, e))
                \/ \E i \in 1 .. Len(xs) + 1 : Write(v, list_insert(xs, i, e), list_insert(m, i, e))
        \/ /\ xs # <<>>
           /\ \/ Write(v, list_drop_last(xs), list_drop_last(m))
              \/ \E i \in DOMAIN xs :
                    \/ Write(v, list_remove(xs, i), list_remove(m, i))
                    \/ \E e \in Elems : Write(v, list_set(xs, i, e), list_set(m, i, e))
        \/ Write(v, list_reverse(xs), list_reverse(m))

\* list_concat and flatten of two: the first list's storage grows by the
\* elements of the second, which is consumed.  flatten leaves the first alone
\* when the second is empty, and gives it back as it came.
Join(v, w, skipsEmpty) ==
    LET b == lists[v].buf  c == lists[w].buf
        new == Elements(v) \o Elements(w)
        kept == [lists EXCEPT ![v].means = @ \o lists[w].means]
    IN  /\ v # w /\ Len(new) <= MaxLen
        /\ IF skipsEmpty /\ Elements(w) = <<>>
           THEN bufs' = Release(bufs, c) /\ lists' = RemoveAt(kept, w)
           ELSE IF bufs[b].rc = 1
           THEN bufs' = [Release(bufs, c) EXCEPT ![b].elems = new] /\ lists' = RemoveAt(kept, w)
           ELSE /\ Space
                /\ bufs' = Append(Release(Release(bufs, b), c), [elems |-> new, rc |-> 1])
                /\ lists' = RemoveAt([kept EXCEPT ![v].buf = Len(bufs) + 1], w)

\* a list built anew takes the place of the one consumed
Replace(v, new, means) ==
    /\ bufs' = Append(Release(bufs, lists[v].buf), [elems |-> new, rc |-> 1])
    /\ lists' = [lists EXCEPT ![v] = [buf |-> Len(bufs) + 1, means |-> means]]

\* list_cons and list_tail always build a new list
Rebuild(v) ==
    LET xs == Elements(v)  m == lists[v].means
    IN  /\ Space
        /\ \/ Len(xs) < MaxLen /\ \E e \in Elems : Replace(v, <<e>> \o xs, <<e>> \o m)
           \/ xs # <<>> /\ Replace(v, Tail(xs), Tail(m))

QNext ==
    \/ \E n \in 0 .. 1 : \E xs \in [1 .. n -> Elems] : MakeList(xs)
    \/ \E v \in DOMAIN lists :
        \/ CloneList(v) \/ DropList(v) \/ Update(v) \/ Rebuild(v)
        \/ \E w \in DOMAIN lists, skips \in BOOLEAN : Join(v, w, skips)
QSpec == QInit /\ [][QNext]_qvars

\* A list is a value: whatever is updated in place, every holder sees the
\* elements its own operations gave it, and a buffer lives exactly as long as
\* somebody holds it.
ListsAreValues ==
    /\ \A v \in DOMAIN lists : Elements(v) = lists[v].means
    /\ \A b \in DOMAIN bufs : bufs[b].rc = Cardinality({v \in DOMAIN lists : lists[v].buf = b})
=============================================================================
