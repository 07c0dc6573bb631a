----------------------------- MODULE Interners ------------------------------
(***************************************************************************)
(* The three tables that give a text one identity for every thread: the    *)
(* sharded string interner (runtime/interner_shard.rs), the frozen bank    *)
(* (fbank.rs) and the constructor tags (value.rs); and, in the last part,  *)
(* two caches that are kept in memory only (qhm.rs, hotmem.rs).            *)
(***************************************************************************)
EXTENDS Integers, Sequences, FiniteSets, SequencesExt, FiniteSetsExt

-----------------------------------------------------------------------------
(***************************************************************************)
(* runtime/interner_shard.rs with its two feeds.  Every shard has one      *)
(* owner thread that alone inserts; callers send it requests through a     *)
(* FIFO (a mutexed deque, or the MPSC queue, which implements FifoQueue)   *)
(* and sleep on a reply; readers resolve handles without a lock.           *)
(***************************************************************************)

CONSTANTS
    Callers, Shards,    \* Shards = 0 .. shard_count() - 1
    Strings,            \* the non-empty strings; "" is handle 0
    shard_for,          \* [Strings -> Shards]
    LocalMask,          \* LOCAL_MASK: locals run below it
    BlockLen,           \* BLOCK_LEN
    MaxCalls

\* A shard count and a block length; every string has a shard, and none is the
\* empty one or one of the answers that stand for no string.
ASSUME ShardsAssumption ==
    /\ Shards \subseteq Nat /\ LocalMask \in Nat \ {0} /\ BlockLen \in Nat \ {0}
    /\ shard_for \in [Strings -> Shards]
    /\ Strings \intersect {"", "invalid", "uninitialised"} = {}

VARIABLES
    requests,   \* shard -> FIFO of [text, from]
    shardOwner, \* shard -> [at, req, local]; at "dead" after the assert
    dedup,      \* shard -> sequence of inserted strings, local i at i + 1
    blocks,     \* shard -> blocks published
    slotOf,     \* shard -> [local -> string] written so far
    committed,  \* shard -> published slot count
    ipc,        \* caller -> [at, text | handle, seen]
    interned,   \* <<string, handle>> of finished interns
    resolved,   \* <<handle, answer>> of finished gets
    calls

nvars == <<requests, shardOwner, dedup, blocks, slotOf, committed, ipc, interned, resolved, calls>>

Invalid == "invalid"        \* <invalid-str-N>
Uninit == "uninitialised"   \* what a slot nobody wrote would give
NoReq == [text |-> "", from |-> "none"]
OwnerIdle == [at |-> "idle", req |-> NoReq, local |-> 0]
CallerIdle == [at |-> "idle", text |-> "", handle |-> 0, seen |-> 0]

NInit ==
    /\ requests = [s \in Shards |-> <<>>] /\ shardOwner = [s \in Shards |-> OwnerIdle]
    /\ dedup = [s \in Shards |-> <<>>] /\ blocks = [s \in Shards |-> 0]
    /\ slotOf = [s \in Shards |-> <<>>] /\ committed = [s \in Shards |-> 0]
    /\ ipc = [c \in Callers |-> CallerIdle]
    /\ interned = {} /\ resolved = {} /\ calls = 0

\* slip: the bare local, so that the first string of shard 0 is handle 0
PackBare(s, local) == s * (LocalMask + 1) + local

pack(s, local) == s * (LocalMask + 1) + ((local + 1) % (LocalMask + 1))
ShardOf(handle) == handle \div (LocalMask + 1)
LocalOf(handle) == (handle % (LocalMask + 1)) - 1

\* Table::intern: "" never reaches a shard; the others are queued
Intern(c, x) ==
    /\ ipc[c].at = "idle" /\ calls < MaxCalls /\ calls' = calls + 1
    /\ IF x = ""
       THEN interned' = interned \union {<<x, 0>>} /\ UNCHANGED <<requests, ipc>>
       ELSE /\ requests' = [requests EXCEPT ![shard_for[x]] = Append(@, [text |-> x, from |-> c])]
            /\ ipc' = [ipc EXCEPT ![c] = [@ EXCEPT !.at = "reply", !.text = x]]
            /\ UNCHANGED interned
    /\ UNCHANGED <<shardOwner, dedup, blocks, slotOf, committed, resolved>>

Reply(s, local) ==
    LET c == shardOwner[s].req.from
    IN  /\ ipc' = [ipc EXCEPT ![c] = CallerIdle]
        /\ interned' = interned \union {<<shardOwner[s].req.text, pack(s, local)>>}
        /\ shardOwner' = [shardOwner EXCEPT ![s] = OwnerIdle]

\* shard_owner_loop: sleeps while the FIFO is empty, takes one request
OwnerPop(s) ==
    /\ shardOwner[s].at = "idle" /\ requests[s] # <<>>
    /\ shardOwner' = [shardOwner EXCEPT ![s] = [at |-> "lookup", req |-> Head(requests[s]), local |-> 0]]
    /\ requests' = [requests EXCEPT ![s] = Tail(@)]
    /\ UNCHANGED <<dedup, blocks, slotOf, committed, ipc, interned, resolved, calls>>

\* get_or_insert: a known string answers at once
OwnerKnown(s) ==
    /\ shardOwner[s].at = "lookup" /\ \E i \in DOMAIN dedup[s] : dedup[s][i] = shardOwner[s].req.text
    /\ Reply(s, SelectInSeq(dedup[s], LAMBDA x : x = shardOwner[s].req.text) - 1)
    /\ UNCHANGED <<requests, dedup, blocks, slotOf, committed, resolved, calls>>

\* a new one takes the next local; past the budget the assert kills the owner,
\* and the caller is left waiting
OwnerNew(s) ==
    /\ shardOwner[s].at = "lookup" /\ \A i \in DOMAIN dedup[s] : dedup[s][i] # shardOwner[s].req.text
    /\ IF Len(dedup[s]) < LocalMask
       THEN shardOwner' = [shardOwner EXCEPT ![s].at = "write", ![s].local = Len(dedup[s])]
       ELSE shardOwner' = [shardOwner EXCEPT ![s].at = "dead"]
    /\ UNCHANGED <<requests, dedup, blocks, slotOf, committed, ipc, interned, resolved, calls>>

\* the first slot of a block publishes the block before the slot is written
OwnerWrite(s) ==
    /\ shardOwner[s].at = "write"
    /\ blocks' = [blocks EXCEPT ![s] = IF shardOwner[s].local % BlockLen = 0 THEN @ + 1 ELSE @]
    /\ slotOf' = [slotOf EXCEPT ![s] = Append(@, shardOwner[s].req.text)]
    /\ shardOwner' = [shardOwner EXCEPT ![s].at = "commit"]
    /\ UNCHANGED <<requests, dedup, committed, ipc, interned, resolved, calls>>

\* committed.store(local + 1, Release)
OwnerCommit(s) ==
    /\ shardOwner[s].at = "commit"
    /\ committed' = [committed EXCEPT ![s] = shardOwner[s].local + 1]
    /\ shardOwner' = [shardOwner EXCEPT ![s].at = "remember"]
    /\ UNCHANGED <<requests, dedup, blocks, slotOf, ipc, interned, resolved, calls>>

\* next and dedup advance, then the reply is signalled
OwnerRemember(s) ==
    /\ shardOwner[s].at = "remember"
    /\ dedup' = [dedup EXCEPT ![s] = Append(@, shardOwner[s].req.text)]
    /\ Reply(s, shardOwner[s].local)
    /\ UNCHANGED <<requests, blocks, slotOf, committed, resolved, calls>>

\* Table::get of any handle; 0 is "" without looking
GetLoad(c, handle) ==
    /\ ipc[c].at = "idle" /\ calls < MaxCalls /\ calls' = calls + 1
    /\ handle # 0 /\ LocalOf(handle) >= 0
    /\ ipc' = [ipc EXCEPT ![c] = [@ EXCEPT !.at = "get", !.handle = handle,
                                            !.seen = committed[ShardOf(handle)]]]
    /\ UNCHANGED <<requests, shardOwner, dedup, blocks, slotOf, committed, interned, resolved>>

GetRead(c) ==
    LET s == ShardOf(ipc[c].handle)  l == LocalOf(ipc[c].handle)
    IN  /\ ipc[c].at = "get"
        /\ resolved' = resolved \union {<<ipc[c].handle,
                IF l >= ipc[c].seen THEN Invalid
                ELSE IF l < Len(slotOf[s]) /\ l \div BlockLen < blocks[s] THEN slotOf[s][l + 1]
                ELSE Uninit>>}
        /\ ipc' = [ipc EXCEPT ![c] = CallerIdle]
        /\ UNCHANGED <<requests, shardOwner, dedup, blocks, slotOf, committed, interned, calls>>

OwnerStep(s) == OwnerPop(s) \/ OwnerKnown(s) \/ OwnerNew(s) \/ OwnerWrite(s) \/ OwnerCommit(s) \/ OwnerRemember(s)
Handles == {s * (LocalMask + 1) + n : s \in Shards, n \in 0 .. LocalMask} \ {0}
NNext ==
    \/ \E s \in Shards : OwnerStep(s)
    \/ \E c \in Callers : \/ \E x \in Strings \union {""} : Intern(c, x)
                          \/ \E h \in Handles : GetLoad(c, h)
                          \/ GetRead(c)
NSpec == NInit /\ [][NNext]_nvars

\* Interning is an injection that can be undone: equal strings have equal
\* handles and distinct ones distinct handles whichever threads asked, a
\* handle once handed out resolves to its string, and no handle whatever
\* makes a reader look at a slot that was not written.
HandlesAreExact ==
    /\ \A p, q \in interned : p[1] = q[1] <=> p[2] = q[2]
    /\ \A p \in interned, r \in resolved : p[2] = r[1] => r[2] \in {p[1], Invalid}
    /\ \A p \in interned : p[1] # "" =>
        /\ p[2] # 0
        /\ LocalOf(p[2]) < committed[ShardOf(p[2])]
        /\ slotOf[ShardOf(p[2])][LocalOf(p[2]) + 1] = p[1]
    /\ \A r \in resolved : r[2] # Uninit

-----------------------------------------------------------------------------
(***************************************************************************)
(* runtime/fbank.rs: a bank of texts that many threads fill without locks. *)
(* A bank either takes puts with ordinals, where the lowest ordinal of a   *)
(* content must end as its holder, or interns texts to ids.  Entries are   *)
(* written before a table slot names them and never change afterwards, so  *)
(* a slot load and the entry behind it are one step.                       *)
(***************************************************************************)

CONSTANTS
    Putters,            \* threads, one call each
    Texts,
    home,               \* [Texts -> slots]: hash_of(text) & mask
    length,             \* [Texts -> Nat]: bytes of a text
    MaxEntries, MaxBytes

TableSlots == 0 .. 2 * MaxEntries - 1       \* the instances take a power of two

\* hash_of gives every text a slot.
ASSUME BankAssumption ==
    /\ IsFiniteSet(Putters) /\ MaxEntries \in Nat \ {0}
    /\ home \in [Texts -> TableSlots] /\ length \in [Texts -> Nat]

VARIABLES
    table,      \* slot -> entry id + 1, 0 for empty
    entries,    \* id -> [text, ord], written before publication
    used,       \* count and cursor
    call,       \* thread -> [text, ord] of its one call; ord is 0 for interns
    bpc         \* thread -> [at, i, cur, id, res]

bankvars == <<table, entries, used, call, bpc>>

Start(t) == [at |-> "probe", i |-> home[call[t].text], cur |-> 0, id |-> 0, res |-> 0]
Next1(i) == (i + 1) % (2 * MaxEntries)
Full == 2 * MaxEntries + 2              \* stands for the answer -2
Refused == 2 * MaxEntries + 1           \* stands for the answer -1

\* puts come with an ordinal of their own, interns with none
FInit ==
    /\ table = [i \in TableSlots |-> 0] /\ entries = <<>> /\ used = [count |-> 0, bytes |-> 0]
    /\ \E texts \in [Putters -> Texts] :
        \/ \E ord \in {f \in [Putters -> 1 .. Cardinality(Putters)] :
                        \A p, q \in Putters : p # q => f[p] # f[q]} :
            call = [t \in Putters |-> [text |-> texts[t], ord |-> ord[t]]]
        \/ call = [t \in Putters |-> [text |-> texts[t], ord |-> 0]]
    /\ bpc = [t \in Putters |-> Start(t)]

Finish(t, res) == bpc' = [bpc EXCEPT ![t].at = "done", ![t].res = res]
Interns(t) == call[t].ord = 0
Matches(t, cur) == cur # 0 /\ entries[cur].text = call[t].text

\* The read-only probe: a put that a lower ordinal refuses costs nothing, and
\* an intern that meets its text answers with the holder.
Probe(t) ==
    LET cur == table[bpc[t].i]
    IN  /\ bpc[t].at = "probe"
        /\ IF cur = 0 THEN bpc' = [bpc EXCEPT ![t].at = "claim"]
           ELSE IF ~Matches(t, cur) THEN bpc' = [bpc EXCEPT ![t].i = Next1(@)]
           ELSE IF Interns(t) THEN Finish(t, cur)
           ELSE IF entries[cur].ord <= call[t].ord THEN Finish(t, Refused)
           ELSE bpc' = [bpc EXCEPT ![t].at = "claim"]
        /\ UNCHANGED <<table, entries, used, call>>

\* count.fetch_add, cursor.fetch_add and the private writes of the entry; an
\* id whose bytes do not fit is spent all the same.  A put looks again from
\* its home slot, an intern goes on from where its probe stopped.
Claim(t) ==
    /\ bpc[t].at = "claim"
    /\ IF used.count >= MaxEntries
       THEN /\ used' = [used EXCEPT !.count = @ + 1]
            /\ Finish(t, Full) /\ UNCHANGED entries
       ELSE /\ used' = [count |-> used.count + 1, bytes |-> used.bytes + length[call[t].text]]
            /\ IF used'.bytes > MaxBytes
               THEN Finish(t, Full) /\ entries' = Append(entries, [text |-> "", ord |-> 0])
               ELSE /\ entries' = Append(entries, call[t])
                    /\ bpc' = [bpc EXCEPT ![t].at = "look", ![t].id = used.count + 1,
                                          ![t].i = IF Interns(t) THEN @ ELSE home[call[t].text]]
    /\ UNCHANGED <<table, call>>

\* the load of the insertion loop
Look(t) ==
    LET cur == table[bpc[t].i]
    IN  /\ bpc[t].at = "look"
        /\ IF cur # 0 /\ ~Matches(t, cur) THEN bpc' = [bpc EXCEPT ![t].i = Next1(@)]
           ELSE IF cur # 0 /\ Interns(t) THEN Finish(t, cur)
           ELSE IF cur # 0 /\ entries[cur].ord <= call[t].ord THEN Finish(t, Refused)
           ELSE bpc' = [bpc EXCEPT ![t].at = "cas", ![t].cur = cur]
        /\ UNCHANGED <<table, entries, used, call>>

\* slip: the slot is stored without comparing it to what was loaded
CasStore(t) ==
    /\ bpc[t].at = "cas"
    /\ table' = [table EXCEPT ![bpc[t].i] = bpc[t].id] /\ Finish(t, bpc[t].id)
    /\ UNCHANGED <<entries, used, call>>

\* compare_exchange(cur, mine): a lost race looks at the same slot again
Cas(t) ==
    /\ bpc[t].at = "cas"
    /\ IF table[bpc[t].i] = bpc[t].cur
       THEN table' = [table EXCEPT ![bpc[t].i] = bpc[t].id] /\ Finish(t, bpc[t].id)
       ELSE bpc' = [bpc EXCEPT ![t].at = "look"] /\ UNCHANGED table
    /\ UNCHANGED <<entries, used, call>>

\* the walk fbank_find and fbank_holds make, from the home slot to the first
\* match or hole; 0 when the text is not there
fbank_find(x) ==
    LET slot(k) == (home[x] + k) % (2 * MaxEntries)
        stops == {k \in 0 .. 2 * MaxEntries - 1 :
                    table[slot(k)] = 0 \/ entries[table[slot(k)]].text = x}
    IN  table[slot(Min(stops))]
fbank_holds(id) == fbank_find(entries[id].text) = id

FStep(t) == Probe(t) \/ Claim(t) \/ Look(t) \/ Cas(t)
FNext == \E t \in Putters : FStep(t)
FSpec == FInit /\ [][FNext]_bankvars

\* A bank promises the answer of a pass in ordinal order, whatever the threads
\* do: a put that has returned an id or -1 leaves its content held by an
\* entry whose ordinal is no higher, at most one entry holds a content, an id
\* handed out reads back as its text (until it is displaced it also holds it),
\* and interning gives two threads the same id exactly for the same text.
BankAnswers ==
    /\ \A t \in Putters : (bpc[t].at = "done" /\ bpc[t].res # Full) =>
        LET h == fbank_find(call[t].text)
        IN  /\ h # 0 /\ entries[h].text = call[t].text
            /\ entries[h].ord <= call[t].ord
            /\ Interns(t) => bpc[t].res = h
            /\ bpc[t].res # Refused =>
                /\ entries[bpc[t].res] = call[t]
                /\ fbank_holds(bpc[t].res) \/ entries[h].ord < call[t].ord
    /\ \A x \in Texts : Cardinality({i \in TableSlots : table[i] # 0 /\ entries[table[i]].text = x}) <= 1

-----------------------------------------------------------------------------
(***************************************************************************)
(* runtime/value.rs: the tag interner.  A constructor's name becomes a     *)
(* number that travels inside values between threads.  Readers load the    *)
(* published snapshot and never lock; a new name is added under LF_WRITE   *)
(* to a copy of the snapshot, which is then published.  A snapshot is      *)
(* never changed or freed, so a reader may keep an old one.                *)
(***************************************************************************)

CONSTANTS
    Threads, TagNames,
    MaxInterns,     \* calls of intern_tag
    Nobody          \* LF_WRITE is free

ASSUME TagsAssumption == Nobody \notin Threads

VARIABLES
    snapshots,  \* every snapshot ever built: the names, in order of their tags
    tagHead,    \* index of the published one
    lfLock,     \* LF_WRITE's holder
    work,       \* thread -> [at, name, snap] of its intern_tag call
    values,     \* ghost: tags handed out, [name, tag]; any thread may hold them
    shown,      \* ghost: [name, tag, text] of the last get_tag_name
    interns

yvars == <<snapshots, tagHead, lfLock, work, values, shown, interns>>

NoWork == [at |-> "idle"]
NoShow == [want |-> "", text |-> ""]

YInit ==
    /\ snapshots = <<<<>>>> /\ tagHead = 1 /\ lfLock = Nobody
    /\ work = [t \in Threads |-> NoWork] /\ values = {} /\ shown = NoShow /\ interns = 0

Knows(snap, n) == Contains(snapshots[snap], n)
TagOf(snap, n) == CHOOSE i \in DOMAIN snapshots[snap] : snapshots[snap][i] = n

Give(t, n, tag) ==
    /\ values' = values \union {[name |-> n, tag |-> tag]}
    /\ work' = [work EXCEPT ![t] = NoWork]

\* intern_tag: the snapshot as it is now; a hit needs no lock
InternStart(t, n) ==
    /\ work[t] = NoWork /\ interns < MaxInterns /\ interns' = interns + 1
    /\ IF Knows(tagHead, n)
       THEN Give(t, n, TagOf(tagHead, n))
       ELSE work' = [work EXCEPT ![t] = [at |-> "miss", name |-> n]] /\ UNCHANGED values
    /\ UNCHANGED <<snapshots, tagHead, lfLock, shown>>

InternLock(t) ==
    /\ work[t].at = "miss" /\ lfLock = Nobody /\ lfLock' = t
    /\ work' = [work EXCEPT ![t].at = "locked"]
    /\ UNCHANGED <<snapshots, tagHead, values, shown, interns>>

\* slip: the name that was missing before the lock is taken as missing still
InternBuildUnchecked(t) ==
    /\ work[t].at = "locked"
    /\ snapshots' = Append(snapshots, Append(snapshots[tagHead], work[t].name))
    /\ work' = [work EXCEPT ![t] = [at |-> "built", name |-> @.name, snap |-> Len(snapshots) + 1]]
    /\ UNCHANGED <<tagHead, lfLock, values, shown, interns>>

\* under the lock: look again, or copy the snapshot with the name appended
InternBuild(t) ==
    LET n == work[t].name
    IN  /\ work[t].at = "locked"
        /\ IF Knows(tagHead, n)
           THEN Give(t, n, TagOf(tagHead, n)) /\ lfLock' = Nobody /\ UNCHANGED snapshots
           ELSE /\ snapshots' = Append(snapshots, Append(snapshots[tagHead], n))
                /\ work' = [work EXCEPT ![t] = [at |-> "built", name |-> n, snap |-> Len(snapshots) + 1]]
                /\ UNCHANGED <<lfLock, values>>
        /\ UNCHANGED <<tagHead, shown, interns>>

\* the new snapshot is published and the lock released
InternPublish(t) ==
    /\ work[t].at = "built" /\ tagHead' = work[t].snap /\ lfLock' = Nobody
    /\ Give(t, work[t].name, Len(snapshots[work[t].snap]))
    /\ UNCHANGED <<snapshots, shown, interns>>

\* get_tag_name of a value that any thread received
get_tag_name(v) ==
    /\ shown' = [want |-> v.name,
                 text |-> IF v.tag <= Len(snapshots[tagHead]) THEN snapshots[tagHead][v.tag] ELSE "Unknown"]
    /\ UNCHANGED <<snapshots, tagHead, lfLock, work, values, interns>>

YNext ==
    \/ \E t \in Threads :
        \/ \E n \in TagNames : InternStart(t, n)
        \/ InternLock(t) \/ InternBuild(t) \/ InternPublish(t)
    \/ \E v \in values : get_tag_name(v)
YSpec == YInit /\ [][YNext]_yvars

\* A tag means one name for every thread and for ever: names never share a
\* tag or get a second one, and a value resolves to the name it was made
\* with, on whichever thread, from the moment its tag was handed out.
TagsAreGlobal ==
    /\ \A v, w \in values : v.name = w.name <=> v.tag = w.tag
    /\ shown.text = shown.want
    /\ \A v \in values : v.tag <= Len(snapshots[tagHead]) /\ snapshots[tagHead][v.tag] = v.name

-----------------------------------------------------------------------------
(***************************************************************************)
(* The three tables together: they live in one process and share no state. *)
(***************************************************************************)

ISpec == NSpec /\ FSpec /\ YSpec

\* An identity stands for one text and a text has one identity, for every
\* thread: a string's handle, a bank's id and a constructor's tag.
IdentitiesAreExact == HandlesAreExact /\ BankAnswers /\ TagsAreGlobal

-----------------------------------------------------------------------------
(***************************************************************************)
(* runtime/qhm.rs and hotmem.rs, two memory-only caches over BridgedCell.  *)
(* qhm: writers insert into a shard's pending map under its mutex and seal *)
(* it into an immutable segment; readers look through the published        *)
(* segments without a lock.  hotmem: one janitor thread overwrites a cell  *)
(* and readers learn how many writes they missed.  A BridgedCell is taken  *)
(* here as its published value and epoch (module BridgedCell shows that a  *)
(* reader can use them safely).                                            *)
(***************************************************************************)

CONSTANTS
    CacheWriters, CacheReaders, Hashes,
    CacheShards, shard_of,  \* the shard a hash lives in
    Cap, BlockSize,         \* per_shard_cap(), block_size()
    NoThread,
    MaxPuts, MaxHotWrites

\* Every hash lives in a shard, and nobody is no writer.
ASSUME CachesAssumption ==
    /\ shard_of \in [Hashes -> CacheShards] /\ Cap \in Nat
    /\ NoThread \notin CacheWriters

VARIABLES
    cache,              \* the cache this behaviour is about
    lock, unsealed,     \* LfWriter of each shard, behind its mutex
    segs, total,        \* the published SegSet, newest segment first
    headBlk, epoch,     \* epoch of the published set; LfIdx.epoch
    putter,             \* writer: [at, shard, hash, ep, rest]
    seen,               \* reader: the newest epoch it has met on each shard
    puts,
    arena, owner,       \* ARENA_SHARED's epoch, and the thread that minted it
    orphan,             \* stray writers hold a cell no reader observes
    last,               \* hotmem reader: LAST
    joined,             \* ghost: the epoch a reader started from
    missedSum, gotten   \* ghost: what it was told since then, in total

qhmvars == <<lock, unsealed, segs, total, headBlk, epoch, putter, seen, puts>>
hotvars == <<arena, owner, orphan, last, joined, missedSum, gotten>>
hcvars == <<cache, qhmvars, hotvars>>

PutterIdle == [at |-> "idle", shard |-> 0, ep |-> 0, rest |-> {}]

HInit ==
    /\ cache \in {"qhm", "hotmem"}
    /\ lock = [s \in CacheShards |-> NoThread]
    /\ unsealed = [s \in CacheShards |-> {}]
    /\ segs = [s \in CacheShards |-> <<>>] /\ total = [s \in CacheShards |-> 0]
    /\ headBlk = [s \in CacheShards |-> 0] /\ epoch = 0
    /\ putter = [w \in CacheWriters |-> PutterIdle]
    /\ seen = [r \in CacheReaders |-> [s \in CacheShards |-> 0]]
    /\ puts = 0
    /\ arena = 0 /\ owner = NoThread /\ orphan = {}
    /\ last = [r \in CacheReaders |-> 0] /\ joined = [r \in CacheReaders |-> 0]
    /\ missedSum = [r \in CacheReaders |-> 0] /\ gotten = [r \in CacheReaders |-> 0]
-----------------------------------------------------------------------------
(* qhm                                                                     *)

\* entries in the first i segments of a list
Sizes(list) ==
    LET f[i \in 0 .. Len(list)] == IF i = 0 THEN 0 ELSE f[i - 1] + Cardinality(list[i])
    IN  f

\* the oldest segments go while the shard is over its cap, never the newest
Fits(list, n) == Sizes(list)[n] <= Cap \/ n = 1
Evict(list) ==
    LET keep == CHOOSE n \in 1 .. Len(list) :
                    Fits(list, n) /\ \A m \in n + 1 .. Len(list) : ~Fits(list, m)
    IN  [segs |-> SubSeq(list, 1, keep), total |-> Sizes(list)[keep]]

\* lf_put: insert if absent from pending; a full block is sealed at once
Put(w, h) ==
    LET s == shard_of[h]
    IN  /\ cache = "qhm" /\ putter[w].at = "idle" /\ lock[s] = NoThread /\ puts < MaxPuts
        /\ puts' = puts + 1
        /\ IF h \in unsealed[s] THEN UNCHANGED <<lock, unsealed, putter>>
           ELSE /\ unsealed' = [unsealed EXCEPT ![s] = @ \union {h}]
                /\ IF Cardinality(unsealed'[s]) >= BlockSize
                   THEN /\ lock' = [lock EXCEPT ![s] = w]
                        /\ putter' = [putter EXCEPT ![w] = [PutterIdle EXCEPT !.at = "seal", !.shard = s]]
                   ELSE UNCHANGED <<lock, putter>>
        /\ UNCHANGED <<cache, segs, total, headBlk, epoch, seen, hotvars>>

\* lf_flush: every shard in turn, sealing what is pending
FlushStart(w) ==
    /\ putter[w].at = "idle" /\ \E s \in CacheShards : unsealed[s] # {}
    /\ putter' = [putter EXCEPT ![w] = [PutterIdle EXCEPT !.at = "flush", !.rest = CacheShards]]
    /\ UNCHANGED <<cache, lock, unsealed, segs, total, headBlk, epoch, seen, puts, hotvars>>

\* slip: the epoch is drawn before the shard is locked
FlushShardEarlyEpoch(w, s) ==
    /\ putter[w].at = "flush" /\ s \in putter[w].rest
    /\ \/ /\ putter[w].ep = 0 /\ unsealed[s] # {}
          /\ epoch' = epoch + 1
          /\ putter' = [putter EXCEPT ![w].ep = epoch + 1]
          /\ UNCHANGED lock
       \/ /\ putter[w].ep > 0 /\ lock[s] = NoThread
          /\ lock' = IF unsealed[s] = {} THEN lock ELSE [lock EXCEPT ![s] = w]
          /\ putter' = [putter EXCEPT ![w] = IF unsealed[s] = {} THEN PutterIdle
                                       ELSE [@ EXCEPT !.rest = {}, !.at = "publish", !.shard = s]]
          /\ UNCHANGED epoch
    /\ UNCHANGED <<cache, unsealed, segs, total, headBlk, seen, puts, hotvars>>

FlushShard(w, s) ==
    /\ putter[w].at = "flush" /\ s \in putter[w].rest /\ lock[s] = NoThread
    /\ IF unsealed[s] = {}
       THEN /\ putter' = [putter EXCEPT ![w].rest = @ \ {s},
                                  ![w].at = IF putter[w].rest = {s} THEN "idle" ELSE "flush"]
            /\ UNCHANGED lock
       ELSE /\ putter' = [putter EXCEPT ![w].rest = @ \ {s}, ![w].at = "seal", ![w].shard = s]
            /\ lock' = [lock EXCEPT ![s] = w]
    /\ UNCHANGED <<cache, unsealed, segs, total, headBlk, epoch, seen, puts, hotvars>>

\* lf_seal: the block's epoch is drawn from the counter all shards share
SealEpoch(w) ==
    /\ putter[w].at = "seal"
    /\ epoch' = epoch + 1
    /\ putter' = [putter EXCEPT ![w].at = "publish", ![w].ep = epoch + 1]
    /\ UNCHANGED <<cache, lock, unsealed, segs, total, headBlk, seen, puts, hotvars>>

\* lf_seal: pending becomes the newest segment; write_with_epoch publishes
SealPublish(w) ==
    LET s == putter[w].shard
        e == Evict(<<unsealed[s]>> \o segs[s])
    IN  /\ putter[w].at = "publish"
        /\ segs' = [segs EXCEPT ![s] = e.segs] /\ total' = [total EXCEPT ![s] = e.total]
        /\ unsealed' = [unsealed EXCEPT ![s] = {}]
        /\ headBlk' = [headBlk EXCEPT ![s] = putter[w].ep]
        /\ lock' = [lock EXCEPT ![s] = NoThread]
        /\ putter' = [putter EXCEPT ![w] = [PutterIdle EXCEPT !.rest = putter[w].rest,
                        !.at = IF putter[w].rest = {} THEN "idle" ELSE "flush"]]
        /\ UNCHANGED <<cache, epoch, seen, puts, hotvars>>

\* lf_lookup: pin the published set, walk it newest first
Hit(s, h) == \E i \in 1 .. Len(segs[s]) : h \in segs[s][i]

Lookup(r, s) ==
    /\ headBlk[s] # seen[r][s]
    /\ seen' = [seen EXCEPT ![r][s] = headBlk[s]]
    /\ UNCHANGED <<cache, lock, unsealed, segs, total, headBlk, epoch, putter, puts, hotvars>>
-----------------------------------------------------------------------------
(* hotmem                                                                  *)

\* hotmem_write: a batch of n; the first writer thread mints the shared
\* cell, a second one gets a cell of its own that nobody reads
HotmemWrite(w, n) ==
    /\ cache = "hotmem" /\ arena + n <= MaxHotWrites
    /\ IF owner \in {NoThread, w}
       THEN owner' = w /\ arena' = arena + n /\ UNCHANGED orphan
       ELSE orphan' = orphan \union {w} /\ UNCHANGED <<owner, arena>>
    /\ UNCHANGED <<cache, qhmvars, last, joined, missedSum, gotten>>

\* hotmem_read: the current value, and how many writes lie between it and
\* the caller's last_epoch; 0 stands for "I have read nothing yet", and such
\* a reader has missed nothing, however many writes came before.  The caller
\* passes the epoch of its last read or starts over with 0.
MissedSince(from) == IF from = 0 \/ arena <= from THEN 0 ELSE arena - (from + 1)

HotmemRead(r, from) ==
    /\ arena > 0 /\ from \in {0, last[r]}
    /\ last' = [last EXCEPT ![r] = arena]
    /\ joined' = [joined EXCEPT ![r] = IF from = 0 THEN arena ELSE @]
    /\ missedSum' = [missedSum EXCEPT ![r] = MissedSince(from) + (IF from = 0 THEN 0 ELSE @)]
    /\ gotten' = [gotten EXCEPT ![r] = IF from = 0 THEN 1 ELSE IF arena = from THEN @ ELSE @ + 1]
    /\ UNCHANGED <<cache, qhmvars, arena, owner, orphan>>

HNext ==
    \/ \E w \in CacheWriters :
        \/ FlushStart(w) \/ SealEpoch(w) \/ SealPublish(w)
        \/ \E h \in Hashes : Put(w, h)
        \/ \E s \in CacheShards : FlushShard(w, s)
        \/ \E n \in 1 .. 2 : HotmemWrite(w, n)
    \/ \E r \in CacheReaders :
        \/ HotmemRead(r, 0) \/ HotmemRead(r, last[r])
        \/ \E s \in CacheShards : Lookup(r, s)

HSpec == HInit /\ [][HNext]_hcvars
-----------------------------------------------------------------------------
\* What write_with_epoch needs ("strictly increasing"): the epochs met on a
\* shard never go back, although one counter serves all shards and sealing
\* threads interleave.
\* A shard's total is the size of its segments and stays within the cap
\* unless one segment alone exceeds it; what is published is never empty, and
\* a lookup finds all of the newest block.
\* A hotmem reader is told of every write since its first read: those it got
\* and those it missed add up to the epochs it has passed.  Of the writes
\* before its first read it is told nothing.
CachesAccount ==
    /\ \A s \in CacheShards :
        /\ total[s] = Sizes(segs[s])[Len(segs[s])]
        /\ total[s] <= Cap \/ Len(segs[s]) <= 1
        /\ headBlk[s] > 0 => segs[s] # <<>> /\ segs[s][1] # {} /\ \A h \in segs[s][1] : Hit(s, h)
        /\ \A r \in CacheReaders : seen[r][s] <= headBlk[s]
    /\ \A r \in CacheReaders :
        /\ joined[r] + gotten[r] + missedSum[r] = last[r] + (IF last[r] = 0 THEN 0 ELSE 1)
        /\ joined[r] <= last[r] /\ last[r] <= arena
=============================================================================
