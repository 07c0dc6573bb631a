---------------------------- MODULE BridgedCell ----------------------------
(***************************************************************************)
(* runtime/non_blocking_memory.rs, the bridge layer: one writer replaces a *)
(* heap block under an atomic head, readers hold zero-copy references into *)
(* blocks, and the writer frees a superseded block once no published floor *)
(* can cover it.  hotmem.rs and qhm.rs are its users.                      *)
(*                                                                         *)
(* One action per access to shared memory; the SeqCst fences of read_ref,  *)
(* write_lazy and reclaim make program order the order of the pin store    *)
(* and head load against the head store and floor loads.  A block is named *)
(* by its epoch, which is unique in a cell.  T is larger than four bytes,  *)
(* as it is for every cell in the runtime, so values are never inline.     *)
(***************************************************************************)
EXTENDS Integers, FiniteSets

CONSTANTS
    Readers,    \* threads that read through a ReaderHandle
    RefIds,     \* live ReadRefs one thread may hold
    MaxReaders, \* MAX_READERS: floor slots of the registry
    HoldDepth,  \* HOLD_DEPTH: epochs a HoldStack records
    Watermark,  \* WATERMARK: retired blocks before a gated sweep
    BackoffCap, \* SWEEP_BACKOFF_CAP
    MaxEpoch    \* bound: writes

ASSUME BridgedAssumption ==
    /\ MaxReaders \in Nat /\ HoldDepth \in Nat /\ MaxEpoch \in Nat
    /\ Watermark \in Nat \ {0} /\ BackoffCap \in Nat

Slots == 0 .. MaxReaders - 1
Epochs == 1 .. MaxEpoch
Idle == MaxEpoch + 1        \* u64::MAX in a floor slot
NoSlot == MaxReaders        \* the thread has no ReaderHandle

VARIABLES
    head,       \* Cell.head: the epoch of the current block, 0 before any
    heap,       \* blocks allocated and not freed
    behind,     \* blocks only the prev chain of an append reaches
    retired, skip, backoff,     \* Writer.retired, sweep_skip, sweep_backoff
    wpc, old, fm, wi,   \* writer: position, superseded block, floor_min's
                        \* running minimum and next slot
    slot, next, anyEver,        \* ReaderRegistry
    rpc, mine, ptr,     \* readers: position, slot index, the head loaded
    refs, stacked, ofloor       \* live ReadRefs (epoch, or 0), those with a
                                \* HoldStack entry, overflow_floor

cell == <<head, heap, behind>>
wvars == <<retired, skip, backoff, wpc, old, fm, wi>>
reg == <<slot, next, anyEver>>
rvars == <<rpc, mine, ptr, refs, stacked, ofloor>>
vars == <<cell, wvars, reg, rvars>>

-----------------------------------------------------------------------------
\* BridgedCell::new, ReaderRegistry::new, HoldStack::new
Init ==
    /\ head = 0 /\ heap = {} /\ behind = {}
    /\ retired = {} /\ skip = 0 /\ backoff = 0
    /\ wpc = "idle" /\ old = 0 /\ fm = Idle /\ wi = 0
    /\ slot = [s \in Slots |-> Idle] /\ next = 0 /\ anyEver = FALSE
    /\ rpc = [r \in Readers |-> "none"]
    /\ mine = [r \in Readers |-> NoSlot]
    /\ ptr = [r \in Readers |-> 0]
    /\ refs = [r \in Readers |-> [k \in RefIds |-> 0]]
    /\ stacked = [r \in Readers |-> {}]
    /\ ofloor = [r \in Readers |-> Idle]

-----------------------------------------------------------------------------
(* The writer *)
\* Block::allocate and the Release store of the head, at epoch + 1 or at an
\* epoch the caller supplies, as the counter all shards of qhm share.
Publish(e) ==
    /\ wpc = "idle"
    /\ e > head
    /\ head' = e
    /\ heap' = heap \union {e}

\* Writer::write and write_with_epoch: the block it replaces is retired.
Write ==
    /\ \E e \in Epochs : Publish(e)
    /\ retired' = retired \union ({head} \ {0})
    /\ UNCHANGED <<behind, skip, backoff, wpc, old, fm, wi, reg, rvars>>

\* Writer::append: the block it replaces stays reachable, and is not retired.
Extend ==
    /\ head < MaxEpoch /\ Publish(head + 1)
    /\ behind' = behind \union ({head} \ {0})
    /\ UNCHANGED <<wvars, reg, rvars>>

\* write_lazy up to its fence; the first write has no block to dispose of.
WriteLazy ==
    /\ head < MaxEpoch /\ Publish(head + 1)
    /\ old' = head
    /\ wpc' = IF head = 0 THEN "idle" ELSE "levelB"
    /\ UNCHANGED <<behind, retired, skip, backoff, fm, wi, reg, rvars>>

\* if !registry.has_any_reader(): free at once, else scan the floors
LevelB ==
    /\ wpc = "levelB"
    /\ IF ~anyEver
         THEN heap' = heap \ {old} /\ old' = 0 /\ wpc' = "idle"
         ELSE wpc' = "levelA" /\ UNCHANGED <<heap, old>>
    /\ UNCHANGED <<head, behind, retired, skip, backoff, fm, wi, reg, rvars>>

\* floor_min: one Acquire load per slot, in order
ScanSlot ==
    /\ wpc \in {"levelA", "sweep", "gated"}
    /\ wi < MaxReaders
    /\ fm' = IF slot[wi] < fm THEN slot[wi] ELSE fm
    /\ wi' = wi + 1
    /\ UNCHANGED <<cell, retired, skip, backoff, wpc, old, reg, rvars>>

\* if fm > old_epoch: free the old block, else retire it
LevelA ==
    /\ wpc = "levelA" /\ wi = MaxReaders
    /\ IF fm > old THEN heap' = heap \ {old} /\ UNCHANGED retired
                   ELSE retired' = retired \union {old} /\ UNCHANGED heap
    /\ old' = 0 /\ wpc' = "idle" /\ fm' = Idle /\ wi' = 0
    /\ UNCHANGED <<head, behind, skip, backoff, reg, rvars>>

\* Writer::reclaim, up to its fence
Reclaim ==
    /\ wpc = "idle" /\ retired # {}
    /\ wpc' = "sweep"
    /\ UNCHANGED <<cell, retired, skip, backoff, old, fm, wi, reg, rvars>>

\* reclaim_if_watermark: nothing below the watermark, a skipped call while it
\* backs off, else a sweep
ReclaimIfWatermark ==
    /\ wpc = "idle" /\ Cardinality(retired) >= Watermark
    /\ IF skip > 0
         THEN skip' = skip - 1 /\ UNCHANGED wpc
         ELSE wpc' = "gated" /\ UNCHANGED skip
    /\ UNCHANGED <<cell, retired, backoff, old, fm, wi, reg, rvars>>

Freeable == {e \in retired : e < fm}

\* the loop of reclaim over the retired list, and for a gated sweep the
\* exponential back-off
Sweep ==
    /\ wpc \in {"sweep", "gated"} /\ wi = MaxReaders
    /\ heap' = heap \ Freeable
    /\ retired' = retired \ Freeable
    /\ IF wpc = "sweep" THEN UNCHANGED <<skip, backoff>>
       ELSE IF Freeable = {}
         THEN LET b == 2 * backoff + 1
              IN  /\ backoff' = IF b < BackoffCap THEN b ELSE BackoffCap
                  /\ skip' = backoff'
         ELSE backoff' = 0 /\ UNCHANGED skip
    /\ wpc' = "idle" /\ fm' = Idle /\ wi' = 0
    /\ UNCHANGED <<head, behind, old, reg, rvars>>

-----------------------------------------------------------------------------
(* Readers *)
\* ReaderRegistry::acquire, which panics when the slots are used up: a slot is
\* never given out twice.
Acquire(r) ==
    /\ rpc[r] = "none"
    /\ IF next < MaxReaders
         THEN /\ mine' = [mine EXCEPT ![r] = next]
              /\ next' = next + 1 /\ anyEver' = TRUE
              /\ rpc' = [rpc EXCEPT ![r] = "idle"]
         ELSE /\ rpc' = [rpc EXCEPT ![r] = "panicked"]
              /\ UNCHANGED <<mine, next, anyEver>>
    /\ UNCHANGED <<cell, wvars, slot, ptr, refs, stacked, ofloor>>

\* Slip: the pin is stored only once the block is known.
PrePublishLate(r) ==
    /\ rpc[r] = "idle"
    /\ \E k \in RefIds : refs[r][k] = 0
    /\ rpc' = [rpc EXCEPT ![r] = "pinned"]
    /\ UNCHANGED <<cell, wvars, reg, mine, ptr, refs, stacked, ofloor>>

\* read_ref: slot.store(1), which pins every block
PrePublish(r) ==
    /\ rpc[r] = "idle"
    /\ \E k \in RefIds : refs[r][k] = 0
    /\ slot' = [slot EXCEPT ![mine[r]] = 1]
    /\ rpc' = [rpc EXCEPT ![r] = "pinned"]
    /\ UNCHANGED <<cell, wvars, next, anyEver, mine, ptr, refs, stacked, ofloor>>

\* let bits = head.load()
LoadHead(r) ==
    /\ rpc[r] = "pinned"
    /\ ptr' = [ptr EXCEPT ![r] = head]
    /\ rpc' = [rpc EXCEPT ![r] = IF head = 0 THEN "empty" ELSE "loaded"]
    /\ UNCHANGED <<cell, wvars, reg, mine, refs, stacked, ofloor>>

\* bits == 0: the slot is given back, and read_ref answers None
ReadEmpty(r) ==
    /\ rpc[r] = "empty"
    /\ slot' = [slot EXCEPT ![mine[r]] = Idle]
    /\ rpc' = [rpc EXCEPT ![r] = "idle"]
    /\ UNCHANGED <<cell, wvars, next, anyEver, mine, ptr, refs, stacked, ofloor>>

\* HoldStack::floor, of the stacked epochs and the overflow floor
IsFloor(f, rf, st, ov) ==
    LET over == \E k \in RefIds \ st : rf[k] # 0
        held == {rf[k] : k \in st} \union (IF over THEN {ov} ELSE {Idle})
    IN  f \in held /\ \A h \in held : f <= h

\* HoldStack::push: an entry while there is room, else the overflow floor
Push(r, k) ==
    /\ refs' = [refs EXCEPT ![r][k] = ptr[r]]
    /\ IF Cardinality(stacked[r]) < HoldDepth
         THEN stacked' = [stacked EXCEPT ![r] = @ \union {k}] /\ UNCHANGED ofloor
         ELSE /\ ofloor' = [ofloor EXCEPT ![r] = IF ptr[r] < @ THEN ptr[r] ELSE @]
              /\ UNCHANGED stacked

\* the rest of read_ref: the epoch is read from the block, pushed, and the
\* floor tightened
Tighten(r) ==
    /\ rpc[r] = "loaded"
    /\ \E k \in RefIds : refs[r][k] = 0 /\ Push(r, k)
    /\ \E f \in Epochs \union {Idle} :
        /\ IsFloor(f, refs'[r], stacked'[r], ofloor'[r])
        /\ slot' = [slot EXCEPT ![mine[r]] = f]
    /\ ptr' = [ptr EXCEPT ![r] = 0]
    /\ rpc' = [rpc EXCEPT ![r] = "idle"]
    /\ UNCHANGED <<cell, wvars, next, anyEver, mine>>

\* HoldStack::remove: the entry goes, or the overflow count falls, and at
\* zero the overflow floor is reset
RemoveRef(r, k) ==
    /\ refs' = [refs EXCEPT ![r][k] = 0]
    /\ stacked' = [stacked EXCEPT ![r] = @ \ {k}]
    /\ ofloor' = [ofloor EXCEPT ![r] =
                    IF k \notin stacked[r] /\ \A j \in RefIds \ stacked[r] : refs'[r][j] = 0
                      THEN Idle ELSE @]

\* ReadRef::drop
DropRef(r) ==
    /\ rpc[r] = "idle"
    /\ \E k \in RefIds : refs[r][k] # 0 /\ RemoveRef(r, k)
    /\ \E f \in Epochs \union {Idle} :
        /\ IsFloor(f, refs'[r], stacked'[r], ofloor'[r])
        /\ slot' = [slot EXCEPT ![mine[r]] = f]
    /\ UNCHANGED <<cell, wvars, next, anyEver, rpc, mine, ptr>>

\* ReaderHandle::drop when the thread ends; the handle outlives its ReadRefs.
DropHandle(r) ==
    /\ rpc[r] = "idle" /\ \A k \in RefIds : refs[r][k] = 0
    /\ slot' = [slot EXCEPT ![mine[r]] = Idle]
    /\ mine' = [mine EXCEPT ![r] = NoSlot]
    /\ rpc' = [rpc EXCEPT ![r] = "none"]
    /\ UNCHANGED <<cell, wvars, next, anyEver, ptr, refs, stacked, ofloor>>

-----------------------------------------------------------------------------
Writer == \/ Write \/ Extend \/ WriteLazy \/ LevelB \/ ScanSlot \/ LevelA
          \/ Reclaim \/ ReclaimIfWatermark \/ Sweep

Reader(r) == \/ Acquire(r) \/ PrePublish(r) \/ LoadHead(r) \/ ReadEmpty(r)
             \/ Tighten(r) \/ DropRef(r) \/ DropHandle(r)

Next == Writer \/ \E r \in Readers : Reader(r)

Spec == Init /\ [][Next]_vars

-----------------------------------------------------------------------------
(* Properties *)
TypeOK ==
    /\ head \in 0 .. MaxEpoch
    /\ heap \subseteq Epochs /\ behind \subseteq Epochs /\ retired \subseteq Epochs
    /\ skip \in 0 .. BackoffCap /\ backoff \in 0 .. BackoffCap
    /\ wpc \in {"idle", "levelB", "levelA", "sweep", "gated"}
    /\ old \in 0 .. MaxEpoch /\ fm \in 1 .. Idle /\ wi \in 0 .. MaxReaders
    /\ slot \in [Slots -> 1 .. Idle] /\ next \in 0 .. MaxReaders
    /\ anyEver \in BOOLEAN
    /\ rpc \in [Readers -> {"none", "idle", "pinned", "loaded", "empty", "panicked"}]
    /\ mine \in [Readers -> Slots \union {NoSlot}]
    /\ ptr \in [Readers -> 0 .. MaxEpoch]
    /\ refs \in [Readers -> [RefIds -> 0 .. MaxEpoch]]
    /\ stacked \in [Readers -> SUBSET RefIds]
    /\ ofloor \in [Readers -> 1 .. Idle]

Held(r) == ({refs[r][k] : k \in RefIds} \union {ptr[r]}) \ {0}

\* The promise of the floor protocol ("freeing too early is not [acceptable]"):
\* a block that some reader has loaded from head, or holds a ReadRef into, is
\* never freed, whatever the writer does meanwhile.
NoUseAfterFree == \A r \in Readers : Held(r) \subseteq heap

\* A floor slot that says idle belongs to nobody who holds a reference, a
\* thread that holds one publishes a floor no higher than the oldest, and a
\* slot whose thread holds nothing, or is gone, pins nothing: HoldStack's
\* overflow bookkeeping and the drops of ReadRef and ReaderHandle together.
FloorIsHonest ==
    /\ \A r \in Readers : rpc[r] = "idle" =>
        /\ \A e \in Held(r) : slot[mine[r]] <= e
        /\ Held(r) = {} => slot[mine[r]] = Idle
    /\ \A s \in Slots : slot[s] # Idle => \E r \in Readers : mine[r] = s

\* Every live block is in one place: it is the head, it is retired, it is
\* what write_lazy is disposing of, or an append keeps it in its chain.  So
\* none is freed twice, and none is lost but those behind an append.
BlocksAccounted ==
    LET current == {head} \ {0}
        inhand == {old} \ {0}
    IN  /\ heap = current \union retired \union behind \union
                    (IF wpc \in {"levelA", "levelB"} THEN inhand ELSE {})
        /\ retired \intersect (current \union behind) = {}
        /\ current \intersect behind = {}
        /\ wpc \in {"levelA", "levelB"} => inhand \intersect (retired \union current) = {}

\* The bridge layer as a whole: no reader ever holds freed memory, floors tell
\* the truth, and no block is lost or freed twice.
BlocksAreSafe == TypeOK /\ NoUseAfterFree /\ FloorIsHonest /\ BlocksAccounted
=============================================================================
