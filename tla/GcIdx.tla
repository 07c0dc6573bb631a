------------------------------- MODULE GcIdx -------------------------------
(***************************************************************************)
(* runtime/gcidx.rs: the resident cache of verb-index artifacts.  Request  *)
(* threads look an address up in a whole-map copy-on-write BridgedCell and *)
(* populate it on a miss.  They read with BridgedCell::read, which pins    *)
(* nothing, and no ReaderHandle is ever acquired, so write_lazy always     *)
(* frees the superseded map at once.                                       *)
(***************************************************************************)
EXTENDS BridgedCell, Sequences

CONSTANTS
    Threads,    \* request threads in gcidx_get
    Addrs,      \* artifact addresses
    Cap,        \* AXVERITY_GCIDX_CAP
    NoThread    \* the writer mutex is free

VARIABLES
    maps,       \* what each published block holds: resident addresses, FIFO
    lock,       \* Registry.writer, a Mutex
    tpc, want, view     \* threads: position, address, the block being cloned

gvars == <<maps, lock, tpc, want, view>>

Resident(m) == {m[i] : i \in 1 .. Len(m)}

\* insert, and evict the oldest while the map is over its cap
Insert(m, a) ==
    LET n == Append(m, a)
    IN  IF Len(n) > Cap THEN SubSeq(n, Len(n) - Cap + 1, Len(n)) ELSE n

GInit ==
    /\ Init
    /\ maps = [e \in 0 .. MaxEpoch |-> <<>>]
    /\ lock = NoThread
    /\ tpc = [t \in Threads |-> "idle"]
    /\ want \in [Threads -> Addrs]
    /\ view = [t \in Threads |-> 0]

\* get_cached: the head load of Cell::read
GetLoad(t, a) ==
    /\ tpc[t] = "idle"
    /\ want' = [want EXCEPT ![t] = a]
    /\ view' = [view EXCEPT ![t] = head]
    /\ tpc' = [tpc EXCEPT ![t] = IF head = 0 THEN "fetch" ELSE "clone"]
    /\ UNCHANGED <<vars, maps, lock>>

\* get_cached: block.value.clone() takes the Arc out of the block; a hit is
\* answered from the map it refers to
GetClone(t) ==
    /\ tpc[t] = "clone"
    /\ tpc' = [tpc EXCEPT ![t] =
                IF want[t] \in Resident(maps[view[t]]) THEN "idle" ELSE "fetch"]
    /\ UNCHANGED <<vars, maps, lock, want, view>>

\* contentidx_get, then pg_bytes_get: absent, or fetched and to be cached
Fetch(t) ==
    /\ tpc[t] = "fetch"
    /\ \E p \in {"idle", "lock"} : tpc' = [tpc EXCEPT ![t] = p]
    /\ UNCHANGED <<vars, maps, lock, want, view>>

Lock(t) ==
    /\ tpc[t] = "lock" /\ lock = NoThread
    /\ lock' = t
    /\ tpc' = [tpc EXCEPT ![t] = "put"]
    /\ UNCHANGED <<vars, maps, want, view>>

\* put_cached: nothing to do when another miss was faster
PutRaced(t) ==
    /\ tpc[t] = "put" /\ want[t] \in Resident(maps[head])
    /\ lock' = NoThread
    /\ tpc' = [tpc EXCEPT ![t] = "idle"]
    /\ UNCHANGED <<vars, maps, want, view>>

\* put_cached: the copied map, published by write_lazy
PutWrite(t) ==
    /\ tpc[t] = "put" /\ want[t] \notin Resident(maps[head])
    /\ WriteLazy
    /\ maps' = [maps EXCEPT ![head'] = Insert(maps[head], want[t])]
    /\ tpc' = [tpc EXCEPT ![t] = "free"]
    /\ UNCHANGED <<lock, want, view>>

\* write_lazy's Level B frees the old map; the guard is dropped on return
PutFree(t) ==
    /\ tpc[t] = "free"
    /\ IF wpc = "levelB" THEN LevelB ELSE UNCHANGED vars
    /\ lock' = NoThread
    /\ tpc' = [tpc EXCEPT ![t] = "idle"]
    /\ UNCHANGED <<maps, want, view>>

GNext == \E t \in Threads :
    \/ \E a \in Addrs : GetLoad(t, a)
    \/ GetClone(t) \/ Fetch(t) \/ Lock(t) \/ PutRaced(t) \/ PutWrite(t) \/ PutFree(t)

GSpec == GInit /\ [][GNext]_<<vars, gvars>>

\* What write_lazy's Level B relies on ("no ReaderHandle has ever existed ->
\* no ReadRef has ever existed -> no pointer to old_ptr exists outside us"):
\* a block that get_cached is cloning out of has not been freed.
CloneReadsLiveBlock == \A t \in Threads : tpc[t] = "clone" => view[t] \in heap
=============================================================================
