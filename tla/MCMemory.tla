------------------------------ MODULE MCMemory ------------------------------
(***************************************************************************)
(* Model checking of the structures threads share without a lock around    *)
(* them: bridged cells (BridgedCell), sequenced and adaptive cells, the     *)
(* queue and buffers (SingleWriter), the interner, the frozen bank, the    *)
(* constructor tags and the caches built on cells (Interners) and the      *)
(* inboxes of a unified wait (UnifiedWait).  They share no state, so a     *)
(* behaviour chooses one of them at the start and the others stay in their *)
(* initial state.                                                          *)
(*                                                                         *)
(* A hold stack of one entry so that a second reference overflows; as many *)
(* registry slots as threads, so that replaced threads run out of them;    *)
(* counters narrow enough to wrap; shards and banks small enough to fill;  *)
(* texts that collide; routes that a second context takes over.            *)
(***************************************************************************)
EXTENDS BridgedCell, SingleWriter, UnifiedWait, Interners, TLC

VARIABLE which     \* the model chosen

\* Two of three hashes in one shard.
ShardsOfThree == <<1, 1, 2>>

\* Four of five strings in a shard of three, two texts with one home slot.
OneShardFills == [x \in Strings |-> IF x = "e" THEN 1 ELSE 0]
OneHome == [x \in Texts |-> 3]
Lengths == [x \in Texts |-> IF x = "x" THEN 1 ELSE 2]

all == <<which, vars, cvars, bvars, hcvars, nvars, bankvars, uvars, yvars>>

MInit ==
    /\ which \in {"bridged", "seq", "buffers", "caches", "interner", "bank", "uwait", "tags"}
    /\ Init /\ CInit /\ BInit /\ HInit /\ NInit /\ FInit /\ UInit /\ YInit
    /\ which # "seq" => kind = "seq"
    /\ which # "buffers" => buffer = "spsc"
    /\ which # "caches" => cache = "qhm"
    /\ which # "bank" => \A t \in Putters : call[t] = [text |-> "x", ord |-> 0]

\* A step of the model chosen; the others stand still.
MNext ==
    \/ /\ which = "bridged" /\ Next
       /\ UNCHANGED <<which, cvars, bvars, hcvars, nvars, bankvars, uvars, yvars>>
    \/ /\ which = "seq" /\ CNext
       /\ UNCHANGED <<which, vars, bvars, hcvars, nvars, bankvars, uvars, yvars>>
    \/ /\ which = "buffers" /\ BNext
       /\ UNCHANGED <<which, vars, cvars, hcvars, nvars, bankvars, uvars, yvars>>
    \/ /\ which = "caches" /\ HNext
       /\ UNCHANGED <<which, vars, cvars, bvars, nvars, bankvars, uvars, yvars>>
    \/ /\ which = "interner" /\ NNext
       /\ UNCHANGED <<which, vars, cvars, bvars, hcvars, bankvars, uvars, yvars>>
    \/ /\ which = "bank" /\ FNext
       /\ UNCHANGED <<which, vars, cvars, bvars, hcvars, nvars, uvars, yvars>>
    \/ /\ which = "uwait" /\ UNext
       /\ UNCHANGED <<which, vars, cvars, bvars, hcvars, nvars, bankvars, yvars>>
    \/ /\ which = "tags" /\ YNext
       /\ UNCHANGED <<which, vars, cvars, bvars, hcvars, nvars, bankvars, uvars>>

MSpec == MInit /\ [][MNext]_all


\* Readers are alike, and so are the references of a thread.
Symmetry == Permutations(Readers) \union Permutations(RefIds)
=============================================================================
