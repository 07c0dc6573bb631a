----------------------------- MODULE MCServices -----------------------------
(***************************************************************************)
(* Model checking of what the runtime offers to one running program:       *)
(* acknowledgements and tasks (AckPath), sockets, terminals and            *)
(* recorded worlds (Peers), renderers (FrameStream), and loop state, local *)
(* maps and list values (HeldState).                                       *)
(* They share no state, so a behaviour chooses one of them at the start    *)
(* and the others stay in their initial state.                             *)
(*                                                                         *)
(* Two request threads, so that the worker signals one block while another *)
(* is registered, waited for and sealed; more tasks than joiners; as many  *)
(* workers as can race for one listener; a second job on a thread that has *)
(* run one; more local maps than slots, so that a slot is used again; one  *)
(* frame drawn while the next waits and the connection ends.               *)
(***************************************************************************)
EXTENDS AckPath, Peers

CONSTANTS Main, Helper  \* HeldState: the main thread and a task; its workers are Peers'

VARIABLES
    which,                                                  \* the model chosen
    sets, maps, vecs, curs, next, job, said, jobs,          \* HeldState: loops
    slots, free, vals, over, puts, made,                    \* HeldState: local maps
    bufs, lists,                                            \* HeldState: lists
    opens, submits, sink, last_seq, dead, simpc, events, polled, closing, reader,
    pipe, lines, cut, window, last, slot, slotDone, drawing, forward, rstate,
    acceptedFrames, received, drawn                         \* FrameStream

\* Texts with every character the trace escapes, one of them with an end that a
\* line reader takes for its line's.
Texts == {<<"\n", "\r">>, <<"\\", "n">>}

\* Inputs of a job: keys that repeat, and an element u32v_push refuses.
Records == {<<1, 2, 1>>, <<1, 1, 2>>, <<2, 1, 9>>}
JobInputs == {<<a, b>> : a, b \in Records} \union {<<a, b, a>> : a, b \in Records}

H == INSTANCE HeldState WITH
        Inputs <- JobInputs, KeyOrder <- <<2, 3, 1>>, U32Max <- 8, MaxJobs <- 2,
        Threads <- {Main, Helper}, MaxHandles <- 3, MaxMaps <- 2, MaxPuts <- 1, GenLimit <- 4,
        Elems <- {1, 2}, MaxLen <- 2, MaxLists <- 3, MaxBufs <- 4
G == INSTANCE FrameStream WITH Overlap <- FALSE, MaxOpens <- 2, MaxSeq <- 2, MaxSubmits <- 2

lvars == <<sets, maps, vecs, curs, next, job, said, jobs>>
hvars == <<slots, free, vals, over, puts, made>>
qvars == <<bufs, lists>>
gvars == <<opens, submits, sink, last_seq, dead, simpc, events, polled, closing, reader,
           pipe, lines, cut, window, last, slot, slotDone, drawing, forward, rstate,
           acceptedFrames, received, drawn>>
all == <<which, vars, tvars, svars, pvars, worldvars, lvars, hvars, qvars, gvars>>

MInit ==
    /\ which \in {"ack", "tasks", "sockets", "terminals", "world", "loops", "maps", "lists",
                "frames"}
    /\ Init /\ TInit /\ SInit /\ PInit /\ WInit /\ H!LInit /\ H!HInit /\ H!QInit
    /\ G!GInit
    /\ which # "sockets" => ~shared
    /\ which # "world" => \A p \in Paths : fs[p] = <<"\n", "\r">>

\* A step of the model chosen; the others stand still.
MNext ==
    \/ /\ which = "ack" /\ Next
       /\ UNCHANGED <<which, tvars, svars, pvars, worldvars, lvars, hvars, qvars, gvars>>
    \/ /\ which = "tasks" /\ TNext
       /\ UNCHANGED <<which, vars, svars, pvars, worldvars, lvars, hvars, qvars, gvars>>
    \/ /\ which = "sockets" /\ SNext
       /\ UNCHANGED <<which, vars, tvars, pvars, worldvars, lvars, hvars, qvars, gvars>>
    \/ /\ which = "terminals" /\ PNext
       /\ UNCHANGED <<which, vars, tvars, svars, worldvars, lvars, hvars, qvars, gvars>>
    \/ /\ which = "world" /\ WNext
       /\ UNCHANGED <<which, vars, tvars, svars, pvars, lvars, hvars, qvars, gvars>>
    \/ /\ which = "loops" /\ H!LNext
       /\ UNCHANGED <<which, vars, tvars, svars, pvars, worldvars, hvars, qvars, gvars>>
    \/ /\ which = "maps" /\ H!HNext
       /\ UNCHANGED <<which, vars, tvars, svars, pvars, worldvars, lvars, qvars, gvars>>
    \/ /\ which = "lists" /\ H!QNext
       /\ UNCHANGED <<which, vars, tvars, svars, pvars, worldvars, lvars, hvars, gvars>>
    \/ /\ which = "frames" /\ G!GNext
       /\ UNCHANGED <<which, vars, tvars, svars, pvars, worldvars, lvars, hvars, qvars>>

\* AckPath's fairness asks for nothing in its initial state, where it stays in
\* the behaviours of the others.
MSpec == MInit /\ [][MNext]_all /\ Fairness

\* Peers and FrameStream: another process is followed faithfully.  A child
\* has one exit status, whoever asks and whenever; a renderer draws the newest
\* frames in order, and its end is reported exactly when it is not our doing.
PeersAreFollowed == StatusIsFinal /\ G!FramesAreFollowed

\* HeldState: nothing of one job, of one map or of
\* one list value shows in another.
StateIsNotShared == H!JobsRepeat /\ H!HandlesKeepTheirMap /\ H!ListsAreValues
=============================================================================
