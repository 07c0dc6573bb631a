----------------------------- MODULE FifoQueue -----------------------------
(***************************************************************************)
(* What runtime/mpsc_intrusive.rs promises its callers: one first-in       *)
(* first-out queue.  Send is the instant a value takes its place in the    *)
(* order, Receive hands the oldest value to the single consumer, and       *)
(* ReportEmpty is the consumer being told that there is nothing to take,   *)
(* which it may be told only when that is so.                              *)
(***************************************************************************)
EXTENDS Sequences

CONSTANTS
    Values,     \* what producers push
    Empty       \* the answer "nothing to take"

VARIABLES
    queue,      \* values sent and not yet received, oldest first
    answer      \* the last definite answer given to the consumer

Init == queue = << >> /\ answer = Empty

Send == \E v \in Values : queue' = Append(queue, v) /\ UNCHANGED answer

Receive ==
    /\ queue # << >>
    /\ answer' = Head(queue)
    /\ queue' = Tail(queue)

ReportEmpty == queue = << >> /\ answer' = Empty /\ UNCHANGED queue

Next == Send \/ Receive \/ ReportEmpty

Spec == Init /\ [][Next]_<<queue, answer>>
=============================================================================
