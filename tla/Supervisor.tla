----------------------------- MODULE Supervisor -----------------------------
(***************************************************************************)
(* The main program the build command generates (main.rs): either one root *)
(* called once, or one supervised thread per named entry, whose body is    *)
(* re-run in the same thread after a panic, up to a budget, and a join     *)
(* loop that turns the verdicts into an exit code.  The fault state is     *)
(* the thread-local of runtime/fault.rs, which no restart clears.          *)
(***************************************************************************)
EXTENDS Integers

CONSTANTS
  Entries,       \* how many entries the multi-entry driver runs
  Budget,        \* AXVERITY_ENTRY_RESTART_BUDGET
  Modes          \* the shims generated: subset of {"single", "multi"}

\* The budget is a u32, and a driver has an entry to run.
ASSUME SupervisorAssumption == Entries \in Nat \ {0} /\ Budget \in Nat /\ Modes \subseteq {"single", "multi"}

VARIABLES
  shim,          \* the generated main: single root or multi-entry
  thread,        \* each entry's thread: running, backoff or over
  entryFault,    \* FAULTED: has this thread met a fault
  restarts,      \* the supervisor's counter
  verdict,       \* what the thread returned, once over
  sink,          \* the verdict cell: has the entry body completed
  joined,        \* the join loop's position
  flags,         \* bad, defect, unknown, err
  code,          \* the exit code, -1 while running
  runsOf         \* history: times each entry's body was started

uvars == <<shim, thread, entryFault, restarts, verdict, sink, joined, flags, code, runsOf>>

Ids == 1..Entries
Live(e) == e \in 1..(IF shim = "single" THEN 1 ELSE Entries)
FlagNames == {"bad", "defect", "unknown", "err"}
NoFlags == [f \in FlagNames |-> FALSE]
Over(e, v) == thread' = [thread EXCEPT ![e] = "over"] /\ verdict' = [verdict EXCEPT ![e] = v]

\* fault::guard_run: a builtin faults; the program goes on without its effects.
Fault(e) ==
  /\ code = -1 /\ thread[e] = "running" /\ ~entryFault[e]
  /\ entryFault' = [entryFault EXCEPT ![e] = TRUE]
  /\ UNCHANGED <<shim, thread, restarts, verdict, sink, joined, flags, code, runsOf>>

\* The body returns.  It can return an Unknown only after a fault, but after a
\* fault it may still return anything: the Unknown may have been discarded.
Return(e) ==
  /\ code = -1 /\ thread[e] = "running"
  /\ \E v \in {"unit", "value", "err"} \cup (IF entryFault[e] THEN {"unknown"} ELSE {}) : Over(e, v)
  /\ sink' = [sink EXCEPT ![e] = TRUE]
  /\ UNCHANGED <<shim, entryFault, restarts, joined, flags, code, runsOf>>

\* A pure builtin panicked: never re-run.
Defect(e) ==
  /\ code = -1 /\ thread[e] = "running"
  /\ Over(e, "defect")
  /\ UNCHANGED <<shim, entryFault, restarts, sink, joined, flags, code, runsOf>>

\* Any other panic: re-run after a back-off while the budget lasts.  A single
\* root has no supervisor and its panic goes on unwinding.
PanicStaysDown(e) == restarts[e] + 1 > Budget
Panic(e) ==
  /\ code = -1 /\ thread[e] = "running"
  /\ IF shim = "single" THEN Over(e, "panic") /\ UNCHANGED restarts
     ELSE /\ restarts' = [restarts EXCEPT ![e] = @ + 1]
          /\ IF PanicStaysDown(e) THEN Over(e, "panic")
             ELSE thread' = [thread EXCEPT ![e] = "backoff"] /\ UNCHANGED verdict
  /\ UNCHANGED <<shim, entryFault, sink, joined, flags, code, runsOf>>
Respawn(e) ==
  /\ code = -1 /\ thread[e] = "backoff"
  /\ thread' = [thread EXCEPT ![e] = "running"]
  /\ runsOf' = [runsOf EXCEPT ![e] = @ + 1]
  /\ UNCHANGED <<shim, entryFault, restarts, verdict, sink, joined, flags, code>>

\* The join loop, in entry order; each verdict raises at most one flag.
Flag(v) ==
  CASE v = "unknown" -> "unknown" [] v = "err" -> "err" [] v = "defect" -> "defect"
    [] v = "panic" -> "bad" [] OTHER -> "none"
Join ==
  /\ shim = "multi" /\ code = -1 /\ joined < Entries
  /\ thread[joined + 1] = "over"
  /\ joined' = joined + 1
  /\ flags' = [f \in DOMAIN flags |-> flags[f] \/ f = Flag(verdict[joined + 1])]
  /\ UNCHANGED <<shim, thread, entryFault, restarts, verdict, sink, code, runsOf>>
ExitMulti ==
  /\ shim = "multi" /\ code = -1 /\ joined = Entries
  /\ code' = IF flags.bad THEN 1 ELSE IF flags.defect THEN 4
             ELSE IF flags.unknown THEN 3 ELSE IF flags.err THEN 2 ELSE 0
  /\ UNCHANGED <<shim, thread, entryFault, restarts, verdict, sink, joined, flags, runsOf>>
\* The single-root shim, which also asks for a fault the result does not show.
first_fault_ignored == FALSE
first_fault == entryFault[1]
ExitSingle ==
  /\ shim = "single" /\ code = -1 /\ thread[1] = "over"
  /\ code' = CASE verdict[1] = "defect" -> 4 [] verdict[1] = "panic" -> 101
               [] verdict[1] = "err" -> 2 [] verdict[1] = "unknown" -> 3
               [] OTHER -> IF first_fault THEN 3 ELSE 0
  /\ UNCHANGED <<shim, thread, entryFault, restarts, verdict, sink, joined, flags, runsOf>>

UInit ==
  /\ shim \in Modes
  /\ thread = [e \in Ids |-> IF Live(e) THEN "running" ELSE "over"]
  /\ entryFault = [e \in Ids |-> FALSE]
  /\ restarts = [e \in Ids |-> 0]
  /\ verdict = [e \in Ids |-> "none"]
  /\ sink = [e \in Ids |-> FALSE]
  /\ joined = 0 /\ flags = NoFlags /\ code = -1
  /\ runsOf = [e \in Ids |-> 1]
UNext ==
  \/ \E e \in Ids : Fault(e) \/ Return(e) \/ Defect(e) \/ Panic(e) \/ Respawn(e)
  \/ Join \/ ExitMulti \/ ExitSingle
USpec == UInit /\ [][UNext]_uvars

Ended(v) == \E e \in Ids : Live(e) /\ verdict[e] = v

\* The generated main: it exits only when every entry is over, whatever panics
\* happened on the way; the code is 0 exactly when no entry ended in a panic,
\* a defect, an Unknown or an Err (and, for a single root, met no fault), and
\* otherwise names the worst; a body is run again only after a panic, at most
\* Budget times; and the verdict sink is set exactly for bodies that completed.
ExitCodeIsTheVerdict ==
  /\ code # -1 => \A e \in Ids : Live(e) => thread[e] = "over" /\ verdict[e] # "none"
  /\ code = 0 => \A e \in Ids : Live(e) => verdict[e] \in {"unit", "value"}
  /\ code # -1 /\ shim = "multi" =>
       /\ (code = 1) = Ended("panic")
       /\ (code = 4) = (Ended("defect") /\ ~Ended("panic"))
       /\ (code = 3) = (Ended("unknown") /\ ~Ended("panic") /\ ~Ended("defect"))
  /\ code = 0 /\ shim = "single" => ~entryFault[1]
  /\ \A e \in Ids : /\ runsOf[e] <= Budget + 1
                    /\ verdict[e] = "panic" /\ shim = "multi" => runsOf[e] = Budget + 1
                    /\ sink[e] = (verdict[e] \in {"unit", "value", "err", "unknown"})

\* main.rs, of the single-root shim: "A fault whose Unknown did not reach the
\* result ... still stopped every later effect: the run failed, so it must not
\* exit 0."  The same is asked of every generated main.
FaultedRunFails == code = 0 => \A e \in Ids : ~entryFault[e]
=============================================================================
