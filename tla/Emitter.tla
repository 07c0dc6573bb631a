------------------------------ MODULE Emitter -------------------------------
(***************************************************************************)
(* From a Core IR 0.6 bundle to running code: the block verifier of the    *)
(* loader (core_ir_05/mod.rs), the move-on-last-use analysis and the code  *)
(* the emitter writes (emit/rust_05.rs), and the fault guard every builtin *)
(* call goes through at run time (runtime/fault.rs).                       *)
(*                                                                         *)
(* Nodes are numbered from 1.  A reference is <<"node", j>> or             *)
(* <<"pool", p>>; pool 0 is Unit and pool 1 is the parameter.  The emitted *)
(* Rust is modelled by running it: env holds the variables that are in     *)
(* scope and not moved, so a line that names anything else would not       *)
(* compile, and phase becomes "broken".                                    *)
(***************************************************************************)
EXTENDS Naturals, Sequences, SequencesExt, FiniteSets, TLC

CONSTANTS
  MaxNodes,      \* longest bundle written
  MaxOps,        \* most calls, and most blocks, of a bundle
  Kinds          \* the sorts of call the bundle may make

VARIABLES
  nodes,         \* CoreBundle.nodes, as far as it has been read
  stack,         \* verify_blocks: the open blocks, innermost first
  home,          \* Blocks.home: the block a node sits in, 0 at top level
  partner,       \* Blocks.partner: block to end and end to block, 0 if none
  arm,           \* Blocks.arm: the CIf an end belongs to and which arm
  phase,         \* scan, refused, run, broken, defect, exit, done
  result,        \* CoreBundle.result
  at,            \* the node whose emitted line runs next
  env,           \* the variables that can be named here, with their values
  faulted,       \* fault.rs FAULTED: the first fault of this entry
  choice,        \* history: the arm each CIf took
  ran,           \* history: the lines run, in order
  effects,       \* history: the effects performed, in order
  before         \* history: how many effects preceded the fault

evars == <<nodes, stack, home, partner, arm, phase, result, at, env, faulted,
           choice, ran, effects, before>>

Param == <<"pool", 1>>
UnitRef == <<"pool", 0>>
NodeOf(j) == <<"node", j>>
NoArm == <<0, "none">>
Truth(b) == <<IF b THEN "true" ELSE "false", 0>>
Unit == <<"unit", 0>>
Unknown(i) == <<"unknown", i>>
Err(i) == <<"err", i>>
is_failure(v) == v[1] \in {"unknown", "err"}

(***************************************************************************)
(* Calls.  A builtin is declared pure and deterministic or it is not; a    *)
(* higher-order builtin also names a callback in its pool; an extern call  *)
(* goes to another bundle and is not guarded.                              *)
(***************************************************************************)
PureTarget(kind) == kind \in {"pure", "hof"}
PureCallback(kind) == kind # "hof"
Guarded(kind) == kind \notin {"extern", "det"}
Performs(kind) == kind \in {"effect", "hof"}

call_is_pure_target(kind) == PureTarget(kind)
call_is_pure_det(kind) == PureTarget(kind) /\ PureCallback(kind)

Refs(i) == {Param} \cup {NodeOf(j) : j \in {k \in 1..i - 1 : nodes[k].op # "block"}}
Ends(i) == {NodeOf(j) : j \in {k \in 1..i - 1 : nodes[k].op = "end"}}
Count(op) == Cardinality({k \in DOMAIN nodes : nodes[k].op = op})

Args(kind, i) ==
  CASE kind = "det"  -> {<<>>}
    [] kind = "pure" -> {<<r>> : r \in Refs(i)} \cup {<<r, r>> : r \in Refs(i)}
    [] OTHER         -> {<<r>> : r \in Refs(i)}

Nodes(i) ==
  {[op |-> "block"]}
  \cup [op : {"end"}, value : Refs(i)]
  \cup [op : {"if"}, cond : Refs(i), then : Ends(i), els : Ends(i) \cup {UnitRef}]
  \cup UNION {[op : {"call"}, kind : {kind}, args : Args(kind, i)] : kind \in Kinds}

(***************************************************************************)
(* verify_blocks, first pass: one node at a time, in index order.          *)
(***************************************************************************)
IsEnd(r) == r[1] = "node" /\ nodes[r[2]].op = "end"
ArmsFit(nd, k) ==
  \/ /\ nd.els = NodeOf(k - 1) /\ IsEnd(nd.els)
     /\ nd.then = NodeOf(partner[k - 1] - 1) /\ IsEnd(nd.then)
  \/ nd.then = NodeOf(k - 1) /\ nd.els = UnitRef
ArmFree(r) == r = UnitRef \/ arm[r[2]] = NoArm

ReadBlock(nd, k) ==
  /\ nd.op = "block"
  /\ stack' = <<k>> \o stack
  /\ home' = Append(home, IF stack = <<>> THEN 0 ELSE Head(stack))
  /\ partner' = Append(partner, 0)
  /\ arm' = Append(arm, NoArm)
  /\ UNCHANGED phase
ReadEnd(nd, k) ==
  /\ nd.op = "end"
  /\ IF stack = <<>>
     THEN phase' = "refused" /\ UNCHANGED <<stack, home, partner, arm>>
     ELSE /\ stack' = Tail(stack)
          /\ partner' = Append([partner EXCEPT ![Head(stack)] = k], Head(stack))
          /\ home' = Append(home, IF Tail(stack) = <<>> THEN 0 ELSE stack[2])
          /\ arm' = Append(arm, NoArm)
          /\ UNCHANGED phase
ReadIf(nd, k) ==
  /\ nd.op = "if"
  /\ IF ArmFree(nd.then) /\ ArmFree(nd.els) /\ nd.then # nd.els /\ ArmsFit(nd, k)
     THEN /\ arm' = Append([j \in DOMAIN arm |->
                              IF nd.then = NodeOf(j) THEN <<k, "then">>
                              ELSE IF nd.els = NodeOf(j) THEN <<k, "else">> ELSE arm[j]], NoArm)
          /\ home' = Append(home, IF stack = <<>> THEN 0 ELSE Head(stack))
          /\ partner' = Append(partner, 0)
          /\ UNCHANGED <<stack, phase>>
     ELSE phase' = "refused" /\ UNCHANGED <<stack, home, partner, arm>>
ReadCall(nd, k) ==
  /\ nd.op = "call"
  /\ home' = Append(home, IF stack = <<>> THEN 0 ELSE Head(stack))
  /\ partner' = Append(partner, 0)
  /\ arm' = Append(arm, NoArm)
  /\ UNCHANGED <<stack, phase>>

\* The next node of the file.  The bounds keep the bundles small.
ReadNode ==
  /\ phase = "scan" /\ Len(nodes) < MaxNodes
  /\ LET k == Len(nodes) + 1 IN
     \E nd \in Nodes(k) :
       /\ nd.op \in {"call", "block"} => Count(nd.op) < MaxOps
       /\ nodes' = Append(nodes, nd)
       /\ ReadBlock(nd, k) \/ ReadEnd(nd, k) \/ ReadIf(nd, k) \/ ReadCall(nd, k)
  /\ UNCHANGED <<result, at, env, faulted, choice, ran, effects, before>>

(***************************************************************************)
(* verify_blocks, second pass: a use may only name a value that is neither *)
(* an arm's end nor inside a block that is closed where the use stands.    *)
(***************************************************************************)
Open(b, u) == b < u /\ u <= partner[b]
check(u, r) ==
  r[1] = "node" => /\ arm[r[2]] = NoArm
                   /\ home[r[2]] = 0 \/ Open(home[r[2]], u)
Uses(nd) ==
  CASE nd.op = "call" -> nd.args
    [] nd.op = "if"   -> <<nd.cond>>
    [] nd.op = "end"  -> <<nd.value>>
    [] OTHER          -> <<>>
Verified(res) ==
  /\ stack = <<>>
  /\ \A u \in DOMAIN nodes : \A a \in DOMAIN Uses(nodes[u]) : check(u, Uses(nodes[u])[a])
  /\ check(Len(nodes) + 1, res)

\* The end of the file: the result reference, and the verdict.
ReadResult ==
  /\ phase = "scan" /\ nodes # <<>>
  /\ \E res \in Refs(Len(nodes) + 1) :
       /\ result' = res
       /\ phase' = IF Verified(res) THEN "run" ELSE "refused"
  /\ at' = 1
  /\ \E v \in {Truth(TRUE), Truth(FALSE)} : env' = (Param :> v)
  /\ UNCHANGED <<nodes, stack, home, partner, arm, faulted, choice, ran, effects, before>>

(***************************************************************************)
(* Move on last use: where the emitted code hands a value over instead of  *)
(* cloning it.                                                             *)
(***************************************************************************)
ResultUse == Len(nodes) + 1
UsesOf(r) ==
  {<<u, a>> \in (DOMAIN nodes) \X (1..2) :
     a \in DOMAIN Uses(nodes[u]) /\ Uses(nodes[u])[a] = r}
  \cup (IF result = r THEN {<<ResultUse, 1>>} ELSE {})
TopLevel(u) == u # ResultUse /\ home[u] = 0 /\ nodes[u].op \in {"call", "if"}

last_uses(r, u) ==
  LET uses == UsesOf(r) IN
  /\ \E x \in uses : x[1] = u
  /\ \/ Cardinality(uses) = 1
     \/ /\ \A x \in uses : x[1] <= u /\ TopLevel(x[1])
        /\ Cardinality({x \in uses : x[1] = u}) = 1

\* The environment once the uses of line u have been evaluated.
AfterUses(u, rs) ==
  LET gone == {r \in Range(rs) : last_uses(r, u)}
  IN [r \in DOMAIN env \ gone |-> env[r]]
Bind(e, r, v) == [x \in DOMAIN e \cup {r} |-> IF x = r THEN v ELSE e[x]]
\* A Rust block's end drops what was declared in it.
LeaveScope(e, b, u) == [r \in {x \in DOMAIN e : x[1] = "pool" \/ x[2] \notin b..u} |-> e[r]]
\* What line u may name: in scope, and handed over at most once.
Compiles(u, rs) ==
  /\ Range(rs) \subseteq DOMAIN env
  /\ \A a, b \in DOMAIN rs : rs[a] = rs[b] /\ last_uses(rs[a], u) => a = b
Break == phase' = "broken" /\ UNCHANGED <<at, env, faulted, choice, ran, effects, before>>

(***************************************************************************)
(* The fault guard.                                                        *)
(***************************************************************************)
Failing(args) == {a \in DOMAIN args : is_failure(env[args[a]])}
guard_pre(kind, args) ==
  IF ~call_is_pure_det(kind) /\ faulted # <<>> THEN faulted
  ELSE IF Failing(args) # {}
       THEN <<env[args[CHOOSE a \in Failing(args) : \A b \in Failing(args) : a <= b]]>>
       ELSE <<>>

\* Line u ran with value v.
Ran(u, v) ==
  /\ env' = Bind(AfterUses(u, Uses(nodes[u])), NodeOf(u), v)
  /\ ran' = Append(ran, u)
  /\ at' = u + 1

CallSkipped(u, nd) ==
  /\ Guarded(nd.kind) /\ guard_pre(nd.kind, nd.args) # <<>>
  /\ Ran(u, guard_pre(nd.kind, nd.args)[1])
  /\ UNCHANGED <<phase, faulted, choice, effects, before>>
\* guard_run, and the call of another bundle, which its own guards protect.
CallReturns(u, nd) ==
  /\ Guarded(nd.kind) => guard_pre(nd.kind, nd.args) = <<>>
  /\ \E v \in IF nd.kind = "det" THEN {Unit} ELSE {Truth(TRUE), Truth(FALSE)} : Ran(u, v)
  /\ effects' = IF Performs(nd.kind) THEN Append(effects, u) ELSE effects
  /\ UNCHANGED <<phase, faulted, choice, before>>
\* A panic in a builtin: a defect if it is pure, else an Err the user named or a fault.
CallPanics(u, nd) ==
  /\ Guarded(nd.kind) /\ guard_pre(nd.kind, nd.args) = <<>>
  /\ IF call_is_pure_det(nd.kind)
     THEN phase' = "defect" /\ UNCHANGED <<at, env, faulted, choice, ran, effects, before>>
     ELSE \/ /\ Ran(u, Err(u))
             /\ UNCHANGED <<phase, faulted, choice, effects, before>>
          \/ phase' = "exit" /\ UNCHANGED <<at, env, faulted, choice, ran, effects, before>>
          \/ /\ Ran(u, Unknown(u))
             /\ faulted' = IF faulted = <<>> THEN <<Unknown(u)>> ELSE faulted
             /\ before' = IF faulted = <<>> THEN Len(effects) ELSE before
             /\ UNCHANGED <<phase, choice, effects>>

RunCall ==
  /\ phase = "run" /\ at <= Len(nodes) /\ nodes[at].op = "call"
  /\ IF ~Compiles(at, nodes[at].args) THEN Break
     ELSE CallSkipped(at, nodes[at]) \/ CallReturns(at, nodes[at]) \/ CallPanics(at, nodes[at])
  /\ UNCHANGED <<nodes, stack, home, partner, arm, result>>

(***************************************************************************)
(* emit_blocks: the blocks of the IR are the blocks of the Rust code.      *)
(***************************************************************************)
ElseBlock(k) == partner[nodes[k].els[2]]
Take(k, which, next) == choice' = [choice EXCEPT ![k] = which] /\ at' = next
OpenArm(k) ==
  LET c == nodes[k].cond IN
  IF c \notin DOMAIN env THEN Break
  ELSE /\ CASE is_failure(env[c]) -> Take(k, "none", k + 1) /\ env' = Bind(env, NodeOf(k), env[c])
            [] env[c] = Truth(TRUE) -> Take(k, "then", at + 1) /\ UNCHANGED env
            [] OTHER -> IF nodes[k].els = UnitRef
                        THEN Take(k, "else", k + 1) /\ env' = Bind(env, NodeOf(k), Unit)
                        ELSE Take(k, "else", ElseBlock(k) + 1) /\ UNCHANGED env
       /\ UNCHANGED <<phase, faulted, ran, effects, before>>
RunBlock ==
  /\ phase = "run" /\ at <= Len(nodes) /\ nodes[at].op = "block"
  /\ IF arm[partner[at]] # NoArm THEN OpenArm(arm[partner[at]][1])
     ELSE at' = at + 1 /\ UNCHANGED <<phase, env, faulted, choice, ran, effects, before>>
  /\ UNCHANGED <<nodes, stack, home, partner, arm, result>>

RunEnd ==
  /\ phase = "run" /\ at <= Len(nodes) /\ nodes[at].op = "end"
  /\ LET v == nodes[at].value
         k == arm[at][1]
         left == LeaveScope(AfterUses(at, <<v>>), partner[at], at)
     IN IF v \notin DOMAIN env THEN Break
        ELSE /\ env' = Bind(left, NodeOf(IF k = 0 THEN at ELSE k), env[v])
             /\ at' = IF k = 0 THEN at + 1 ELSE k + 1
             /\ UNCHANGED <<phase, faulted, choice, ran, effects, before>>
  /\ UNCHANGED <<nodes, stack, home, partner, arm, result>>

RunResult ==
  /\ phase = "run" /\ at = Len(nodes) + 1
  /\ phase' = IF result \in DOMAIN env THEN "done" ELSE "broken"
  /\ UNCHANGED <<nodes, stack, home, partner, arm, result, at, env, faulted, choice, ran, effects, before>>

EInit ==
  /\ nodes = <<>> /\ stack = <<>> /\ home = <<>> /\ partner = <<>> /\ arm = <<>>
  /\ phase = "scan" /\ result = Param /\ at = 1 /\ env = <<>>
  /\ faulted = <<>> /\ choice = [k \in 1..MaxNodes |-> "none"]
  /\ ran = <<>> /\ effects = <<>> /\ before = 0
ENext == ReadNode \/ ReadResult \/ RunCall \/ RunBlock \/ RunEnd \/ RunResult
ESpec == EInit /\ [][ENext]_evars

(***************************************************************************)
(* What the IR says, by counting instead of by a stack: the arms around a  *)
(* node, and the lines that must have run.                                 *)
(***************************************************************************)
Balance(i, j, op) == Cardinality({k \in i..j : nodes[k].op = op})
Encloses(b, i) ==
  /\ nodes[b].op = "block" /\ b < i
  /\ \A j \in b..i - 1 : Balance(b, j, "block") > Balance(b, j, "end")
EndOf(b) == CHOOSE e \in b + 1..Len(nodes) :
              /\ Balance(b, e, "block") = Balance(b, e, "end")
              /\ \A j \in b + 1..e - 1 : Balance(b, j, "block") # Balance(b, j, "end")
Selected(b) ==
  \A k \in DOMAIN nodes : nodes[k].op = "if" =>
    /\ nodes[k].then = NodeOf(EndOf(b)) => choice[k] = "then"
    /\ nodes[k].els = NodeOf(EndOf(b)) => choice[k] = "else"
MustRun(i) == nodes[i].op = "call" /\ \A b \in 1..i - 1 : Encloses(b, i) => Selected(b)

\* verify_blocks, last_uses, emit_blocks and fault::guard together: code
\* emitted for an accepted bundle never names a variable that is out of scope
\* or moved; a run that ends has run, in index order and once each, exactly the
\* calls whose enclosing arms were all selected; no effect is performed after
\* the entry's first fault; and an Unknown that reaches the result is that fault.
EmittedCodeFollowsIr ==
  /\ phase # "broken"
  /\ phase = "done" => ran = SelectSeq([i \in DOMAIN nodes |-> i], MustRun)
  /\ faulted # <<>> => Len(effects) = before
  /\ \A r \in DOMAIN env : env[r][1] = "unknown" => faulted = <<env[r]>>
=============================================================================
