------------------------------ MODULE IrTerms ------------------------------
(***************************************************************************)
(* Core IR terms as runtime values (runtime/ir_constructors.rs,            *)
(* ir_accessors.rs) and the substitution evaluator over them               *)
(* (ir_eval.rs).                                                           *)
(*                                                                         *)
(* A program holds a stack of values it built with ir_make_*, takes them   *)
(* apart with ir_get_*, and rewrites or evaluates them.  A value is a      *)
(* record [kind, name, n, fields]: the Ctor kinds of the source (IntLit,   *)
(* BoolLit, UnitLit, Var, Lam, Let, If, App, Call) and the runtime values  *)
(* Int, Bool, Unit, Str.  Text is its name, a Bool is 0 or 1.  "Panic"     *)
(* and "Fuel" stand for an evaluation that panics and for one that is      *)
(* still running after MaxDepth nested calls of eval.                      *)
(*                                                                         *)
(* IrAsData lets a term hold a call of an accessor.                        *)
(***************************************************************************)
EXTENDS Integers, Sequences, SequencesExt, FiniteSets

CONSTANTS Names, Ints, MaxNodes, MaxDepth, IrAsData

VARIABLES terms,    \* the values the program holds, newest last
          outcome   \* the last rewriting or evaluation, and what it was given

tvars == <<terms, outcome>>

Make(k, name, n, fields) == [kind |-> k, name |-> name, n |-> n, fields |-> fields]
Data(k, n) == Make(k, "", n, <<>>)
Panic == Data("Panic", 0)
Fuel == Data("Fuel", 0)
Failed(v) == v.kind \in {"Panic", "Fuel"}

Prims == {"int_add"} \union (IF IrAsData THEN {"ir_get_body"} ELSE {})

RECURSIVE Size(_)
Size(t) == 1 + FoldLeft(+, 0, [i \in DOMAIN t.fields |-> Size(t.fields[i])])
Held == FoldLeft(+, 0, [i \in DOMAIN terms |-> Size(terms[i])])

(***************************************************************************)
(* Substitution, free variables, renaming.                                 *)
(***************************************************************************)
\* The fields of a term that are in the scope of its own binder.
Scope(t) == CASE t.kind = "Lam" -> {1} [] t.kind = "Let" -> {2} [] OTHER -> {}

ShadowedNever(name, t, i) == FALSE
Shadowed(name, t, i) == i \in Scope(t) /\ t.name = name

RECURSIVE subst_value(_, _, _)
subst_value(name, replacement, t) ==
    IF t.kind = "Var"
      THEN IF t.name = name THEN replacement ELSE t
      ELSE [t EXCEPT !.fields =
              [i \in DOMAIN t.fields |->
                 IF Shadowed(name, t, i) THEN t.fields[i]
                 ELSE subst_value(name, replacement, t.fields[i])]]

RECURSIVE free_vars_inner(_, _)
free_vars_inner(t, bound) ==
    IF t.kind = "Var" THEN {t.name} \ bound
    ELSE UNION {free_vars_inner(t.fields[i],
                                IF i \in Scope(t) THEN bound \union {t.name} ELSE bound)
                : i \in DOMAIN t.fields}
ir_free_vars(t) == free_vars_inner(t, {})

\* The parameter is replaced whatever it was; only old_name is substituted.
ir_rename(old, new, lam) ==
    IF lam.kind # "Lam" THEN Panic
    ELSE Make("Lam", new, 0,
              <<subst_value(old, Make("Var", new, 0, <<>>), lam.fields[1])>>)

(***************************************************************************)
(* Evaluation by substitution.                                             *)
(***************************************************************************)
truthy(v) == CASE v.kind \in {"Bool", "Int"} -> v.n # 0
               [] v.kind = "Unit" -> FALSE
               [] OTHER -> TRUE

\* A binary wrapper needs a tuple of at least two Ints; an accessor needs its kind.
dispatch(target, args) ==
    CASE target = "int_add" ->
           IF Len(args) >= 2 /\ args[1].kind = "Int" /\ args[2].kind = "Int"
             THEN Data("Int", args[1].n + args[2].n) ELSE Panic
      [] target = "ir_get_body" ->
           IF Len(args) = 1 /\ args[1].kind \in {"Lam", "Let"}
             THEN Last(args[1].fields) ELSE Panic
      [] OTHER -> Panic

FirstFailure(vs) == LET bad == SelectSeq(vs, Failed) IN
                    IF bad = <<>> THEN Data("Unit", 0) ELSE Head(bad)

RECURSIVE eval(_, _)
apply(f, arg, depth) ==
    IF f.kind # "Lam" THEN Panic
    ELSE eval(subst_value(f.name, arg, f.fields[1]), depth)
eval(t, depth) ==
    LET Of(i) == eval(t.fields[i], depth - 1) IN
    IF depth = 0 THEN Fuel ELSE
    CASE t.kind = "IntLit" -> Data("Int", t.n)
      [] t.kind = "BoolLit" -> Data("Bool", t.n)
      [] t.kind = "UnitLit" -> Data("Unit", 0)
      [] t.kind = "Var" -> Panic
      [] t.kind = "Let" ->
           LET v == Of(1) IN
           IF Failed(v) THEN v ELSE eval(subst_value(t.name, v, t.fields[2]), depth - 1)
      [] t.kind = "If" ->
           LET c == Of(1) IN
           IF Failed(c) THEN c ELSE IF truthy(c) THEN Of(2) ELSE Of(3)
      [] t.kind = "App" ->
           LET f == Of(1) a == Of(2) bad == FirstFailure(<<f, a>>) IN
           IF Failed(bad) THEN bad ELSE apply(f, a, depth - 1)
      [] t.kind = "Call" ->
           LET vs == [i \in DOMAIN t.fields |-> Of(i)] bad == FirstFailure(vs) IN
           IF Failed(bad) THEN bad ELSE dispatch(t.name, vs)
      [] OTHER -> t          \* a Lam, a runtime value, an opaque constructor

apply_bindings(t, bindings) ==
    FoldLeft(LAMBDA u, b : subst_value(b.name, b.value, u), t, bindings)

(***************************************************************************)
(* The reference: the same language with an environment and closures.      *)
(***************************************************************************)
Closure(lam, env) == [kind |-> "Closure", name |-> lam.name, n |-> 0,
                      fields |-> lam.fields, env |-> env]
Extend(env, name, v) == [x \in DOMAIN env \union {name} |-> IF x = name THEN v ELSE env[x]]
EmptyEnv == [x \in {} |-> 0]

RECURSIVE Meaning(_, _, _)
Meaning(t, env, depth) ==
    LET Of(i) == Meaning(t.fields[i], env, depth - 1) IN
    IF depth = 0 THEN Fuel ELSE
    CASE t.kind = "IntLit" -> Data("Int", t.n)
      [] t.kind = "BoolLit" -> Data("Bool", t.n)
      [] t.kind = "UnitLit" -> Data("Unit", 0)
      [] t.kind = "Var" -> IF t.name \in DOMAIN env THEN env[t.name] ELSE Panic
      [] t.kind = "Lam" -> Closure(t, env)
      [] t.kind = "Let" ->
           LET v == Of(1) IN
           IF Failed(v) THEN v ELSE Meaning(t.fields[2], Extend(env, t.name, v), depth - 1)
      [] t.kind = "If" ->
           LET c == Of(1) IN
           IF Failed(c) THEN c ELSE IF truthy(c) THEN Of(2) ELSE Of(3)
      [] t.kind = "App" ->
           LET f == Of(1) a == Of(2) bad == FirstFailure(<<f, a>>) IN
           IF Failed(bad) THEN bad
           ELSE IF f.kind # "Closure" THEN Panic
           ELSE Meaning(f.fields[1], Extend(f.env, f.name, a), depth - 1)
      [] t.kind = "Call" ->
           LET vs == [i \in DOMAIN t.fields |-> Of(i)] bad == FirstFailure(vs) IN
           IF Failed(bad) THEN bad
           ELSE IF t.name = "ir_get_body" /\ vs[1].kind = "Closure" THEN vs[1].fields[1]
           ELSE dispatch(t.name, vs)
      [] OTHER -> t

(***************************************************************************)
(* The program.                                                            *)
(***************************************************************************)
Running == outcome.op = "none"
Replace(k, t) == terms' = Append(SubSeq(terms, 1, Len(terms) - k), t)
Top(i) == terms[Len(terms) + 1 - i]

MakeLeaf ==
    /\ Running /\ Held < MaxNodes
    /\ \E t \in [kind : {"IntLit"}, name : {""}, n : Ints, fields : {<<>>}]
           \union [kind : {"Var"}, name : Names, n : {0}, fields : {<<>>}]
           \union {Make("BoolLit", "", 0, <<>>), Make("UnitLit", "", 0, <<>>)} :
         Replace(0, t)
    /\ UNCHANGED outcome

\* ir_make_lam, _let, _if, _app, _call: the newest values become the fields.
MakeNode ==
    /\ Running /\ Held < MaxNodes
    /\ \E k \in {"Lam", "Let", "If", "App", "Call"} :
       LET arity == CASE k \in {"Lam"} -> 1 [] k = "If" -> 3 [] OTHER -> 2
           labels == CASE k \in {"Lam", "Let"} -> Names [] k = "Call" -> Prims [] OTHER -> {""}
       IN \E name \in labels :
          LET width == IF name = "ir_get_body" THEN 1 ELSE arity IN
          /\ Len(terms) >= width
          /\ Replace(width, Make(k, name, 0, [i \in 1..width |-> Top(width + 1 - i)]))
    /\ UNCHANGED outcome

\* ir_get_fn, _arg, _body, _value, _cond, _then, _else: one field is left.
Get ==
    /\ Running /\ Len(terms) > 0
    /\ Top(1).kind \in {"Lam", "Let", "If", "App"}
    /\ \E i \in DOMAIN Top(1).fields : Replace(1, Top(1).fields[i])
    /\ UNCHANGED outcome

Finish(op, name, new, args, v) ==
    outcome' = [op |-> op, name |-> name, new |-> new, args |-> args, v |-> v]

Subst ==
    /\ Running /\ Len(terms) = 2
    /\ \E name \in Names :
         Finish("subst", name, name, terms, subst_value(name, terms[1], terms[2]))
    /\ UNCHANGED terms

Rename ==
    /\ Running /\ Len(terms) = 1
    /\ \E old, new \in Names :
         Finish("rename", old, new, terms, ir_rename(old, new, terms[1]))
    /\ UNCHANGED terms

\* ir_eval with one binding: the first term's value for a name of the second.
Eval ==
    /\ Running /\ Len(terms) = 2
    /\ \E name \in Names :
         LET bindings == <<[name |-> name, value |-> terms[1]]>> IN
         Finish("eval", name, name, terms,
                eval(apply_bindings(terms[2], bindings), MaxDepth))
    /\ UNCHANGED terms

\* ir_apply: the function first, then the argument.
Apply ==
    /\ Running /\ Len(terms) = 2
    /\ Finish("apply", "", "", terms, apply(terms[1], terms[2], MaxDepth))
    /\ UNCHANGED terms

TInit == terms = <<>> /\ outcome = [op |-> "none", name |-> "", new |-> "",
                                    args |-> <<>>, v |-> Data("Unit", 0)]
TNext == MakeLeaf \/ MakeNode \/ Get \/ Subst \/ Rename \/ Eval \/ Apply
TSpec == TInit /\ [][TNext]_tvars

(***************************************************************************)
(* Properties.                                                             *)
(***************************************************************************)
\* A substituted evaluation and a reference one agree: the same plain value,
\* a Lam for a closure, a panic for a panic; neither is judged out of fuel.
Agree(v, ref) == \/ "Fuel" \in {v.kind, ref.kind}
                 \/ IF ref.kind = "Closure" THEN v.kind = "Lam" ELSE v = ref

Reference(name, value, t) ==
    Meaning(t, Extend(EmptyEnv, name, Meaning(value, EmptyEnv, MaxDepth)), MaxDepth)
EvalAgrees ==
    LET a == outcome.args IN Agree(outcome.v, Reference(outcome.name, a[1], a[2]))

\* Evaluating a closed term by substitution gives what an environment semantics
\* gives: for ir_eval of a term with one free variable and a closed binding for
\* it, for ir_apply of a closed function to a literal.  Substitution of a closed
\* term replaces exactly the free occurrences of a name, and renaming a
\* parameter to a name that is not used keeps the term's free variables
\* (subst_value and its shadowing, eval, apply, ir_rename).  Nothing is said of
\* the evaluation of terms that are open: there subst_value captures.
TermLaws ==
    LET a == outcome.args v == outcome.v fv == ir_free_vars(v) IN
    /\ outcome.op = "eval" /\ ir_free_vars(a[1]) = {} /\ ir_free_vars(a[2]) \subseteq {outcome.name}
         => EvalAgrees
    /\ outcome.op = "apply" /\ a[1].kind = "Lam" /\ ir_free_vars(a[1]) = {}
         /\ a[2].kind \in {"IntLit", "BoolLit"} =>
         Agree(v, Reference(a[1].name, a[2], a[1].fields[1]))
    /\ outcome.op = "subst" /\ ir_free_vars(a[1]) = {} =>
         fv = ir_free_vars(a[2]) \ {outcome.name}
    /\ outcome.op = "rename" /\ a[1].kind = "Lam" /\ outcome.name = a[1].name
         /\ outcome.new \notin ir_free_vars(a[1].fields[1]) => fv = ir_free_vars(a[1])

\* "call-by-value with capture-avoiding substitution" (ir_eval.rs:3).  With y
\* bound to a term that has x free, Let x = 1 in y evaluates to 1: the x of the
\* binding, which has no value, is captured by the Let.
SubstitutionAvoidsCapture == outcome.op = "eval" => EvalAgrees
=============================================================================
