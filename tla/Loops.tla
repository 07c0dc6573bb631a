-------------------------------- MODULE Loops --------------------------------
(***************************************************************************)
(* runtime/iter.rs: the loops that call back into emitted code.  An answer *)
(* of the callback is an ordinary value, true or false, or it is stuck: an *)
(* Unknown or an Err, which is a constructor and therefore counts as true. *)
(* The order of the two tests in each loop is what the property is about.  *)
(***************************************************************************)
EXTENDS Integers, Sequences, FiniteSetsExt, SequencesExt

CONSTANTS
    Loops,          \* the loops modelled
    MaxItems        \* items of a list, or iterations

VARIABLES
    loop,       \* which loop runs
    items,      \* elements of the list, or the iteration cap
    second,     \* elements of the other lists of map2 and map3
    taken,      \* items consumed
    atCond,     \* loop_while: the next call is the condition
    acc,        \* out, acc or n of the loop
    ret,        \* what the loop returned, NotYet before
    answers     \* ghost: what the callback answered, call by call

ovars == <<loop, items, second, taken, atCond, acc, ret, answers>>

\* answers differ by their call, so that a result names the call it came from
Answer(k, c) == [kind |-> k, call |-> c]
Kinds == {"true", "false", "unknown", "err"}
stuck(a) == a.kind \in {"unknown", "err"}
truthy(a) == a.kind # "false"

NotYet == [is |-> "running"]
Value(a) == [is |-> "answer", of |-> a]
List(s) == [is |-> "list", of |-> s]
Number(n) == [is |-> "number", of |-> n]
Truth(b) == [is |-> "bool", of |-> b]
Unit == [is |-> "unit"]
Panic == [is |-> "panic"]

Folds == {"fold", "loop_count", "loop_while"}
Builders == {"map", "map2", "map3", "flat_map", "filter"}

OInit ==
    /\ loop \in Loops /\ items \in 0 .. MaxItems
    /\ second \in (IF loop \in {"map2", "map3"} THEN 0 .. MaxItems ELSE {items})
    /\ taken = 0 /\ atCond = (loop = "loop_while")
    /\ acc = (IF loop \in Builders THEN List(<<>>)
              ELSE IF loop \in Folds THEN Value(Answer("true", 0)) ELSE Number(0))
    /\ ret = NotYet /\ answers = <<>>

\* map2 and map3 refuse lists of different lengths before the first call
Refuse ==
    /\ ret = NotYet /\ taken = 0 /\ second # items /\ ret' = Panic
    /\ UNCHANGED <<loop, items, second, taken, atCond, acc, answers>>

\* the list or the iterations are used up: the loop returns what it has
Exhausted ==
    /\ ret = NotYet /\ second = items /\ taken = items
    /\ ret' = CASE loop = "foreach" -> Unit
              [] loop = "any" -> Truth(FALSE)
              [] loop = "all" -> Truth(TRUE)
              [] loop = "find_index" -> Number(-1)
              [] OTHER -> acc
    /\ UNCHANGED <<loop, items, second, taken, atCond, acc, answers>>

\* slip: a condition is looked at for its truth only
ReturnsTruthFirst(a) ==
    CASE loop = "any" /\ truthy(a) -> Truth(TRUE)
      [] loop = "all" /\ ~truthy(a) -> Truth(FALSE)
      [] loop = "find_index" /\ truthy(a) -> Number(taken)
      [] loop = "loop_while" /\ atCond /\ ~truthy(a) -> acc
      [] OTHER -> IF stuck(a) /\ loop \notin {"filter", "count"} THEN Value(a) ELSE NotYet

\* what an answer makes the loop return at once: a stuck one before anything
\* else, then a predicate that decides, or a condition that ends the loop
Returns(a) ==
    IF stuck(a) THEN Value(a)
    ELSE CASE loop = "any" /\ truthy(a) -> Truth(TRUE)
           [] loop = "all" /\ ~truthy(a) -> Truth(FALSE)
           [] loop = "find_index" /\ truthy(a) -> Number(taken)
           [] loop = "loop_while" /\ atCond /\ ~truthy(a) -> acc
           [] OTHER -> NotYet

\* what an answer adds when the loop goes on
Adds(a) ==
    CASE loop \in {"map", "map2", "map3", "flat_map"} -> List(Append(acc.of, a))
      [] loop = "filter" /\ truthy(a) -> List(Append(acc.of, taken + 1))
      [] loop = "count" /\ truthy(a) -> Number(acc.of + 1)
      [] loop \in Folds /\ ~atCond -> Value(a)
      [] OTHER -> acc

\* one call of the callback and the tests on its answer.  flat_map appends
\* the list it got, one element standing for it here.
Call(k) ==
    LET a == Answer(k, Len(answers) + 1)
    IN  /\ ret = NotYet /\ second = items /\ taken < items
        /\ answers' = Append(answers, a)
        /\ ret' = Returns(a)
        /\ acc' = IF Returns(a) = NotYet THEN Adds(a) ELSE acc
        /\ taken' = IF atCond THEN taken ELSE taken + 1
        /\ atCond' = (loop = "loop_while" /\ ~atCond)
        /\ UNCHANGED <<loop, items, second>>

ONext == Refuse \/ Exhausted \/ \E k \in Kinds : Call(k)
OSpec == OInit /\ [][ONext]_ovars

(***************************************************************************)
(* What a loop's answer has to be, from the answers it got.                *)
(***************************************************************************)
Trues == {i \in DOMAIN answers : answers[i].kind = "true"}
Falses == {i \in DOMAIN answers : answers[i].kind = "false"}
Body == SelectSeq(answers, LAMBDA a : loop # "loop_while" \/ a.call % 2 = 0)
Result ==
    CASE loop = "foreach" -> Unit
      [] loop \in {"map", "map2", "map3", "flat_map"} -> List(answers)
      [] loop = "filter" -> List(SetToSortSeq(Trues, <))
      [] loop = "count" -> Number(Cardinality(Trues))
      [] loop = "any" -> Truth(Trues # {})
      [] loop = "all" -> Truth(Falses = {})
      [] loop = "find_index" -> Number(IF Trues = {} THEN -1 ELSE Min(Trues) - 1)
      [] loop \in Folds -> Value(IF Body = <<>> THEN Answer("true", 0) ELSE Last(Body))

\* A loop ends at the first stuck answer, whatever its truth, makes no call
\* after it and returns that very answer.  Otherwise it returns what the
\* answers say, in order, having called no more often than it has items and
\* not again once a predicate has decided.
LoopsStopOnUnknown ==
    /\ \A i \in DOMAIN answers :
        stuck(answers[i]) => i = Len(answers) /\ ret = Value(answers[i])
    /\ ret \notin {NotYet, Panic} /\ (\A i \in DOMAIN answers : ~stuck(answers[i])) => ret = Result
    /\ Len(answers) <= (IF loop = "loop_while" THEN 2 * items ELSE items)
    /\ loop \in {"any", "find_index"} => \A i \in Trues : i = Len(answers)
    /\ loop = "all" => \A i \in Falses : i = Len(answers)
    /\ ret = Panic => answers = <<>>
=============================================================================
